CONSTANTS
    None = None
    Process = {p1, p2}
    Unreliable = {p1}
    Overlap = FALSE
    Redelivery = TRUE
    Handler = {h1, h2}
    Delivery <- StopsDelivery
    Execution <- StopsExecution
    ExecutionOf <- StopsOf
    Reconciled = {"ask2"}
    Session <- MCSession
    SessionOf <- StopsSessionOf
    Kind <- StopsKind
    OccurredAt <- StopsOccurredAt
    ActivityRank <- StopsActivityRank
    MaxRecoverable = 2
    BatchSize = 1
    MaxFaults = 1
    p1 = p1
    p2 = p2
    h1 = h1
    h2 = h2
SYMMETRY Permutable
SPECIFICATION Spec
CHECK_DEADLOCK FALSE
INVARIANTS TypeOK RecoveryAvailable EnvelopeWhilePending
PROPERTIES AckedStopHolds
