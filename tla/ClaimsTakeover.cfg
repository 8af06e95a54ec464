CONSTANTS
    None = None
    Process = {p1, p2}
    Unreliable = {p1}
    Overlap = TRUE
    Redelivery = TRUE
    Handler = {h1}
    Delivery <- TwiceDelivery
    Execution <- TwiceExecution
    ExecutionOf <- TwiceOf
    Reconciled = {"created2"}
    Session <- MCSession
    SessionOf <- TwiceSessionOf
    Kind <- TwiceKind
    OccurredAt <- TwiceOccurredAt
    ActivityRank <- TwiceActivityRank
    MaxRecoverable = 2
    BatchSize = 1
    MaxFaults = 2
    p1 = p1
    p2 = p2
    h1 = h1
SPECIFICATION Spec
CHECK_DEADLOCK FALSE
INVARIANTS OneStarter ClaimAgreement
PROPERTIES KeepsPromise
