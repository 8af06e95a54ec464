CONSTANTS
    None = None
    Process = {p1}
    Unreliable = {p1}
    Overlap = TRUE
    Redelivery = TRUE
    Handler = {h1, h2, h3}
    Delivery <- OneDelivery
    Execution <- OneExecution
    ExecutionOf <- OneOf
    Reconciled = {}
    Session <- MCSession
    SessionOf <- OneSessionOf
    Kind <- OneKind
    OccurredAt <- OneOccurredAt
    ActivityRank <- OneActivityRank
    MaxRecoverable = 1
    BatchSize = 1
    MaxFaults = 1
    p1 = p1
    h1 = h1
    h2 = h2
    h3 = h3
SYMMETRY Permutable
SPECIFICATION Spec
CHECK_DEADLOCK FALSE
INVARIANTS NoDoubleStart
