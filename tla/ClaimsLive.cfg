CONSTANTS
    None = None
    Process = {p1, p2, p3}
    Unreliable = {p1, p2}
    Overlap = FALSE
    Redelivery = FALSE
    Handler = {h1, h2}
    Delivery <- OneDelivery
    Execution <- OneExecution
    ExecutionOf <- OneOf
    Reconciled = {}
    Session <- MCSession
    SessionOf <- OneSessionOf
    Kind <- OneKind
    OccurredAt <- OneOccurredAt
    ActivityRank <- OneActivityRank
    MaxRecoverable = 1
    BatchSize = 1
    MaxFaults = 3
    p1 = p1
    p2 = p2
    p3 = p3
    h1 = h1
    h2 = h2
SPECIFICATION LiveSpec
CHECK_DEADLOCK FALSE
PROPERTIES AckedIsDecided
