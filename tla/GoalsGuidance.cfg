CONSTANTS
    None = None
    g1 = g1
    g2 = g2
    Guidance <- MCGuidance
    Later <- MCLater
    Opening = Opening
    Recovery = Recovery
    MaxSteps = 2
    MaxRestarts = 1
SPECIFICATION Spec
CHECK_DEADLOCK FALSE
INVARIANT PendingGuidanceRuns
