CONSTANTS
    None = None
    Created = Created
    Activity <- MCActivity
    Opening = 2
    Grace = 1
    Lookback = 1
    Retention = 1
    MaxTime = 2
    MaxFaults = 1
SPECIFICATION LiveSpec
CHECK_DEADLOCK FALSE
INVARIANTS RunsOnce NothingSkipped
PROPERTIES OnlyMissed MissedIsDecided
