CONSTANTS
    None = None
    p1 = p1
    p2 = p2
    Prompt <- MCPrompt
    Older <- MCOlder
    Found <- MCFound
    MaxEvents = 1
    MaxFaults = 1
SPECIFICATION LiveSpec
CHECK_DEADLOCK FALSE
INVARIANTS OutcomeTold DrainedExit
PROPERTIES StopSilences RunsInOrder DispatchedOnce RunsEnd
