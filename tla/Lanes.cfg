CONSTANTS
    None = None
    t1 = t1
    t2 = t2
    t3 = t3
    u1 = u1
    Session = {"t", "u"}
    Task <- MCTask
    Drain = {d1}
    SessionOf <- MCSessionOf
SPECIFICATION LiveSpec
CHECK_DEADLOCK FALSE
INVARIANTS InOrder SizeIsExact DrainCovers
PROPERTIES ServesInOrder EveryTurnComes
