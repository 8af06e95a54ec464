CONSTANTS
    Call = {c1, c2, c3}
    MaxPair = 5
    MaxFaults = 3
    c1 = c1
    c2 = c2
    c3 = c3
SYMMETRY Permutable
SPECIFICATION Spec
CHECK_DEADLOCK FALSE
INVARIANTS RotatesOnce AccessRenews
