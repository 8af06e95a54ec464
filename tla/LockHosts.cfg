CONSTANTS
    None = None
    Process <- FarProcess
    Call <- FarCall
    Host = {"here", "other"}
    ProcessOf <- FarProcessOf
    HostOf <- FarHost
    PidOf <- FarPid
    UidOf <- FarUid
    MaxBoots = 1
SPECIFICATION Spec
CHECK_DEADLOCK FALSE
INVARIANTS LiveLockStays InCallOrder RejectedNeverApplied
PROPERTIES MutatesAtomically
