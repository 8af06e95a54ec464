CONSTANTS
    None = None
    Process <- RivalProcess
    Call <- RivalCall
    Host = {"here"}
    ProcessOf <- RivalProcessOf
    HostOf <- RivalHost
    PidOf <- RivalPid
    UidOf <- RivalUid
    MaxBoots = 0
SPECIFICATION Spec
CHECK_DEADLOCK FALSE
INVARIANTS MutualExclusion AloneSucceeds
PROPERTIES NothingLost
