\* Two callers racing closes, pushes, the peer and the timers.
CONSTANTS
    Callers = {c1, c2}
    Capacity = 1
    CtlCap = 1
    MaxSends = 2
    MaxCloses = 1
    Policies = {"disconnect", "dropNewest", "dropOldest"}
    FaultSets <- MCFaultSets
    NoCmd = NoCmd
SPECIFICATION FairSpec
INVARIANTS NothingLost ReportsFirstCloser
PROPERTIES CloseCompletes NoHalfDead
