SPECIFICATION FairSpec
CONSTANTS
    Upgrades = {1, 2}
    MaxMsgs <- OneTalks
    Capacity = 2
    Batch = 3
    LowLoad = 2
    TsfnBound = 1
    MaxThrows = 1
INVARIANTS
    InOrder
    
PROPERTIES
    ClosedReachesApp
    CloseResolves
CHECK_DEADLOCK FALSE
