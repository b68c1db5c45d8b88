\* Do the member tables converge after a cut, a failed probe or a crash?
CONSTANTS
    Nodes = {1, 2, 3}
    Seeds = {1}
    Unknown = Unknown
    Retransmit = 1
    GossipMax = 8
    Shaky = {{1, 2}}
    Mortal = {3}
    DigestLast = TRUE
    MaxFaults = 1
SPECIFICATION MembershipFairSpec
INVARIANTS NoForgedIncarnation
PROPERTIES DeathNeedsRefutation 
CHECK_DEADLOCK FALSE
