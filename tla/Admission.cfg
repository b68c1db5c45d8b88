\* Two upgrades from two addresses, one slot each, one pending authorize.
CONSTANTS
    Upgrades = {u1, u2}
    Ips = {a, b}
    NoIp = NoIp
    MaxPerIp = 1
    MaxPending = 1
    Hook = TRUE
    StashCap = 1
    Nobody = Nobody
SPECIFICATION FairSpec
INVARIANTS IpCap AuthorizeLeavesNothing OnlyAcceptedOpen
PROPERTIES UpgradeSettles
