\* Two connections over two slots, one room, one user, clustered.
CONSTANTS
    Conns = {c1, c2}
    Slots = {s1, s2}
    Shards = {h1}
    ShardOf <- MCShardOf
    Rooms = {r1}
    Users = {u1}
    NoUser = NoUser
    NoId = NoId
    NoRoom = NoRoom
    Vacant = Vacant
    GenMod = 2
    MaxRooms = 0
    Clustered = TRUE
SPECIFICATION FairSpec
INVARIANTS StaleIdMisses Bidirectional ChurnLeavesNothing FanoutExact
 
