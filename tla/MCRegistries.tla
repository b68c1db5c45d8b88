---------------------------- MODULE MCRegistries ----------------------------
(* TLC instances of Registries.  All slots are in one shard, so that a     *)
(* leave holding the shard lock really blocks the other tasks.             *)
EXTENDS Registries, TLC

MCShardOf == [s \in Slots |-> CHOOSE h \in Shards : TRUE]

MCSymmetry == Permutations(Conns) \cup Permutations(Rooms)
              \cup Permutations(Users) \cup Permutations(Slots)
=============================================================================
