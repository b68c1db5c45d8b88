---------------------------- MODULE MCConnection ----------------------------
(* Model checking Connection: two caller threads on one connection, and    *)
(* disturbances that come alone or in the pairs that interact.             *)
EXTENDS Connection

MCFaultSets == {{"stall", "peerClose"}, {"reset", "badFrame"}, {"idle"}, {"panic"}}
=============================================================================
