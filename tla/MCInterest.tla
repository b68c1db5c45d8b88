----------------------------- MODULE MCInterest -----------------------------
(* One host that takes up two rooms, or gives up the first, three nodes,   *)
(* one disturbance.  The rooms are alike, so the first transition is of s. *)
EXTENDS Interest

TwoRooms == ({1, 2} \X {"s"} \X BOOLEAN) \cup {<<2, "t", TRUE>>}
=============================================================================
