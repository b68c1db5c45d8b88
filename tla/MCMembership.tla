---------------------------- MODULE MCMembership ----------------------------
(* Model checking Membership: three nodes.                                 *)
EXTENDS Membership, TLC
=============================================================================
