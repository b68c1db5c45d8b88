------------------------------ MODULE MCDrain -------------------------------
(* Model checking Drain: two upgrades around one close or shutdown.        *)
EXTENDS Drain, TLC

MCSymmetry == Permutations(Conns)
=============================================================================
