---------------------------- MODULE MCAdmission -----------------------------
(* Model checking Admission: three or four upgrades from one or two        *)
(* addresses.                                                              *)
EXTENDS Admission, TLC

MCSymmetry == Permutations(Upgrades)
=============================================================================
