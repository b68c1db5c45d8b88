------------------------------ MODULE MCProbe -------------------------------
(* Model checking Probe: a node that starts two probes, one that starts one *)
(* and one that only answers; the two that probe may take a new             *)
(* incarnation.                                                             *)
EXTENDS Probe

Bounds == <<2, 1, 0>>
Incarnations == <<2, 2, 1>>
=============================================================================
