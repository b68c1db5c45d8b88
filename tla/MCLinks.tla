------------------------------ MODULE MCLinks -------------------------------
(* Model checking Links: two nodes of neighbouring protocol versions.      *)
EXTENDS Links

Config(id, version, features) ==
    [id |-> id, cluster |-> "default", version |-> version, maxFrame |-> 2,
     features |-> features, secret |-> "secret"]

TwoVersions == <<Config(1, 1, {"interest", "relay"}), Config(2, 2, {"interest", "relay", "new"})>>
=============================================================================
