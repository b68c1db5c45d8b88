------------------------------ MODULE MCBridge ------------------------------
(***************************************************************************)
(* Two upgrades with a message or two each, over queues so short that they *)
(* fill, with one handler that may throw and a close() at any moment.      *)
(***************************************************************************)
EXTENDS Bridge

\* One connection reads two messages, the other opens and closes around them.
OneTalks == <<2, 0>>
=============================================================================
