----------------------------- MODULE Handshake ------------------------------
(***************************************************************************)
(* The mesh handshake (handshake.rs) as a pure state machine: what one end *)
(* of a connection does with a frame.                                      *)
(*                                                                         *)
(*     initiator  -- HELLO -->            <-- HELLO --          responder  *)
(*                                        <-- CHALLENGE --                 *)
(*                -- AUTH -->             <-- AUTH --                      *)
(*                                                                         *)
(* A MAC is the record of what it covers: two MACs agree exactly when the  *)
(* secrets, the role labels and the transcripts do.  The nonce and the     *)
(* fresh bytes of a HELLO are left out: they tell connections apart, and   *)
(* the frames of one TCP connection do not reach another.                  *)
(***************************************************************************)
EXTENDS Integers, Sequences

Frame(kind, body) == [kind |-> kind, body |-> body]

\* LinkConfig without its secret is the body of a HELLO.
HelloOf(cfg) ==
    [id |-> cfg.id, cluster |-> cfg.cluster, version |-> cfg.version,
     maxFrame |-> cfg.maxFrame, features |-> cfg.features]

NoHello == [id |-> 0, cluster |-> "", version |-> 0, maxFrame |-> 0, features |-> {}]

\* MIN_FRAME_FLOOR, in units of 64 bytes.
MinFrameFloor == 1

Lesser(a, b) == IF a < b THEN a ELSE b

\* validate_peer_hello: the reason to refuse the peer's HELLO, in the order of
\* the checks.
Refusal(cfg, h) ==
    CASE h.cluster # cfg.cluster -> "ClusterMismatch"
      [] h.id = cfg.id -> "NodeIdCollision"
      [] cfg.version - h.version \notin -1..1 -> "IncompatibleVersion"
      [] Lesser(cfg.maxFrame, h.maxFrame) < MinFrameFloor -> "MaxFrameTooSmall"
      [] OTHER -> "none"

\* What the two ends then speak.
Negotiated(cfg, h) ==
    [version |-> Lesser(cfg.version, h.version),
     features |-> cfg.features \cap h.features,
     maxFrame |-> Lesser(cfg.maxFrame, h.maxFrame)]

\* Handshake::new.
NewHandshake(role) == [role |-> role, state |-> "AwaitingHello", peer |-> NoHello]

OtherRole(role) == IF role = "initiator" THEN "responder" ELSE "initiator"

\* The two HELLO bodies as this end sent and received them, the initiator's
\* first.
Transcript(cfg, hs) ==
    IF hs.role = "initiator" THEN <<HelloOf(cfg), hs.peer>> ELSE <<hs.peer, HelloOf(cfg)>>

\* auth_mac without the transcript.
AuthMacBare(cfg, hs, label) == [secret |-> cfg.secret, label |-> label, over |-> <<>>]

\* auth_mac.
AuthMac(cfg, hs, label) ==
    [secret |-> cfg.secret, label |-> label, over |-> Transcript(cfg, hs)]

Refuse(hs) == [hs |-> [hs EXCEPT !.state = "Refused"], send |-> <<>>]

OnHello(cfg, hs, f) ==
    IF f.kind # "hello" \/ Refusal(cfg, f.body) # "none" THEN Refuse(hs)
    ELSE IF hs.role = "responder"
      THEN [hs |-> [hs EXCEPT !.state = "AwaitingAuth", !.peer = f.body],
            send |-> <<Frame("challenge", "nonce")>>]
      ELSE [hs |-> [hs EXCEPT !.state = "AwaitingChallenge", !.peer = f.body],
            send |-> <<>>]

OnChallenge(cfg, hs, f) ==
    IF f.kind # "challenge" THEN Refuse(hs)
    ELSE [hs |-> [hs EXCEPT !.state = "AwaitingAuth"],
          send |-> <<Frame("auth", AuthMac(cfg, hs, hs.role))>>]

\* The responder answers the initiator's AUTH with its own.
OnAuth(cfg, hs, f) ==
    IF f.kind # "auth" \/ f.body # AuthMac(cfg, hs, OtherRole(hs.role)) THEN Refuse(hs)
    ELSE [hs |-> [hs EXCEPT !.state = "Done"],
          send |-> IF hs.role = "responder"
                     THEN <<Frame("auth", AuthMac(cfg, hs, "responder"))>> ELSE <<>>]

\* on_frame: the next state of the machine and the frames to send.
OnFrame(cfg, hs, f) ==
    CASE hs.state = "AwaitingHello" -> OnHello(cfg, hs, f)
      [] hs.state = "AwaitingChallenge" -> OnChallenge(cfg, hs, f)
      [] hs.state = "AwaitingAuth" -> OnAuth(cfg, hs, f)
      [] OTHER -> Refuse(hs)
=============================================================================
