----------------------------- MODULE Connection -----------------------------
(***************************************************************************)
(* The life of one connection: connection/mod.rs run_connection with its   *)
(* read_loop and write_loop tasks, the ConnHandle that engine threads push *)
(* to and close, and the codec and peer below (external, as websocket.rs   *)
(* uses them).  The mailbox is used through its LossyQueue promise: frames *)
(* are numbered in the order they are pushed.                              *)
(*                                                                         *)
(* One step is one call on shared state: one mailbox push or pop, one      *)
(* signal of the close latch, one try_send on the control queue, one       *)
(* branch of a select!.  Timers fire at any time while armed.              *)
(***************************************************************************)
EXTENDS Integers, Sequences, FiniteSets

CONSTANTS
    Callers,    \* threads that use the handle: JS, mesh tasks, close()
    Capacity,   \* frames the mailbox holds before its policy fires
    CtlCap,     \* CONTROL_QUEUE_CAPACITY
    MaxSends,   \* bound: frames pushed in one behaviour
    MaxCloses,  \* bound: close calls in one behaviour
    Policies,   \* overflow policies
    FaultSets,  \* bound: the sets of disturbances one behaviour may contain
    NoCmd       \* the close latch is empty: not a command

\* Close codes of the engine's closers: socket.close, drain, backpressure and
\* a writer panic.
CallerCodes == {"app", "goingAway", "backpressure", "internal"}

Cmd == [code : CallerCodes, graceful : BOOLEAN]

ASSUME ConnectionAssumption ==
    /\ Capacity \in Nat \ {0}
    /\ CtlCap \in Nat \ {0}
    /\ MaxSends \in Nat /\ MaxCloses \in Nat
    /\ Policies \subseteq {"disconnect", "dropNewest", "dropOldest"}
    /\ FaultSets \subseteq SUBSET {"stall", "reset", "peerClose", "badFrame", "idle", "panic"}
    /\ NoCmd \notin Cmd

VARIABLES
    policy,     \* the mailbox's overflow policy
    faults,     \* the disturbances of this behaviour
    mail,       \* the mailbox: numbers of queued frames
    mclosed,    \* the mailbox is closed
    sends,      \* history: frames pushed
    accepted,   \* history: the frames push queued, evicted ones taken out
    ctl,        \* the control queue: ping and close frames
    latch,      \* CloseSignal
    first,      \* history: code of the first closer to reach the latch
    closes,     \* history: close calls made
    cpc,        \* caller -> "idle", "latch", "nudge": inside initiate_close
    ccmd,       \* caller -> its close command
    rpc,        \* run_connection / read_loop
    initiated,  \* read_loop has seen a graceful close and armed CLOSE_GRACE
    pongDue,    \* read_loop has armed the pong deadline
    result,     \* (code, reason) read_loop returned
    wpc,        \* write_loop
    inHand,     \* the frame write_loop is sending
    closeSent,  \* write_loop's close_sent
    promised,   \* history: frames queued when a graceful drain was latched
    sock,       \* the peer: "up", "stalled" (not reading) or "reset"
    peerClose,  \* the peer's close frame: "none", "sent", "read"
    codec,      \* the codec has sent or answered a close frame
    wire        \* the data and close frames the codec has put out

mailVars == <<policy, faults, mail, mclosed, sends, accepted>>
callVars == <<closes, cpc, ccmd>>
latchVars == <<latch, first, promised>>
readVars == <<rpc, initiated, pongDue, result>>
writeVars == <<wpc, inHand, closeSent>>
netVars == <<sock, peerClose, codec, wire>>
vars == <<mailVars, ctl, callVars, latchVars, readVars, writeVars, netVars>>

\* Frames: data carries its number, a close its code.
Data(n) == <<"data", n>>
CloseFrame(code) == <<"close", code>>
PingFrame == <<"ping", 0>>
NoFrame == <<"none", 0>>

CtlFrames == {PingFrame} \cup {CloseFrame(code) : code \in CallerCodes \cup {"peer"}}
DataFrames == {Data(n) : n \in 1..MaxSends}

Init ==
    /\ policy \in Policies /\ faults \in FaultSets
    /\ mail = <<>> /\ mclosed = FALSE /\ sends = 0 /\ accepted = {}
    /\ ctl = <<>>
    /\ latch = NoCmd /\ first = "none" /\ promised = {}
    /\ closes = 0
    /\ cpc = [c \in Callers |-> "idle"]
    /\ ccmd = [c \in Callers |-> NoCmd]
    /\ rpc = "start" /\ initiated = FALSE /\ pongDue = FALSE
    /\ result = "none"
    /\ wpc = "unspawned" /\ inHand = NoFrame /\ closeSent = FALSE
    /\ sock = "up" /\ peerClose = "none" /\ codec = FALSE /\ wire = <<>>

-----------------------------------------------------------------------------
(* The handle: ConnHandle::push, initiate_close.                           *)

\* try_send on the control queue: a miss when it is full or the writer, which
\* owns the receiver, is gone.
TrySend(x) == ctl' = IF wpc # "exited" /\ Len(ctl) < CtlCap THEN Append(ctl, x) ELSE ctl

\* registry.get still finds the handle.
Reachable(c) == rpc # "removed" /\ cpc[c] = "idle"

StartClose(c, code, graceful) ==
    /\ cpc' = [cpc EXCEPT ![c] = "latch"]
    /\ ccmd' = [ccmd EXCEPT ![c] = [code |-> code, graceful |-> graceful]]

Full == Len(mail) >= Capacity

\* A bare mailbox.push at an overflow: the mailbox closes, nobody is told.
PushOverflowBare(c) ==
    /\ Reachable(c)
    /\ sends < MaxSends
    /\ ~mclosed /\ Full /\ policy = "disconnect"
    /\ sends' = sends + 1
    /\ mclosed' = TRUE
    /\ UNCHANGED <<policy, faults, mail, accepted, ctl, callVars, latchVars, readVars,
                   writeVars, netVars>>

\* ConnHandle::push, PushOutcome::Disconnect: the mailbox closes and the
\* caller goes on to initiate_close(1013).
PushOverflow(c) ==
    /\ Reachable(c)
    /\ sends < MaxSends
    /\ ~mclosed /\ Full /\ policy = "disconnect"
    /\ sends' = sends + 1
    /\ mclosed' = TRUE
    /\ StartClose(c, "backpressure", TRUE)
    /\ UNCHANGED <<policy, faults, mail, accepted, ctl, closes, latchVars, readVars, writeVars, netVars>>

\* The other outcomes of push.
Push(c) ==
    /\ Reachable(c)
    /\ sends < MaxSends
    /\ sends' = sends + 1
    /\ \/ /\ mclosed \/ (Full /\ policy = "dropNewest")
          /\ UNCHANGED <<mail, accepted>>
       \/ /\ ~mclosed /\ ~Full
          /\ mail' = Append(mail, sends')
          /\ accepted' = accepted \cup {sends'}
       \/ /\ ~mclosed /\ Full /\ policy = "dropOldest"
          /\ mail' = Append(Tail(mail), sends')
          /\ accepted' = (accepted \ {Head(mail)}) \cup {sends'}
    /\ UNCHANGED <<policy, faults, mclosed, ctl, callVars, latchVars, readVars, writeVars, netVars>>

\* close_connection, admin disconnects (graceful) and the two sweeps of
\* Engine::close (1001, the second one not graceful).
CloseCall(c) ==
    /\ Reachable(c)
    /\ closes < MaxCloses
    /\ closes' = closes + 1
    /\ \/ StartClose(c, "app", TRUE)
       \/ \E graceful \in BOOLEAN : StartClose(c, "goingAway", graceful)
    /\ UNCHANGED <<mailVars, ctl, latchVars, readVars, writeVars, netVars>>

\* The last signal wins.
SignalLast(cmd) ==
    /\ latch' = cmd
    /\ first' = IF latch = NoCmd THEN cmd.code ELSE first
    /\ UNCHANGED promised

\* CloseSignal::signal: the first signal wins.
Signal(cmd) ==
    /\ latch' = IF latch = NoCmd THEN cmd ELSE latch
    /\ first' = IF latch = NoCmd THEN cmd.code ELSE first
    /\ promised' = IF latch = NoCmd /\ cmd = [code |-> "goingAway", graceful |-> TRUE]
                     THEN {mail[i] : i \in DOMAIN mail} ELSE promised

Latch(c) ==
    /\ cpc[c] = "latch"
    /\ Signal(ccmd[c])
    /\ cpc' = [cpc EXCEPT ![c] = "nudge"]
    /\ UNCHANGED <<mailVars, ctl, closes, ccmd, readVars, writeVars, netVars>>

Nudge(c) ==
    /\ cpc[c] = "nudge"
    /\ TrySend(CloseFrame(ccmd[c].code))
    /\ cpc' = [cpc EXCEPT ![c] = "idle"]
    /\ ccmd' = [ccmd EXCEPT ![c] = NoCmd]
    /\ UNCHANGED <<mailVars, closes, latchVars, readVars, writeVars, netVars>>

-----------------------------------------------------------------------------
(* run_connection and read_loop.                                           *)

\* Opened is emitted and the writer spawned; the handle is already in the
\* registry, so pushes and closes may have come first.
Open ==
    /\ rpc = "start"
    /\ rpc' = "watch"
    /\ wpc' = "idle"
    /\ UNCHANGED <<mailVars, ctl, callVars, latchVars, initiated, pongDue,
                   result, inHand, closeSent, netVars>>

\* read_loop returns; its deadlines go with it.
Return(code) == rpc' = "ended" /\ result' = code /\ pongDue' = FALSE

\* close_rx.borrow_and_update on a latched command.
SeeLatch ==
    IF latch.graceful
      THEN initiated' = TRUE /\ rpc' = "loop" /\ UNCHANGED <<result, pongDue>>
      ELSE Return(latch.code) /\ UNCHANGED initiated

\* A close may have been signalled before the loop started watching.
Watch ==
    /\ rpc = "watch"
    /\ IF latch = NoCmd THEN rpc' = "loop" /\ UNCHANGED <<initiated, result, pongDue>> ELSE SeeLatch
    /\ UNCHANGED <<mailVars, ctl, callVars, latchVars, writeVars, netVars>>

LatchUnseen == latch # NoCmd /\ ~initiated

\* close_rx.changed(), the first branch of the biased select!.
SeeClose ==
    /\ rpc = "loop"
    /\ LatchUnseen
    /\ SeeLatch
    /\ UNCHANGED <<mailVars, ctl, callVars, latchVars, writeVars, netVars>>

\* A branch below close_rx.changed().
Branch == rpc = "loop" /\ ~LatchUnseen

\* Our code if we initiated, else the given one.
OursOr(code) == IF initiated THEN latch.code ELSE code

\* A data or pong frame disarms the pong deadline.
ReadFrame ==
    /\ Branch
    /\ sock # "reset" /\ peerClose # "read"
    /\ pongDue
    /\ pongDue' = FALSE
    /\ UNCHANGED <<mailVars, ctl, callVars, latchVars, rpc, initiated, result,
                   writeVars, netVars>>

\* The peer's close frame: the codec answers it unless we closed first, the
\* writer is asked to as well, and the loop returns.
ReadClose ==
    /\ Branch
    /\ peerClose = "sent"
    /\ peerClose' = "read"
    /\ codec' = TRUE
    /\ wire' = IF codec THEN wire ELSE Append(wire, CloseFrame("peer"))
    /\ TrySend(CloseFrame("peer"))
    /\ Return(OursOr("peer"))
    /\ UNCHANGED <<mailVars, callVars, latchVars, initiated, writeVars, sock>>

\* End of stream, or a transport error (which reports its own code).
ReadEnd ==
    /\ Branch
    /\ \/ sock = "reset" /\ Return(OursOr("abnormal"))
       \/ sock = "reset" /\ Return("abnormal")
    /\ UNCHANGED <<mailVars, ctl, callVars, latchVars, initiated,
                   writeVars, netVars>>

\* The codec rejects a frame: oversized, malformed, not UTF-8.
ReadError ==
    /\ "badFrame" \in faults
    /\ Branch
    /\ peerClose # "read"
    /\ Return("protocol")
    /\ UNCHANGED <<mailVars, ctl, callVars, latchVars, initiated,
                   writeVars, netVars>>

\* ping_timer.tick() after an idle interval.
PingTick ==
    /\ "idle" \in faults
    /\ Branch
    /\ ~pongDue
    /\ TrySend(PingFrame)
    /\ pongDue' = TRUE
    /\ UNCHANGED <<mailVars, callVars, latchVars, rpc, initiated, result, writeVars, netVars>>

\* The deadline is armed and never polled.
CloseDeadlineNever == Branch /\ initiated /\ UNCHANGED vars

\* CLOSE_GRACE is over.
CloseDeadline ==
    /\ Branch
    /\ initiated
    /\ Return(latch.code)
    /\ UNCHANGED <<mailVars, ctl, callVars, latchVars, initiated,
                   writeVars, netVars>>

PongDeadline ==
    /\ Branch
    /\ pongDue
    /\ Return("noPong")
    /\ UNCHANGED <<mailVars, ctl, callVars, latchVars, initiated,
                   writeVars, netVars>>

\* catch_unwind around read_loop.
ReaderPanics ==
    /\ "panic" \in faults
    /\ rpc = "loop"
    /\ Return("panicked")
    /\ UNCHANGED <<mailVars, ctl, callVars, latchVars, initiated,
                   writeVars, netVars>>

\* handle.mailbox.close()
CloseMailbox ==
    /\ rpc = "ended"
    /\ mclosed' = TRUE
    /\ rpc' = "join"
    /\ UNCHANGED <<policy, faults, mail, sends, accepted, ctl, callVars, latchVars, initiated,
                   pongDue, result, writeVars, netVars>>

\* writer.await returned: Closed(result) is emitted.
EmitClosed ==
    /\ rpc = "join"
    /\ wpc = "exited"
    /\ rpc' = "closed"
    /\ UNCHANGED <<mailVars, ctl, callVars, latchVars, initiated, pongDue,
                   result, writeVars, netVars>>

\* run_admitted takes the entry out of the registry.
Remove ==
    /\ rpc = "closed"
    /\ rpc' = "removed"
    /\ UNCHANGED <<mailVars, ctl, callVars, latchVars, initiated, pongDue,
                   result, writeVars, netVars>>

-----------------------------------------------------------------------------
(* write_loop.  Sending is two steps: the codec takes the frame, then the  *)
(* send waits until the socket has taken the bytes.  The None arm of the   *)
(* control branch is dead: run_connection holds a sender.                  *)

Sending(frame) == wpc' = "start" /\ inHand' = frame

\* pop is not cancel-safe: a control command loses the frame being popped.
TakeControlLossy ==
    /\ wpc = "idle"
    /\ ctl # <<>>
    /\ ctl' = Tail(ctl)
    /\ mail' = IF mail = <<>> THEN mail ELSE Tail(mail)
    /\ IF closeSent THEN UNCHANGED <<wpc, inHand>> ELSE Sending(Head(ctl))
    /\ UNCHANGED <<policy, faults, mclosed, sends, accepted, callVars, latchVars, readVars,
                   closeSent, netVars>>

\* control_rx.recv(), the first branch of the biased select!.
TakeControl ==
    /\ wpc = "idle"
    /\ ctl # <<>>
    /\ ctl' = Tail(ctl)
    /\ IF closeSent THEN UNCHANGED <<wpc, inHand>> ELSE Sending(Head(ctl))
    /\ UNCHANGED <<mailVars, callVars, latchVars, readVars, closeSent, netVars>>

\* mailbox.pop() with a frame: sent, or discarded after our close frame.
PopFrame ==
    /\ wpc = "idle"
    /\ ctl = <<>>
    /\ mail # <<>>
    /\ mail' = Tail(mail)
    /\ IF closeSent
         THEN UNCHANGED <<wpc, inHand>>
         ELSE Sending(Data(Head(mail)))
    /\ UNCHANGED <<policy, faults, mclosed, sends, accepted, ctl, callVars, latchVars, readVars,
                   closeSent, netVars>>

\* mailbox.pop() on a closed and drained mailbox.
PopNone ==
    /\ wpc = "idle"
    /\ ctl = <<>>
    /\ mail = <<>> /\ mclosed
    /\ wpc' = "shutdown"
    /\ UNCHANGED <<mailVars, ctl, callVars, latchVars, readVars, inHand, closeSent, netVars>>

\* The codec takes a close frame; a second one is a no-op.
StartCloseFrame ==
    /\ wpc = "start"
    /\ inHand[1] = "close"
    /\ codec' = TRUE
    /\ wire' = IF codec THEN wire ELSE Append(wire, inHand)
    /\ closeSent' = TRUE
    /\ wpc' = "flush"
    /\ UNCHANGED <<mailVars, ctl, callVars, latchVars, readVars, inHand, sock,
                   peerClose>>

\* The codec takes a ping or data frame, or errors after a close frame.
StartFrame ==
    /\ wpc = "start"
    /\ inHand[1] # "close"
    /\ wpc' = IF codec THEN "shutdown" ELSE "flush"
    /\ wire' = IF codec \/ inHand[1] = "ping" THEN wire ELSE Append(wire, inHand)
    /\ UNCHANGED <<mailVars, ctl, callVars, latchVars, readVars, inHand, closeSent, sock, peerClose, codec>>

\* The send ends: the peer took the bytes, or the socket failed, which ends
\* the loop unless a close frame was being sent.
FlushFrame ==
    /\ wpc = "flush"
    /\ \/ sock = "up" /\ wpc' = "idle"
       \/ sock = "reset" /\ wpc' = IF inHand[1] = "close" THEN "idle" ELSE "shutdown"
    /\ inHand' = NoFrame
    /\ UNCHANGED <<mailVars, ctl, callVars, latchVars, readVars, closeSent,
                   netVars>>

\* A panic under write_loop: signalled as 1011, not graceful; sink dropped.
WriterPanics ==
    /\ "panic" \in faults
    /\ wpc = "start"
    /\ Signal([code |-> "internal", graceful |-> FALSE])
    /\ wpc' = "exited"
    /\ UNCHANGED <<mailVars, ctl, callVars, readVars, inHand, closeSent, netVars>>

\* sink.shutdown(): a close frame without a code if none went out ...
Shutdown ==
    /\ wpc = "shutdown"
    /\ codec' = TRUE
    /\ wire' = IF codec THEN wire ELSE Append(wire, CloseFrame("none"))
    /\ wpc' = "flushClose"
    /\ UNCHANGED <<mailVars, ctl, callVars, latchVars, readVars, inHand, closeSent, sock, peerClose>>

\* ... and a flush.
ShutdownDone ==
    /\ wpc = "flushClose"
    /\ sock # "stalled"
    /\ wpc' = "exited"
    /\ UNCHANGED <<mailVars, ctl, callVars, latchVars, readVars, inHand, closeSent, netVars>>

-----------------------------------------------------------------------------
(* The peer and the network (external).                                    *)

Reading == rpc \in {"start", "watch", "loop"}

\* What the peer does matters while a task is on the socket.
PeerAlive == sock # "reset" /\ (Reading \/ wpc # "exited")

PeerStalls ==
    /\ "stall" \in faults
    /\ PeerAlive /\ sock = "up"
    /\ sock' = "stalled"
    /\ UNCHANGED <<mailVars, ctl, callVars, latchVars, readVars, writeVars, peerClose,
                   codec, wire>>

PeerReads ==
    /\ PeerAlive /\ sock = "stalled"
    /\ sock' = "up"
    /\ UNCHANGED <<mailVars, ctl, callVars, latchVars, readVars, writeVars, peerClose,
                   codec, wire>>

PeerResets ==
    /\ "reset" \in faults
    /\ PeerAlive
    /\ sock' = "reset"
    /\ UNCHANGED <<mailVars, ctl, callVars, latchVars, readVars, writeVars, peerClose,
                   codec, wire>>

PeerCloses ==
    /\ "peerClose" \in faults
    /\ PeerAlive /\ Reading /\ peerClose = "none"
    /\ peerClose' = "sent"
    /\ UNCHANGED <<mailVars, ctl, callVars, latchVars, readVars, writeVars, sock, codec,
                   wire>>

-----------------------------------------------------------------------------
Caller(c) == PushOverflow(c) \/ Push(c) \/ CloseCall(c) \/ Latch(c) \/ Nudge(c)

Reader ==
    \/ Open \/ Watch \/ SeeClose \/ ReadFrame \/ ReadClose \/ ReadEnd \/ ReadError
    \/ PingTick \/ CloseDeadline \/ PongDeadline \/ ReaderPanics
    \/ CloseMailbox \/ EmitClosed \/ Remove

Writer ==
    \/ TakeControl \/ PopFrame \/ PopNone \/ StartCloseFrame \/ StartFrame
    \/ FlushFrame \/ WriterPanics \/ Shutdown \/ ShutdownDone

Peer == PeerStalls \/ PeerReads \/ PeerResets \/ PeerCloses

\* The task has ended and no caller is inside the handle.
Finished ==
    /\ rpc = "removed"
    /\ \A c \in Callers : cpc[c] = "idle"
    /\ UNCHANGED vars

Next == (\E c \in Callers : Caller(c)) \/ Reader \/ Writer \/ Peer \/ Finished

Spec == Init /\ [][Next]_vars

\* What the runtime guarantees: ready tasks are polled, armed timers fire, a
\* call returns, and a send whose peer keeps reading completes.
ServerFairness ==
    /\ \A c \in Callers : WF_vars(Latch(c)) /\ WF_vars(Nudge(c))
    /\ WF_vars(Open \/ Watch \/ SeeClose)
    /\ WF_vars(ReadClose) /\ WF_vars(ReadEnd) /\ WF_vars(CloseDeadline)
    /\ WF_vars(CloseMailbox \/ EmitClosed \/ Remove)
    /\ WF_vars(TakeControl \/ PopFrame \/ PopNone \/ StartCloseFrame \/ StartFrame
                \/ Shutdown)
    /\ SF_vars(FlushFrame) /\ SF_vars(ShutdownDone)

\* Nothing is assumed of the peer.
ServerFairSpec == Spec /\ ServerFairness

\* A peer that stops reading reads again or is reset.
FairSpec == ServerFairSpec /\ WF_vars(PeerReads \/ PeerResets)

-----------------------------------------------------------------------------
(* Properties.                                                             *)

MailTypes ==
    /\ policy \in Policies /\ faults \in FaultSets
    /\ mail \in Seq(1..MaxSends) /\ Len(mail) <= Capacity
    /\ mclosed \in BOOLEAN
    /\ sends \in 0..MaxSends
    /\ accepted \subseteq 1..sends

CallTypes ==
    /\ closes \in 0..MaxCloses
    /\ cpc \in [Callers -> {"idle", "latch", "nudge"}]
    /\ ccmd \in [Callers -> Cmd \cup {NoCmd}]

LatchTypes ==
    /\ latch \in Cmd \cup {NoCmd}
    /\ first \in CallerCodes \cup {"none"}
    /\ promised \subseteq 1..MaxSends

ReadTypes ==
    /\ rpc \in {"start", "watch", "loop", "ended", "join", "closed", "removed"}
    /\ initiated \in BOOLEAN /\ pongDue \in BOOLEAN
    /\ result \in CallerCodes
                   \cup {"none", "peer", "abnormal", "protocol", "noPong", "panicked"}

WriteTypes ==
    /\ wpc \in {"unspawned", "idle", "start", "flush", "shutdown", "flushClose", "exited"}
    /\ inHand \in CtlFrames \cup DataFrames \cup {NoFrame}
    /\ wpc = "start" => inHand # NoFrame
    /\ closeSent \in BOOLEAN

NetTypes ==
    /\ sock \in {"up", "stalled", "reset"}
    /\ peerClose \in {"none", "sent", "read"}
    /\ codec \in BOOLEAN
    /\ wire \in Seq(CtlFrames \cup DataFrames \cup {CloseFrame("none")})

\* Every variable has its type and no queue outgrows its bound: the control
\* queue stays within CONTROL_QUEUE_CAPACITY, the mailbox within its mark.
TypeOK ==
    /\ MailTypes /\ CallTypes /\ LatchTypes /\ ReadTypes /\ WriteTypes /\ NetTypes
    /\ ctl \in Seq(CtlFrames) /\ Len(ctl) <= CtlCap

IsData(frame) == frame[1] = "data"

\* Frame n is on the wire, taken by the writer and not yet by the codec, or
\* in the mailbox.
OnWire(n) == \E i \in DOMAIN wire : wire[i] = Data(n)
InHand(n) == wpc = "start" /\ inHand = Data(n)
InMail(n) == \E i \in DOMAIN mail : mail[i] = n

WireInOrder ==
    \A i, j \in DOMAIN wire :
        i < j /\ IsData(wire[i]) /\ IsData(wire[j]) => wire[i][2] < wire[j][2]

MailInOrder == \A i, j \in DOMAIN mail : i < j => mail[i] < mail[j]

StagesInOrder ==
    \A m, n \in 1..sends :
        \/ OnWire(m) /\ (InHand(n) \/ InMail(n))
        \/ InHand(m) /\ InMail(n)
        => m < n

\* Frames go out in push order and none twice, whatever happens.  And while
\* nobody has closed the connection and the socket works, every frame push
\* reported Queued and no later push evicted is on the wire, in the writer's
\* hand or in the mailbox, and no other frame is: pings, select!
\* cancellations and an overflow Disconnect in progress lose none.
NothingLost ==
    /\ WireInOrder /\ MailInOrder /\ StagesInOrder
    /\ latch = NoCmd /\ sock # "reset" /\ peerClose # "read"
         => \A n \in 1..sends : n \in accepted <=> OnWire(n) \/ InHand(n) \/ InMail(n)

\* The reported close code is that of the first closer to reach the latch,
\* however later closers, the peer's close frame and the deadlines fall; and
\* once the reader has seen our close the peer's code is never reported.
ReportsFirstCloser ==
    /\ result \in CallerCodes => result = first
    /\ result = "peer" => ~initiated

\* Initiating a close always ends the connection: whatever fills the control
\* queue and whenever the latch is set (for good), Closed is emitted and the
\* entry goes.
CloseCompletes == <>[](latch # NoCmd => rpc = "removed")

\* A mailbox closed by the Disconnect policy never leaves a half-dead
\* connection, one that accepts no frame and is not being closed.
NoHalfDead == <>[](mclosed => rpc = "removed")

\* What engine.rs says of the drain: the write loop flushes its mailbox, then
\* sends Close; the frames queued when the drain began precede that Close.
DrainFlushes ==
    (\E i \in DOMAIN wire : wire[i] = CloseFrame("goingAway"))
      => \A n \in promised : \E i \in DOMAIN wire : wire[i] = Data(n)

\* What CLOSE_GRACE says: a graceful close is torn down at the deadline
\* whatever the peer does.
GraceBounds == initiated ~> rpc = "removed"
=============================================================================
