------------------------------- MODULE Links --------------------------------
(***************************************************************************)
(* The TCP links between two nodes of the mesh: dialling, the handshake,   *)
(* the writer, reader and keepalive tasks of each end (link.rs, queue.rs)  *)
(* and the table of links (node.rs).                                       *)
(*                                                                         *)
(* A connection is a slot with two ends.  establish spawns the tasks of an *)
(* end before the node registers it, so a link may be dead when it enters  *)
(* the table.  dial_loop keeps no record of the dials under way: a node    *)
(* without a link may have several.  PING and PONG stand for all that an   *)
(* established link carries; bytes are counted in frames.                  *)
(* That on_link_closed also suspects the peer is in module Membership.     *)
(***************************************************************************)
EXTENDS Handshake, FiniteSets

CONSTANTS
    Cfg,        \* node -> its LinkConfig; the nodes are 1 and 2
    Dialers,    \* the nodes that dial the other: a seed of theirs, or a lower id
    Slots,      \* connections that can exist at once
    Hwm,        \* queue_hwm_bytes, in frames
    Pingers,    \* bound: the nodes that send frames on a link
    MaxFaults   \* bound: faults

Nodes == {1, 2}
Peer(n) == 3 - n
NoLink == 0

ASSUME LinksAssumption ==
    /\ \A n \in Nodes : Cfg[n].version \in Nat /\ Cfg[n].maxFrame \in Nat
    /\ Dialers \subseteq Nodes /\ Slots \subseteq Nat \ {NoLink}
    /\ Hwm \in Nat \ {0} /\ MaxFaults \in Nat

VARIABLES
    links,    \* node -> the slot in its table for the other, or NoLink
    end,      \* slot -> node -> its end of the connection
    faults    \* faults so far

vars == <<links, end, faults>>

(* An end: stage "none" (no socket), "handshake", "spawned" (established,  *)
(* not yet registered) or "running"; hs, the handshake; inbox, the frames  *)
(* on their way to it, and eof, no more will follow; reader "off",         *)
(* "reading" or "done"; stop, the reader has a shutdown notification;      *)
(* queue and closed, the PeerQueue; writer "off" or "wait"; permit, a      *)
(* stored wakeup of the writer; late, it was dead when it entered the      *)
(* table.                                                                  *)
NoEnd == [stage |-> "none", hs |-> NewHandshake("initiator"), inbox |-> <<>>, eof |-> FALSE,
          reader |-> "off", stop |-> FALSE, queue |-> <<>>, closed |-> FALSE,
          writer |-> "off", permit |-> FALSE, late |-> FALSE]

Init ==
    /\ links = [n \in Nodes |-> NoLink]
    /\ end = [c \in Slots |-> [n \in Nodes |-> NoEnd]]
    /\ faults = 0

\* What is left of an end without socket, and of one whose reader and writer
\* have both ended.
Gone(e) == [NoEnd EXCEPT !.hs = e.hs, !.late = e.late]
Reaped(e) == IF e.stage = "running" /\ e.reader = "done" /\ e.writer = "off" THEN Gone(e) ELSE e

\* Connection c with mine as n's end and theirs as the other.
Put(c, n, mine, theirs) ==
    end' = [end EXCEPT ![c] = [m \in Nodes |->
      LET e == IF m = n THEN mine ELSE theirs IN
      IF mine.stage = "none" /\ theirs.stage = "none" THEN [NoEnd EXCEPT !.late = e.late] ELSE e]]

\* Frames reach an end that still reads; the end of the stream any end.
Arrived(e, fs) == IF e.stage = "handshake" \/ e.reader = "reading"
                    THEN [e EXCEPT !.inbox = @ \o fs] ELSE e
Hung(e) == IF e.stage = "none" THEN e ELSE [e EXCEPT !.eof = TRUE]

-----------------------------------------------------------------------------
(* Dialling and the handshake.                                             *)

\* A slot is free when the connection is gone and no table holds its handle.
Free(c) == \A n \in Nodes : end[c][n].stage = "none" /\ links[n] # c

Opened(n, role) ==
    [NoEnd EXCEPT !.stage = "handshake", !.hs = NewHandshake(role),
                  !.inbox = <<Frame("hello", HelloOf(Cfg[Peer(n)]))>>]

\* dial_loop and accept_loop: both ends open and send their HELLOs.
Dial(n, c) ==
    /\ n \in Dialers /\ links[n] = NoLink
    /\ Free(c) /\ \A d \in Slots : Free(d) => c <= d
    /\ Put(c, n, Opened(n, "initiator"), Opened(Peer(n), "responder"))
    /\ UNCHANGED <<links, faults>>

\* The handshake fails: the socket is dropped.
Drop(c, n) == Put(c, n, Gone(end[c][n]), Hung(end[c][Peer(n)]))

\* run_handshake reads a frame.  Once established, the writer, the reader and
\* the keepalive are spawned.
HandshakeStep(c, n) ==
    LET e == end[c][n]
        step == OnFrame(Cfg[n], e.hs, Head(e.inbox))
        next == [e EXCEPT !.hs = step.hs, !.inbox = Tail(@)] IN
    /\ e.stage = "handshake" /\ e.inbox # <<>>
    /\ IF step.hs.state = "Refused" THEN Drop(c, n)
       ELSE Put(c, n,
                IF step.hs.state = "Done"
                  THEN [next EXCEPT !.stage = "spawned", !.reader = "reading", !.writer = "wait"]
                  ELSE next,
                Arrived(end[c][Peer(n)], step.send))
    /\ UNCHANGED <<links, faults>>

\* The peer closed before the handshake was over.
HandshakeEof(c, n) ==
    /\ end[c][n].stage = "handshake" /\ end[c][n].inbox = <<>> /\ end[c][n].eof
    /\ Drop(c, n)
    /\ UNCHANGED <<links, faults>>

-----------------------------------------------------------------------------
(* The queue and the tasks of an end.                                      *)

\* PeerQueue::push without the wakeup.
PushedSilently(e, f) == IF Len(e.queue) + 1 > Hwm THEN e ELSE [e EXCEPT !.queue = Append(@, f)]

\* PeerQueue::push: drops the newest at the high-water mark, else wakes the
\* writer.  It does not look at closed.
Pushed(e, f) ==
    IF Len(e.queue) + 1 > Hwm THEN e
    ELSE [e EXCEPT !.queue = Append(@, f), !.permit = TRUE]

QueueClosed(e) == [e EXCEPT !.closed = TRUE, !.permit = TRUE]

\* LinkHandle::close.  notify_waiters stores no permit: a reader that is busy
\* with a frame or has not started does not hear it.
Closed(e, heard) == [QueueClosed(e) EXCEPT !.stop = @ \/ heard]

\* register: the link enters the table, unless there is one already.  What it
\* then sends is in modules Membership and Interest.
Register(c, n) ==
    LET e == [end[c][n] EXCEPT !.stage = "running"] IN
    /\ end[c][n].stage = "spawned"
    /\ \/ /\ links[n] # NoLink
          /\ \E heard \in BOOLEAN : Put(c, n, Reaped(Closed(e, heard)), end[c][Peer(n)])
          /\ UNCHANGED links
       \/ /\ links[n] = NoLink
          /\ links' = [links EXCEPT ![n] = c]
          /\ Put(c, n, Reaped([e EXCEPT !.late = (e.reader = "done")]), end[c][Peer(n)])
    /\ UNCHANGED faults

\* writer_loop, from one wakeup to the next: it writes all that is queued, in
\* batches, and shuts the stream down when the queue is closed.  What a peer
\* that has stopped reading is sent is lost, and the write may fail.
WriterWake(c, n) ==
    LET e == end[c][n]
        p == end[c][Peer(n)] IN
    /\ e.writer = "wait" /\ e.permit
    /\ \/ /\ ~e.closed
          /\ Put(c, n, [e EXCEPT !.permit = FALSE, !.queue = <<>>], Arrived(p, e.queue))
       \/ /\ e.closed \/ (e.queue # <<>> /\ p.reader \in {"done", "off"} /\ p.stage # "handshake")
          /\ Put(c, n, Reaped([e EXCEPT !.writer = "off", !.permit = FALSE, !.queue = <<>>]),
                 Hung(Arrived(p, e.queue)))
    /\ UNCHANGED <<links, faults>>

\* dispatch: a PING is answered, the rest goes to the node.
ReaderFrame(c, n) ==
    LET e == end[c][n]
        next == [e EXCEPT !.inbox = Tail(@)] IN
    /\ e.reader = "reading" /\ ~e.stop /\ e.inbox # <<>>
    /\ Put(c, n, IF Head(e.inbox).kind = "ping" THEN Pushed(next, Frame("pong", "")) ELSE next,
           end[c][Peer(n)])
    /\ UNCHANGED <<links, faults>>

ReaderEnds(e) == e.reader = "reading" /\ (e.stop \/ (e.inbox = <<>> /\ e.eof))

\* A reader that ends and leaves the queue open.
AfterReaderOpen(e) == Reaped([e EXCEPT !.reader = "done", !.inbox = <<>>])

AfterReader(e) == Reaped(QueueClosed([e EXCEPT !.reader = "done", !.inbox = <<>>]))

\* A reader's end that leaves the table alone.
ReaderEndKeeps(c, n) ==
    /\ ReaderEnds(end[c][n])
    /\ Put(c, n, AfterReader(end[c][n]), end[c][Peer(n)])
    /\ UNCHANGED <<links, faults>>

\* The reader's end and on_link_closed: whichever link the table holds for
\* the peer leaves it.
ReaderEnd(c, n) ==
    /\ ReaderEnds(end[c][n])
    /\ Put(c, n, AfterReader(end[c][n]), end[c][Peer(n)])
    /\ links' = [links EXCEPT ![n] = NoLink]
    /\ UNCHANGED faults

\* keepalive_loop pings on a quiet link; gossip, digests, interest and relays
\* go the same way.  Bound: no other connection is under way.
SendPing(c, n) ==
    /\ n \in Pingers /\ end[c][n].stage = "running" /\ ~end[c][n].closed
    /\ \A m \in Nodes : end[c][m].inbox = <<>> /\ end[c][m].queue = <<>>
    /\ \A d \in Slots \ {c} : Free(d)
    /\ Put(c, n, Pushed(end[c][n], Frame("ping", "")), end[c][Peer(n)])
    /\ UNCHANGED <<links, faults>>

-----------------------------------------------------------------------------
(* Faults.                                                                 *)

Fault == faults < MaxFaults /\ faults' = faults + 1

\* The handshake takes longer than auth_timeout.
AuthTimeout(c, n) ==
    /\ Fault /\ end[c][n].stage = "handshake"
    /\ Drop(c, n)
    /\ UNCHANGED links

\* keepalive_loop: nothing was heard for idle_dead_after, which is longer than
\* it takes to register.
IdleDead(c, n) ==
    /\ Fault
    /\ end[c][n].stage = "running" /\ end[c][n].reader = "reading" /\ ~end[c][n].closed
    /\ \E heard \in BOOLEAN : Put(c, n, Closed(end[c][n], heard), end[c][Peer(n)])
    /\ UNCHANGED links

\* The connection breaks: what was on its way is lost.
Break(c) ==
    /\ Fault /\ ~Free(c)
    /\ end' = [end EXCEPT ![c] = [n \in Nodes |-> Hung([@[n] EXCEPT !.inbox = <<>>])]]
    /\ UNCHANGED links

\* A HELLO arrives altered.
Alter(c, n) ==
    LET e == end[c][n] IN
    /\ Fault /\ e.stage = "handshake" /\ e.inbox # <<>> /\ Head(e.inbox).kind = "hello"
    /\ LET other == Frame("hello", [Head(e.inbox).body EXCEPT !.features = {}]) IN
       Put(c, n, [e EXCEPT !.inbox = <<other>> \o Tail(@)], end[c][Peer(n)])
    /\ UNCHANGED links

EndStep(c, n) ==
    \/ HandshakeStep(c, n) \/ HandshakeEof(c, n) \/ Register(c, n)
    \/ WriterWake(c, n) \/ ReaderFrame(c, n) \/ ReaderEnd(c, n)

Next ==
    \/ \E c \in Slots, n \in Nodes :
         \/ Dial(n, c) \/ EndStep(c, n) \/ SendPing(c, n)
         \/ AuthTimeout(c, n) \/ IdleDead(c, n) \/ Alter(c, n)
    \/ \E c \in Slots : Break(c)

Spec == Init /\ [][Next]_vars

(* Tokio runs the tasks of an end that can run.                            *)
FairSpec ==
    /\ Spec
    /\ \A c \in Slots, n \in Nodes :
         /\ WF_vars(HandshakeStep(c, n) \/ HandshakeEof(c, n) \/ Register(c, n) \/ WriterWake(c, n))
         /\ WF_vars(ReaderFrame(c, n) \/ ReaderEnd(c, n))

-----------------------------------------------------------------------------
(* Properties.                                                             *)

\* Every variable has its type, and no queue is above its high-water mark.
TypeOK ==
    /\ links \in [Nodes -> Slots \cup {NoLink}]
    /\ \A c \in Slots, n \in Nodes :
        LET e == end[c][n] IN
        /\ e.stage \in {"none", "handshake", "spawned", "running"}
        /\ e.reader \in {"off", "reading", "done"} /\ e.writer \in {"off", "wait"}
        /\ {e.stop, e.closed, e.permit, e.late, e.eof} \subseteq BOOLEAN
        /\ Len(e.queue) \in 0..Hwm
    /\ faults \in 0..MaxFaults

Established(c, n) == end[c][n].hs.state = "Done"

\* Both ends of a link speak the same: when the initiator is through the
\* handshake so is the responder, each has the other's HELLO as it was sent,
\* and they negotiated the same version, features and frame size.
EndsAgree ==
    \A c \in Slots, n \in Nodes :
        LET hs == end[c][n].hs
            other == end[c][Peer(n)].hs IN
        Established(c, n) =>
          /\ hs.peer = HelloOf(Cfg[Peer(n)])
          /\ hs.role = "initiator" =>
               /\ Established(c, Peer(n))
               /\ Negotiated(Cfg[n], hs.peer) = Negotiated(Cfg[Peer(n)], other.peer)

\* A stale entry of the table, one whose reader has ended, comes about in one
\* way: the link was dead before register put it there.
StaleOnlyIfDeadOnArrival ==
    \A n \in Nodes : links[n] # NoLink =>
        LET e == end[links[n]][n] IN e.reader # "reading" => e.late

\* No lost wakeup: a writer that sleeps on a queue with frames in it, or on a
\* closed one, has a wakeup stored.
NoLostWakeup ==
    \A c \in Slots, n \in Nodes :
        LET e == end[c][n] IN
        e.writer = "wait" /\ (e.queue # <<>> \/ e.closed) => e.permit

\* No connection stays half open: again and again both its ends are gone, or
\* both are there and open.  So a link closed at one end goes away at both,
\* also when the reader missed the notification.
ClosedIsReleased ==
    \A c \in Slots : []<>(\/ \A n \in Nodes : end[c][n].stage = "none"
                          \/ \A n \in Nodes : end[c][n].stage # "none" /\ ~end[c][n].closed)

\* What register says it does with a link that lost the race: "keep the
\* existing".  The entry of a live link leaves the table only with that link.
KeepsTheExisting ==
    [][\A n \in Nodes :
         LET c == links[n] IN
         c # NoLink /\ links'[n] # c => end'[c][n].reader # "reading"]_vars
=============================================================================
