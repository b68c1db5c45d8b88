------------------------------ MODULE Mailbox -------------------------------
(***************************************************************************)
(* connection/backpressure.rs: the bounded send queue of one connection.   *)
(* Producers are the threads that call Mailbox::push and Mailbox::close    *)
(* (the JS thread, mesh reader tasks, the connection task); the writer     *)
(* task calls pop inside the select! of write_loop.                        *)
(*                                                                         *)
(* One step is one hold of the queue mutex, one notify_one, or one poll of *)
(* the Notified future.  The eviction loop of DropOldest runs under the    *)
(* mutex one iteration per step, with `holder` keeping everyone else out.  *)
(***************************************************************************)
EXTENDS Integers, Sequences

CONSTANTS
    Producers,       \* threads that push or close
    NoProducer,      \* nobody is in the eviction loop
    NoFrame,         \* no frame in hand
    Lens,            \* payload lengths, 0 included
    HighWaterMark,   \* config.backpressure.high_water_mark
    Policies,        \* the overflow policies a mailbox may be created with
    MaxFrames        \* bound: frames offered in one behaviour

ASSUME MailboxAssumption ==
    /\ NoProducer \notin Producers
    /\ Lens \subseteq Nat
    /\ HighWaterMark \in Nat
    /\ Policies \subseteq {"disconnect", "dropNewest", "dropOldest"}
    /\ MaxFrames \in Nat

VARIABLES
    policy,     \* Inner.policy, fixed by Mailbox::new
    items,      \* Q.items: frames, oldest first
    bytes,      \* Q.bytes
    closed,     \* Q.closed
    permit,     \* Notify: a stored permit, or a wakeup on its way to the writer
    drops,      \* metrics.backpressure_drops
    holder,     \* producer inside the eviction loop, which holds the mutex
    incoming,   \* the frame that producer is pushing
    evicted,    \* its local count of dropped frames
    notifiers,  \* producers between dropping the guard and notify_one
    wpc,        \* the writer: "poll", "parked", "sending", "ended"
    offered,    \* history: frames pushed
    refused,    \* history: pushes that returned Closed
    taken,      \* history: frames popped
    last,       \* history: number of the last frame popped
    total       \* history: charge of all frames ever queued

queueVars == <<items, bytes, closed>>
lockVars == <<holder, incoming, evicted>>
tallyVars == <<offered, refused, taken, last, total>>
vars == <<policy, queueVars, permit, drops, lockVars, notifiers, wpc, tallyVars>>

\* `end` is history: the total charge queued up to and with this frame.
Frame == [no : Nat, len : Lens, end : Nat]

\* Zero-length frames are free.
ChargePayload(len) == len

\* Budget cost of a frame: its payload bytes, but at least 1.
Charge(len) == IF len = 0 THEN 1 ELSE len

Init ==
    /\ policy \in Policies
    /\ items = <<>>
    /\ bytes = 0
    /\ closed = FALSE
    /\ permit = FALSE
    /\ drops = 0
    /\ holder = NoProducer
    /\ incoming = NoFrame
    /\ evicted = 0
    /\ notifiers = {}
    /\ wpc = "poll"
    /\ offered = 0
    /\ refused = 0
    /\ taken = 0
    /\ last = 0
    /\ total = 0

-----------------------------------------------------------------------------
(* Producers.                                                              *)

Idle(p) == p # holder /\ p \notin notifiers

\* p takes the mutex with its next frame.
Offers(p) ==
    /\ Idle(p)
    /\ holder = NoProducer
    /\ offered < MaxFrames
    /\ offered' = offered + 1

\* A single frame over the mark passes through an empty queue.
Overflows(f) == bytes + Charge(f.len) > HighWaterMark /\ items # <<>>

\* push_back, then drop(q); notify_one follows.
Enqueue(p, f) ==
    /\ bytes' = bytes + Charge(f.len)
    /\ items' = Append(items, f)
    /\ total' = total + Charge(f.len)
    /\ notifiers' = notifiers \cup {p}

\* PushOutcome::Closed
PushClosed(p, f) ==
    /\ closed
    /\ Offers(p)
    /\ refused' = refused + 1
    /\ UNCHANGED <<policy, queueVars, permit, drops, lockVars, notifiers, wpc,
                   taken, last, total>>

\* PushOutcome::Queued
PushQueued(p, f) ==
    /\ ~closed
    /\ Offers(p)
    /\ ~Overflows(f)
    /\ Enqueue(p, f)
    /\ UNCHANGED <<policy, closed, permit, drops, lockVars, wpc, refused,
                   taken, last>>

\* The drop that closes the mailbox is not counted.
PushDisconnectSilent(p, f) ==
    /\ ~closed
    /\ Offers(p)
    /\ Overflows(f)
    /\ policy = "disconnect"
    /\ closed' = TRUE
    /\ notifiers' = notifiers \cup {p}
    /\ UNCHANGED <<policy, items, bytes, permit, drops, lockVars, wpc,
                   refused, taken, last, total>>

\* PushOutcome::Disconnect: the frame is dropped and the mailbox closed.
PushDisconnect(p, f) ==
    /\ ~closed
    /\ Offers(p)
    /\ Overflows(f)
    /\ policy = "disconnect"
    /\ drops' = drops + 1
    /\ closed' = TRUE
    /\ notifiers' = notifiers \cup {p}
    /\ UNCHANGED <<policy, items, bytes, permit, lockVars, wpc, refused,
                   taken, last, total>>

\* PushOutcome::DroppedNewest
PushDropNewest(p, f) ==
    /\ ~closed
    /\ Offers(p)
    /\ Overflows(f)
    /\ policy = "dropNewest"
    /\ drops' = drops + 1
    /\ UNCHANGED <<policy, queueVars, permit, lockVars, notifiers, wpc,
                   refused, taken, last, total>>

\* DropOldest enters its loop with the mutex held.
PushDropOldest(p, f) ==
    /\ ~closed
    /\ Offers(p)
    /\ Overflows(f)
    /\ policy = "dropOldest"
    /\ holder' = p
    /\ incoming' = f
    /\ evicted' = 0
    /\ UNCHANGED <<policy, queueVars, permit, drops, notifiers, wpc, refused,
                   taken, last, total>>

\* pop_back: the newest queued frame goes.
EvictNewest ==
    /\ holder # NoProducer
    /\ bytes + Charge(incoming.len) > HighWaterMark
    /\ items # <<>>
    /\ items' = SubSeq(items, 1, Len(items) - 1)
    /\ bytes' = bytes - Charge(items[Len(items)].len)
    /\ evicted' = evicted + 1
    /\ UNCHANGED <<policy, closed, permit, drops, holder, incoming, notifiers,
                   wpc, tallyVars>>

\* One eviction: pop_front and give its charge back.
Evict ==
    /\ holder # NoProducer
    /\ bytes + Charge(incoming.len) > HighWaterMark
    /\ items # <<>>
    /\ items' = Tail(items)
    /\ bytes' = bytes - Charge(Head(items).len)
    /\ evicted' = evicted + 1
    /\ UNCHANGED <<policy, closed, permit, drops, holder, incoming, notifiers,
                   wpc, tallyVars>>

\* PushOutcome::DroppedOldest: the loop is over and the frame is queued.
EvictDone ==
    /\ holder # NoProducer
    /\ bytes + Charge(incoming.len) <= HighWaterMark \/ items = <<>>
    /\ drops' = drops + evicted
    /\ Enqueue(holder, incoming)
    /\ holder' = NoProducer
    /\ incoming' = NoFrame
    /\ evicted' = 0
    /\ UNCHANGED <<policy, closed, permit, wpc, offered, refused, taken, last>>

\* notify.notify_one: wakes the parked writer or stores the one permit.
NotifyOne(p) ==
    /\ p \in notifiers
    /\ notifiers' = notifiers \ {p}
    /\ permit' = TRUE
    /\ UNCHANGED <<policy, queueVars, drops, lockVars, wpc, tallyVars>>

\* Teardown forgets to wake the writer.
CloseSilently(p) ==
    /\ Idle(p)
    /\ holder = NoProducer
    /\ closed' = TRUE
    /\ UNCHANGED <<policy, items, bytes, permit, drops, lockVars, notifiers,
                   wpc, tallyVars>>

\* Mailbox::close
Close(p) ==
    /\ Idle(p)
    /\ holder = NoProducer
    /\ closed' = TRUE
    /\ notifiers' = notifiers \cup {p}
    /\ UNCHANGED <<policy, items, bytes, permit, drops, lockVars, wpc,
                   tallyVars>>

-----------------------------------------------------------------------------
(* The writer task.                                                        *)

\* pop returns a frame; write_loop is in send_frame with it.
Pop ==
    /\ wpc = "poll"
    /\ holder = NoProducer
    /\ items # <<>>
    /\ items' = Tail(items)
    /\ bytes' = bytes - Charge(Head(items).len)
    /\ taken' = taken + 1
    /\ last' = Head(items).no
    /\ wpc' = "sending"
    /\ UNCHANGED <<policy, closed, permit, drops, lockVars, notifiers,
                   offered, refused, total>>

\* pop returns None: closed and drained.
PopNone ==
    /\ wpc = "poll"
    /\ holder = NoProducer
    /\ items = <<>>
    /\ closed
    /\ wpc' = "ended"
    /\ UNCHANGED <<policy, queueVars, permit, drops, lockVars, notifiers,
                   tallyVars>>

\* Nothing to return: pop drops the guard and awaits notified().
Park ==
    /\ wpc = "poll"
    /\ holder = NoProducer
    /\ items = <<>>
    /\ ~closed
    /\ wpc' = "parked"
    /\ UNCHANGED <<policy, queueVars, permit, drops, lockVars, notifiers,
                   tallyVars>>

\* notified() resolves, consuming the permit, and pop loops.
Wake ==
    /\ wpc = "parked"
    /\ permit
    /\ permit' = FALSE
    /\ wpc' = "poll"
    /\ UNCHANGED <<policy, queueVars, drops, lockVars, notifiers, tallyVars>>

\* select! took a control command: the pop future is dropped and made anew.
\* A wakeup it had been given goes back to the Notify.
Cancel ==
    /\ wpc = "parked"
    /\ wpc' = "poll"
    /\ UNCHANGED <<policy, queueVars, permit, drops, lockVars, notifiers,
                   tallyVars>>

\* send_frame returned; on an error the loop breaks.
Sent ==
    /\ wpc = "sending"
    /\ wpc' \in {"poll", "ended"}
    /\ UNCHANGED <<policy, queueVars, permit, drops, lockVars, notifiers,
                   tallyVars>>

-----------------------------------------------------------------------------
Push(p) == \E len \in Lens :
    LET f == [no |-> offered + 1, len |-> len, end |-> total + Charge(len)]
    IN  \/ PushClosed(p, f) \/ PushQueued(p, f) \/ PushDisconnect(p, f)
        \/ PushDropNewest(p, f) \/ PushDropOldest(p, f)

Writer == Pop \/ PopNone \/ Park \/ Wake \/ Sent

Next == \/ \E p \in Producers : Push(p) \/ NotifyOne(p) \/ Close(p)
        \/ Evict
        \/ EvictDone
        \/ Writer
        \/ Cancel

Spec == Init /\ [][Next]_vars

\* Threads run, and send_frame returns.
FairSpec == /\ Spec
            /\ WF_vars(Writer)
            /\ WF_vars(Evict \/ EvictDone)
            /\ \A p \in Producers : WF_vars(NotifyOne(p))

-----------------------------------------------------------------------------
(* Properties.                                                             *)

\* Every variable has its type; in particular the byte count that push adds
\* to and pop and the eviction subtract from never underflows.
TypeOK ==
    /\ policy \in Policies
    /\ items \in Seq(Frame)
    /\ bytes \in Nat
    /\ closed \in BOOLEAN
    /\ permit \in BOOLEAN
    /\ drops \in Nat
    /\ holder \in Producers \cup {NoProducer}
    /\ incoming \in Frame \cup {NoFrame}
    /\ holder # NoProducer => incoming \in Frame
    /\ evicted \in Nat
    /\ notifiers \in SUBSET Producers
    /\ wpc \in {"poll", "parked", "sending", "ended"}
    /\ offered \in Nat /\ refused \in Nat /\ taken \in Nat /\ last \in Nat
    /\ total \in Nat

\* Rule 5: the queue is within its byte budget, except for one oversized
\* frame on its own, and never holds more frames than budget bytes, whatever
\* the lengths pushed and the policy.
WithinBudget ==
    /\ bytes <= HighWaterMark \/ Len(items) <= 1
    /\ Len(items) <= bytes

\* Frames leave in the order they were pushed, also across evictions by
\* another thread: what is queued is newer than what was popped.
InOrder ==
    /\ \A i, j \in DOMAIN items : i < j => items[i].no < items[j].no
    /\ \A i \in DOMAIN items : last < items[i].no /\ items[i].no <= offered

\* An overflow is never silent: every frame pushed was refused because the
\* mailbox was closed, is queued, was popped, or is counted in
\* backpressure_drops (or about to be, by the thread in the eviction loop).
NeverSilent ==
    offered = refused + taken + Len(items) + drops
                + (IF holder = NoProducer THEN 0 ELSE evicted + 1)

\* No lost wakeup: the writer never sleeps with a frame queued or the mailbox
\* closed unless somebody is on the way to notify it.
NoLostWakeup ==
    wpc = "parked" /\ ~permit /\ (items # <<>> \/ closed) =>
        notifiers # {} \/ holder # NoProducer

\* The outbound queue promised to the rest of the engine.  A frame in the
\* eviction loop has not been offered yet, and evictions count as they happen.
LQ == INSTANCE LossyQueue WITH
        Capacity <- IF HighWaterMark = 0 THEN 1 ELSE HighWaterMark,
        queue <- [i \in 1 .. Len(items) |-> items[i].no],
        shut <- closed,
        next <- IF holder = NoProducer THEN offered ELSE offered - 1,
        lost <- drops + evicted

\* backpressure.rs implements the lossy queue.
ImplementsLossyQueue == LQ!Spec

-----------------------------------------------------------------------------
(* The inductive invariant.                                                *)

\* The frames of s tile the charge line up to t and weigh b: each frame ends
\* where the next one starts.
Tiles(s, b, t) ==
    /\ s = <<>> => b = 0
    /\ s # <<>> => s[Len(s)].end = t /\ b = t - s[1].end + Charge(s[1].len)
    /\ \A i \in 1 .. Len(s) - 1 : s[i + 1].end = s[i].end + Charge(s[i + 1].len)
    /\ \A i, j \in 1 .. Len(s) : i <= j => s[j].end - s[i].end >= j - i

Tiled == Tiles(items, bytes, total)

\* The frame in the eviction loop is the newest one, and pushes after it wait.
Incoming ==
    /\ last <= offered
    /\ holder = NoProducer => evicted = 0
    /\ holder # NoProducer =>
        /\ ~closed
        /\ holder \notin notifiers
        /\ incoming.no = offered
        /\ incoming.end = total + Charge(incoming.len)
        /\ last < offered
        /\ \A i \in DOMAIN items : items[i].no < offered

IInv == /\ TypeOK
        /\ Tiled
        /\ Incoming
        /\ WithinBudget
        /\ InOrder
        /\ NeverSilent
        /\ NoLostWakeup
=============================================================================
