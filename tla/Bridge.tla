------------------------------- MODULE Bridge -------------------------------
(***************************************************************************)
(* The way of an event from a connection task to the application:          *)
(*   events.rs    EventSender: the bounded engine to bridge queue, lossless*)
(*                for control events, drop-newest for messages             *)
(*   bridge.rs    drain_loop, the flat batch codec                         *)
(*   binding.rs   the drain thread, its bounded blocking callback queue    *)
(*                (TSFN) into Node, CloseTask                              *)
(*   events.ts, server.ts, socket.ts   demux, #onFlush, #handleAuthorize,  *)
(*                close                                                    *)
(*                                                                         *)
(* Actors: one tokio task per upgrade, the drain thread, the JS thread and *)
(* the pool thread of close().  One step is one channel operation or one   *)
(* dispatched event; application handlers run inside a dispatch and may    *)
(* call close() or throw there.  Request ids and connection ids come from  *)
(* counters of their own, so one number names both a request and a         *)
(* connection.  Metadata is the upgrade its hook returned it for.          *)
(***************************************************************************)
EXTENDS Integers, Sequences, FiniteSets

CONSTANTS
    Upgrades,      \* upgrades that pass admission
    MaxMsgs,       \* upgrade -> messages its connection reads; bound
    Capacity,      \* ENGINE_BRIDGE_QUEUE_CAPACITY
    Batch,         \* BRIDGE_BATCH
    LowLoad,       \* LOW_LOAD_THRESHOLD
    TsfnBound,     \* TSFN_QUEUE_BOUND
    MaxThrows      \* handlers that throw; bound

ASSUME BridgeAssumption ==
    /\ IsFiniteSet(Upgrades)
    /\ MaxMsgs \in [Upgrades -> Nat] /\ MaxThrows \in Nat
    /\ {Capacity, Batch, LowLoad, TsfnBound} \subseteq Nat \ {0}
    /\ LowLoad <= Batch

VARIABLES
    task,      \* upgrade -> phase of its task
    req, id,   \* upgrade -> its request_id, its ConnectionId (0: none yet)
    reads,     \* upgrade -> messages it has read
    reply,     \* upgrade -> what the Authorizer resolved
    queue,     \* engine to bridge events
    dropped,   \* metrics.bridge_dropped
    senders,   \* some EventSender is alive
    batch,     \* drain_loop: the batch being filled
    drain,     \* drain_loop: where it is
    tsfn,      \* flush buffers on their way into Node
    turn,      \* JS: events of the current flush not yet dispatched
    engine,    \* SDK: #engine is set
    sockets,   \* SDK: ConnectionId -> metadata of its Socket
    stash,     \* SDK: request_id -> accepted metadata (#pendingAuth)
    hooks,     \* SDK: requests whose hook runs
    unsettled, \* SDK: requests whose hook ended without an answer for Rust
    resolved,  \* close()'s promise
    throws,    \* handlers that have thrown
    seen       \* upgrade -> what its Socket has emitted

taskVars == <<task, req, id, reads, reply>>
queueVars == <<queue, dropped, senders>>
drainVars == <<batch, drain>>
sdkVars == <<engine, sockets, stash, hooks, unsettled, resolved, throws, seen>>
vars == <<taskVars, queueVars, drainVars, tsfn, turn, sdkVars>>

\* Request ids and connection ids.
Numbers == 1..Cardinality(Upgrades)
None == 0

Init ==
    /\ task = [u \in Upgrades |-> "upgrade"]
    /\ req = [u \in Upgrades |-> None] /\ id = [u \in Upgrades |-> None]
    /\ reads = [u \in Upgrades |-> 0]
    /\ reply = [u \in Upgrades |-> "none"]
    /\ queue = <<>> /\ dropped = 0 /\ senders = TRUE
    /\ batch = <<>> /\ drain = "recv"
    /\ tsfn = <<>> /\ turn = <<>>
    /\ engine = TRUE
    /\ sockets = <<>> /\ stash = <<>>
    /\ hooks = {} /\ unsettled = {}
    /\ resolved = FALSE /\ throws = 0
    /\ seen = [u \in Upgrades |-> <<>>]

-----------------------------------------------------------------------------
(* Events, and their form in a flush buffer: a 64-bit slot, a kind byte and*)
(* a payload.                                                              *)

Authorize(r) == [type |-> "authorize", request |-> r]
Opened(c, r) == [type |-> "opened", conn |-> c, request |-> r]
Message(c, n) == [type |-> "message", conn |-> c, payload |-> n]
Closed(c) == [type |-> "closed", conn |-> c]

KIND_TEXT == 0
KIND_OPEN == 2
KIND_CLOSE == 3
KIND_AUTHORIZE == 4

\* flat::encode_batch on one event.  Opened carries the request_id, or nothing
\* without a hook; Authorize has no connection yet and puts its request_id in
\* the slot.
Encode(ev) ==
    CASE ev.type = "message" -> [slot |-> ev.conn, kind |-> KIND_TEXT, payload |-> <<ev.payload>>]
      [] ev.type = "opened" ->
             [slot |-> ev.conn, kind |-> KIND_OPEN,
              payload |-> IF ev.request = None THEN <<>> ELSE <<ev.request>>]
      [] ev.type = "closed" -> [slot |-> ev.conn, kind |-> KIND_CLOSE, payload |-> <<>>]
      [] ev.type = "authorize" -> [slot |-> ev.request, kind |-> KIND_AUTHORIZE, payload |-> <<>>]

\* demux, KIND_OPEN: the request_id of an Opened, from its payload length.
AuthReq(w) == IF w.payload = <<>> THEN None ELSE w.payload[1]

-----------------------------------------------------------------------------
(* EventSender.                                                            *)

Full == Len(queue) >= Capacity

\* control as a try_send.
ControlLossy(ev) ==
    /\ queue' = IF Full THEN queue ELSE Append(queue, ev)
    /\ UNCHANGED <<dropped, senders>>

\* control: awaits room, in the emitting task only.
Control(ev) ==
    /\ ~Full
    /\ queue' = Append(queue, ev)
    /\ UNCHANGED <<dropped, senders>>

\* try_message: drop-newest, counted.
TryMessage(ev) ==
    /\ queue' = IF Full THEN queue ELSE Append(queue, ev)
    /\ dropped' = IF Full THEN dropped + 1 ELSE dropped
    /\ UNCHANGED senders

-----------------------------------------------------------------------------
(* The upgrade's task, as far as it emits events.                          *)

Goto(u, where) == task' = [task EXCEPT ![u] = where]
Fresh(f) == 1 + Cardinality({u \in Upgrades : f[u] # None})

\* Authorizer::authorize: a fresh request_id and its event.
EmitAuthorize(u) ==
    /\ task[u] = "upgrade"
    /\ req' = [req EXCEPT ![u] = Fresh(req)]
    /\ Control(Authorize(Fresh(req)))
    /\ Goto(u, "await")
    /\ UNCHANGED <<id, reads, reply, drainVars, tsfn, turn, sdkVars>>

\* The answer, or the authorize timeout: accepted upgrades enter the registry.
Answered(u) ==
    /\ task[u] = "await"
    /\ IF reply[u] = "accept"
         THEN Goto(u, "open") /\ id' = [id EXCEPT ![u] = Fresh(id)]
         ELSE Goto(u, "rejected") /\ UNCHANGED id
    /\ UNCHANGED <<req, reads, reply, queueVars, drainVars, tsfn, turn, sdkVars>>

\* run_connection: Opened first.
EmitOpened(u) ==
    /\ task[u] = "open"
    /\ Control(Opened(id[u], req[u]))
    /\ Goto(u, "live")
    /\ UNCHANGED <<req, id, reads, reply, drainVars, tsfn, turn, sdkVars>>

\* read_loop: a message of the peer.
EmitMessage(u) ==
    /\ task[u] = "live"
    /\ reads[u] < MaxMsgs[u]
    /\ reads' = [reads EXCEPT ![u] = @ + 1]
    /\ TryMessage(Message(id[u], reads[u] + 1))
    /\ UNCHANGED <<task, req, id, reply, drainVars, tsfn, turn, sdkVars>>

\* read_loop has returned, for whatever reason: Closed last.
EmitClosed(u) ==
    /\ task[u] = "live"
    /\ Control(Closed(id[u]))
    /\ Goto(u, "closed")
    /\ UNCHANGED <<req, id, reads, reply, drainVars, tsfn, turn, sdkVars>>

\* Engine::close on the pool thread, behind its bounded waits: the runtime and
\* every task still in it are dropped, and with them the last EventSender.
Teardown ==
    /\ ~engine /\ senders
    /\ senders' = FALSE
    /\ task' = [u \in Upgrades |->
                   IF task[u] \in {"rejected", "closed"} THEN task[u] ELSE "dropped"]
    /\ UNCHANGED <<req, id, reads, reply, queue, dropped, drainVars, tsfn, turn, sdkVars>>

-----------------------------------------------------------------------------
(* drain_loop.                                                             *)

\* Of two messages the newer is taken first.
TakeNewer ==
    LET two == Len(queue) > 1 /\ {queue[1].type, queue[2].type} = {"message"} IN
    /\ batch' = Append(batch, IF two THEN queue[2] ELSE Head(queue))
    /\ queue' = IF two THEN <<queue[1]>> \o Tail(Tail(queue)) ELSE Tail(queue)

Take == batch' = Append(batch, Head(queue)) /\ queue' = Tail(queue)

\* recv: the first event of a batch, without a timer.
Recv ==
    /\ drain = "recv"
    /\ queue # <<>>
    /\ Take
    /\ drain' = "greedy"
    /\ UNCHANGED <<taskVars, dropped, senders, tsfn, turn, sdkVars>>

\* A closed channel is polled again.
RecvNoneSpins == drain = "recv" /\ queue = <<>> /\ ~senders /\ UNCHANGED vars

\* recv returned None: the loop ends, the thread drops the TSFN.
RecvNone ==
    /\ drain = "recv"
    /\ queue = <<>> /\ ~senders
    /\ drain' = "exited"
    /\ UNCHANGED <<taskVars, queueVars, batch, tsfn, turn, sdkVars>>

\* try_recv while there is something and the batch has room.
TryRecv ==
    /\ drain = "greedy"
    /\ queue # <<>> /\ Len(batch) < Batch
    /\ Take
    /\ UNCHANGED <<taskVars, dropped, senders, drain, tsfn, turn, sdkVars>>

\* Where the greedy loop ends: Disconnected flushes and leaves, a small batch is
\* shipped at once, a larger one is filled for a while.
GreedyDone ==
    /\ drain = "greedy"
    /\ queue = <<>> \/ Len(batch) = Batch
    /\ drain' = CASE Len(batch) < Batch /\ ~senders -> "last"
                  [] Len(batch) < LowLoad /\ senders -> "flush"
                  [] OTHER -> "fill"
    /\ UNCHANGED <<taskVars, queueVars, batch, tsfn, turn, sdkVars>>

\* select!: one more event.
Fill ==
    /\ drain = "fill"
    /\ queue # <<>> /\ Len(batch) < Batch
    /\ Take
    /\ UNCHANGED <<taskVars, dropped, senders, drain, tsfn, turn, sdkVars>>

\* The batch has no deadline.
FillDoneOnSize ==
    /\ drain = "fill"
    /\ \/ Len(batch) = Batch /\ drain' = "flush"
       \/ Len(batch) < Batch /\ queue = <<>> /\ ~senders /\ drain' = "last"
    /\ UNCHANGED <<taskVars, queueVars, batch, tsfn, turn, sdkVars>>

\* The batch is full, its deadline has passed, or recv returned None.
FillDone ==
    /\ drain = "fill"
    /\ \/ drain' = "flush"
       \/ Len(batch) < Batch /\ queue = <<>> /\ ~senders /\ drain' = "last"
    /\ UNCHANGED <<taskVars, queueVars, batch, tsfn, turn, sdkVars>>

\* flush: one encoded buffer, handed over by a call that blocks while Node is
\* TSFN_QUEUE_BOUND buffers behind.
Flush ==
    /\ drain \in {"flush", "last"}
    /\ Len(tsfn) < TsfnBound
    /\ tsfn' = Append(tsfn, [i \in DOMAIN batch |-> Encode(batch[i])])
    /\ batch' = <<>>
    /\ drain' = IF drain = "last" THEN "exited" ELSE "recv"
    /\ UNCHANGED <<taskVars, queueVars, turn, sdkVars>>

-----------------------------------------------------------------------------
(* The JS thread: one flush buffer per callback, one dispatched event per  *)
(* step.                                                                   *)

Put(f, k, v) == [x \in DOMAIN f \cup {k} |-> IF x = k THEN v ELSE f[x]]
Without(f, k) == [x \in DOMAIN f \ {k} |-> f[x]]
Upgrade(f, n) == CHOOSE u \in Upgrades : f[u] = n

OnFlush ==
    /\ turn = <<>> /\ tsfn # <<>>
    /\ turn' = Head(tsfn) /\ tsfn' = Tail(tsfn)
    /\ UNCHANGED <<taskVars, queueVars, drainVars, sdkVars>>

\* A handler that returns, or throws out of demux: what follows in the buffer is
\* never looked at.
Handled ==
    \/ turn' = Tail(turn) /\ UNCHANGED throws
    \/ throws < MaxThrows /\ throws' = throws + 1 /\ turn' = <<>>

\* The Socket of connection c emits an event.
Emits(c, event, n) ==
    LET u == Upgrade(id, c) IN seen' = [seen EXCEPT ![u] = Append(@, <<event, n>>)]

\* onOpen: nothing once close() has dropped the engine.
OnOpen ==
    LET w == Head(turn) IN
    /\ turn # <<>> /\ w.kind = KIND_OPEN
    /\ \/ /\ engine
          /\ sockets' = Put(sockets, w.slot,
                            IF AuthReq(w) \in DOMAIN stash THEN stash[AuthReq(w)] ELSE None)
          /\ stash' = Without(stash, AuthReq(w))
          /\ Emits(w.slot, "connection", 0)
          /\ Handled
       \/ /\ ~engine
          /\ turn' = Tail(turn)
          /\ UNCHANGED <<sockets, stash, throws, seen>>
    /\ UNCHANGED <<taskVars, queueVars, drainVars, tsfn, engine, hooks, unsettled, resolved>>

\* onMessage: to the Socket, if there is one.
OnMessage ==
    LET w == Head(turn) IN
    /\ turn # <<>> /\ w.kind = KIND_TEXT
    /\ \/ w.slot \in DOMAIN sockets /\ Emits(w.slot, "message", w.payload[1]) /\ Handled
       \/ w.slot \notin DOMAIN sockets /\ turn' = Tail(turn) /\ UNCHANGED <<throws, seen>>
    /\ UNCHANGED <<taskVars, queueVars, drainVars, tsfn, engine, sockets, stash, hooks,
                   unsettled, resolved>>

\* onClose: out of the map, then close on the Socket.
OnClose ==
    LET w == Head(turn) IN
    /\ turn # <<>> /\ w.kind = KIND_CLOSE
    /\ \/ /\ w.slot \in DOMAIN sockets
          /\ sockets' = Without(sockets, w.slot)
          /\ Emits(w.slot, "close", 0)
          /\ Handled
       \/ /\ w.slot \notin DOMAIN sockets
          /\ turn' = Tail(turn)
          /\ UNCHANGED <<sockets, throws, seen>>
    /\ UNCHANGED <<taskVars, queueVars, drainVars, tsfn, engine, stash, hooks, unsettled,
                   resolved>>

\* #handleAuthorize: the hook runs in a later microtask.
OnAuthorize ==
    LET w == Head(turn) IN
    /\ turn # <<>> /\ w.kind = KIND_AUTHORIZE
    /\ hooks' = IF engine THEN hooks \cup {w.slot} ELSE hooks
    /\ turn' = Tail(turn)
    /\ UNCHANGED <<taskVars, queueVars, drainVars, tsfn, engine, sockets, stash, unsettled,
                   resolved, throws, seen>>

\* resolveAuthorize: the answer reaches the task if it still waits; throws once
\* close() has taken the native engine.
ResolveAuthorize(r, answer) ==
    LET u == Upgrade(req, r) IN
    /\ reply' = IF engine /\ task[u] = "await" THEN [reply EXCEPT ![u] = answer] ELSE reply
    /\ unsettled' = IF engine THEN unsettled ELSE unsettled \cup {r}

\* The hook has settled: an accept is stashed and resolved, a rejection or an
\* error is resolved.
HookSettles(r) ==
    /\ turn = <<>>
    /\ r \in hooks
    /\ hooks' = hooks \ {r}
    /\ \E answer \in {"accept", "reject"} :
         /\ stash' = IF answer = "accept" THEN Put(stash, r, Upgrade(req, r)) ELSE stash
         /\ ResolveAuthorize(r, answer)
    /\ UNCHANGED <<task, req, id, reads, queueVars, drainVars, tsfn, turn, engine, sockets,
                   resolved, throws, seen>>

\* close(), from a handler or a turn of its own.
Close ==
    /\ engine
    /\ engine' = FALSE
    /\ sockets' = <<>> /\ stash' = <<>>
    /\ UNCHANGED <<taskVars, queueVars, drainVars, tsfn, turn, hooks, unsettled, resolved,
                   throws, seen>>

\* CloseTask has joined the drain thread: the promise resolves.
Resolve ==
    /\ ~senders /\ drain = "exited" /\ ~resolved
    /\ turn = <<>>
    /\ resolved' = TRUE
    /\ UNCHANGED <<taskVars, queueVars, drainVars, tsfn, turn, engine, sockets, stash, hooks,
                   unsettled, throws, seen>>

-----------------------------------------------------------------------------
Task(u) ==
    \/ EmitAuthorize(u) \/ Answered(u) \/ EmitOpened(u) \/ EmitMessage(u) \/ EmitClosed(u)

DrainThread ==
    \/ Recv \/ RecvNone \/ TryRecv \/ GreedyDone \/ Fill \/ FillDone \/ Flush

Dispatch == OnFlush \/ OnOpen \/ OnMessage \/ OnClose \/ OnAuthorize \/ Resolve

Next ==
    \/ \E u \in Upgrades : Task(u)
    \/ DrainThread
    \/ Dispatch
    \/ \E r \in Numbers : HookSettles(r)
    \/ Close \/ Teardown

Spec == Init /\ [][Next]_vars

\* The drain thread, the JS event loop and the pool thread of close() run.
FairSpec ==
    /\ Spec
    /\ WF_vars(DrainThread)
    /\ WF_vars(Dispatch)
    /\ WF_vars(Teardown)

-----------------------------------------------------------------------------
Events ==
    [type : {"authorize"}, request : Numbers]
      \cup [type : {"opened"}, conn : Numbers, request : Numbers]
      \cup [type : {"message"}, conn : Numbers, payload : Nat]
      \cup [type : {"closed"}, conn : Numbers]

Records == [slot : Numbers, kind : {KIND_TEXT, KIND_OPEN, KIND_CLOSE, KIND_AUTHORIZE},
            payload : Seq(Nat)]

Emitted == {"connection", "message", "close"} \X Nat

\* The queues stay within their capacities and every number is of its kind.
TypeOK ==
    /\ task \in [Upgrades -> {"upgrade", "await", "open", "live", "closed", "rejected",
                              "dropped"}]
    /\ req \in [Upgrades -> {None} \cup Numbers] /\ id \in [Upgrades -> {None} \cup Numbers]
    /\ reads \in [Upgrades -> Nat] /\ \A u \in Upgrades : reads[u] <= MaxMsgs[u]
    /\ reply \in [Upgrades -> {"none", "accept", "reject"}]
    /\ queue \in Seq(Events) /\ batch \in Seq(Events)
    /\ tsfn \in Seq(Seq(Records)) /\ turn \in Seq(Records)
    /\ Len(queue) <= Capacity /\ Len(batch) <= Batch /\ Len(tsfn) <= TsfnBound
    /\ dropped \in Nat /\ senders \in BOOLEAN
    /\ drain \in {"recv", "greedy", "fill", "flush", "last", "exited"}
    /\ engine \in BOOLEAN
    /\ DOMAIN sockets \subseteq Numbers /\ DOMAIN stash \subseteq Numbers
    /\ hooks \subseteq Numbers /\ unsettled \subseteq Numbers
    /\ resolved \in BOOLEAN
    /\ throws \in 0..MaxThrows
    /\ seen \in [Upgrades -> Seq(Emitted)]

\* Every event on its way, in the form it has in the queue or in a buffer.
InQueue(ev) == \E s \in {queue, batch} : \E i \in DOMAIN s : s[i] = ev
InBuffer(w) ==
    \/ \E i \in DOMAIN turn : turn[i] = w
    \/ \E b \in DOMAIN tsfn : \E i \in DOMAIN tsfn[b] : tsfn[b][i] = w
OnItsWay(ev) == InQueue(ev) \/ InBuffer(Encode(ev))

\* What a Socket emits is what its connection did, in order, whichever way its
\* events were batched and whatever was dropped, thrown or closed in between:
\* connection first and once, messages as they were read, close last and once.
InOrder ==
    \A u \in Upgrades : \A i, j \in DOMAIN seen[u] : i < j =>
        /\ seen[u][1][1] = "connection" /\ seen[u][j][1] # "connection"
        /\ seen[u][i][1] # "close"
        /\ seen[u][j][1] = "message" => seen[u][i][2] < seen[u][j][2]

\* Until close() or a throwing handler the SDK is in step with the engine: there
\* is a Socket exactly for the connections whose Opened has been dispatched and
\* whose Closed has not, and it carries the metadata its own hook returned.
SdkInStep ==
    (engine /\ throws = 0) => \A u \in Upgrades :
        LET wentLive == task[u] \in {"live", "closed"} /\ ~OnItsWay(Opened(id[u], req[u]))
            wentAway == task[u] = "closed" /\ ~OnItsWay(Closed(id[u]))
        IN  /\ (id[u] \in DOMAIN sockets) <=> (wentLive /\ ~wentAway)
            /\ id[u] \in DOMAIN sockets => sockets[id[u]] = u

\* The close of a connection reaches its Socket without any further traffic to
\* push its batch out, unless close() or a throwing handler intervenes.
ClosedReachesApp ==
    <>[](engine /\ throws = 0 =>
           \A u \in Upgrades : task[u] = "closed" => id[u] \notin DOMAIN sockets)

\* close() resolves: the drain thread sees the end of the channel however full
\* the queues are, for the JS thread keeps taking what it delivers.
CloseResolves == <>[](engine \/ resolved)

\* A hook's answer always reaches Rust.
AlwaysResolves == unsettled = {}
=============================================================================
