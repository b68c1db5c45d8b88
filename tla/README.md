# BeamSocket: TLA+ models, checks and proofs

BeamSocket is a WebSocket runtime: a Rust data plane (`crates/core`), a Node
binding with an event bridge (`crates/node`), a cluster mesh (`crates/mesh`) and
a TypeScript SDK (`packages/beamsocket`).  This directory models the concurrent
and distributed parts of it, checks them with TLC and proves safety with TLAPS.
`PROJECT.json` is the index: components, runs, properties, mutants, source
lines, findings, hazards, theorems.

## The system

An upgrade passes the gate and the per-address limiter, is shaken hands with,
asks the authorize hook over the bridge, enters the registries, runs until its
peer, the application, a timer, an overflow or the drain closes it, and is taken
out of the registries one map at a time.  What happens to it reaches the
application as events: a bounded queue, a drain thread that batches, a bounded
callback queue into Node, a decoder, an event per `Socket`.  What the
application sends fans out to local mailboxes and, in a cluster, once to every
peer that hosts the target.  The peers know each other through SWIM membership
(TCP exchanges and UDP probes), keep one TCP link per pair and tell each other
which rooms and users they host.  JS verbs run on one thread; everything else is
a tokio task or a thread that interleaves with it at every lock and channel.

| module | models | source | one step is |
|---|---|---|---|
| `Registries` | connection, room and user registries, the verbs on them, `run_admitted`, interest edges | `registry.rs`, `rooms.rs`, `identity.rs`, `engine.rs`, `broadcast.rs` | one hold of a shard lock or map guard, one count read, one interest set |
| `Mailbox` | bounded outbound queue | `backpressure.rs` | one hold of the queue lock, one `notify_one`, one poll of `Notified` |
| `LossyQueue` | what a mailbox promises (abstract) | | one offer, loss or delivery |
| `Connection` | `run_connection` with both loops, `ConnHandle`, codec and peer | `connection/mod.rs`, `websocket.rs` | one call on shared state, one `select!` branch |
| `Admission` | gate, limiter, `Authorizer`, the SDK hook and its stash | `limits.rs`, `identity.rs`, `engine.rs`, `server.ts` | one map guard, atomic or channel operation |
| `Drain` | `Engine::close` and `shutdown` against connection tasks | `engine.rs` | one shard visited, one signal, one timer |
| `Bridge` | engine events to application events, `close()` | `events.rs`, `bridge.rs`, `binding.rs`, `events.ts`, `server.ts` | one channel operation or one dispatched event |
| `Membership` | SWIM tables and the TCP plane that spreads them | `swim.rs`, `membership_sync.rs`, `node.rs` | one frame, tick or verdict |
| `Probe` | the UDP failure detector | `probe.rs`, `swim.rs` | one packet or timer |
| `Interest` | who hosts what, across nodes | `interest.rs`, `node.rs` | one frame, tick or transition |
| `Handshake` | what one end of a link does with a frame (operators) | `handshake.rs`, `hello.rs`, `frame.rs` | |
| `Links` | both ends of every connection of two nodes, their tasks, the link table | `link.rs`, `queue.rs`, `node.rs` | one frame, wakeup, timer or table operation |
| `Relay` | a send from the application's call to the mailboxes of every node | `rooms.ts`, `binding.rs`, `engine.rs`, `cluster.rs`, `node.rs` | one local fan-out, one routing decision, one push, one delivery |
| `MC*` | TLC instances: constants, symmetry, configurations | | |
| `*Proofs` | theorems and their lemmas, one or two components each | | |

The modules compose by their promises.  `Connection` holds its mailbox as a FIFO
with `LossyQueue`'s promise, which `Mailbox` is shown to keep.  `Drain` holds a
connection as the phases `Connection` goes through.  `Registries` starts where
`Admission` ends (an admitted upgrade).  `Bridge` takes the events `Connection`
and `Admission` emit.  `Links` extends `Handshake`.  `Membership` uses the probe
plane through the two calls it makes, `Probe` the TCP plane through refutations,
`Interest` the verdicts of both, and `Relay` all of them through the three
things its routing reads: who is Alive, who hosts what, who has a link.

**Registries.** `slab`, `gens` are the shards; `members`/`roomKeys` and
`devices`/`userKeys` separate the content of a map entry from its presence,
because the code empties an entry under one guard and removes it under another
(`remove_if`).  `pc[c]` is where task `c` is in `run_admitted`, `jsPc` where the
JS thread is in a verb.  A leave that empties its room keeps its shard locked
over both steps (`ShardFree`).

**Mailbox.** Frames have a length and a number; the charge of a frame is at least
one byte.  The eviction loop is one iteration per step under the lock.
`permit` is the stored permit of tokio's `Notify`.

**Connection.** The peer may stall, reset, close, send a bad frame or stay idle,
and a loop may panic; timers fire whenever armed.  `FaultSets` names the sets of
disturbances one behaviour draws from.  Codec and peer are external, modelled
from how `websocket.rs` uses them.  `accepted` is a history: the frames `push`
queued and no later push evicted.

**Admission.** An upgrade names its own `request_id`.  Hooks answer at any time,
accept or reject, or never.

**Drain.** Timers are ordered by length: `Settled` says that a wait of hundreds
of milliseconds or more does not end while a task is ready to run, and
`longTimeout` whether `timeoutMs` exceeds `CLOSE_GRACE` (10 s).

**Bridge.** Request ids and connection ids come from counters of their own, so
one number names both.  The batch codec is kept as far as it carries identity:
slot, kind, payload.  A handler may throw (the rest of its buffer is lost) and
`close()` may come from inside one.

**Membership, Probe.** A crash loses table and sequence numbers, a restart begins
at the first incarnation again.  TCP frames are FIFO per link and lost with it
or by a full queue; UDP packets stay in `net` for ever, so they may arrive late,
doubled, reordered or not at all.  `DigestLast` is a bound of the run: digests go
out only when no update is left to gossip; the proofs hold for both values.

**Interest.** `local_set` and the broadcast of its edge are two steps, between
which the edges of two threads may change places.  `hist` records what an origin
hosted at each sequence number.  The answers to a digest come in any order: the
code takes them from a hash map.

**Links.** An end has a stage, a handshake, an inbox, a reader, a writer and a
queue.  `notify_waiters` stores no permit, so a close may or may not be heard by
the reader.  MACs are records of what they cover.

**Relay.** A connection is a node, a slot, a generation and the life of its
process; the id an application holds leaves the life out.  `due` and `cut`
remember who a message was meant for and what was lost with a link or process.
Rooms and users are one kind of target: the code relays them alike.  A `Target`
holds its exclusions in two lists, as `except()` sorts them: `own`, ids of this
node without the node, and `others`, whole.

## Runs

| run | instance | shows |
|---|---|---|
| `Registries` | 2 connections, 2 slots, 1 room, 1 user, clustered | stale ids miss, both sides of a membership agree, nothing is left after churn, fan-outs are exact, cleanup ends |
| `Mailbox` | 2 producers, lengths 0, 1, 3 at mark 3, 5 frames, all policies | budget, accounting, wakeups, refinement of `LossyQueue` |
| `Connection` | 2 callers, 2 pushes, 1 close each, queues of 1, four sets of faults | no frame lost before a close, first closer reported, closes complete, no half-dead connection |
| `Admission` | 2 upgrades, 2 addresses, cap 1, 1 pending request, stash of 1 | the cap holds, nothing leaks, only accepted upgrades open, upgrades settle though hooks need not |
| `Drain` | 2 connections, either verb, long or short timeout | the sweep misses nobody, who heard of the drain in time is reported, the verbs return |
| `Bridge` | 2 upgrades, 2 messages, queue of 2, batches of 3, callback queue of 1, 1 throwing handler | order per `Socket`, SDK in step with the engine, a close is not stuck in a batch, `close()` resolves |
| `Membership` | 3 nodes, 1 disturbance | no forged incarnation, death needs a refutation, the tables converge |
| `Probe` | 3 nodes, 3 probes, 2 incarnations of each prober, any packet schedule | pending map exact, verdicts follow answers, own probes are fresh, only fresh evidence clears a suspicion |
| `Interest` | 3 nodes, 1 host, 2 rooms, 2 transitions, 1 disturbance | views exact until a loss, healed by digests after it |
| `Links` | 2 nodes of versions 1 and 2, 2 connections at once, 1 fault | both ends agree, one way to a stale entry, no lost wakeup, closed links go away |
| `Relay` | 2 nodes, 1 slot each, 1 target, 2 sends, 2 exclusions, 1-bit count, queue of 1, 1 churn, 1 fault | no duplicate, nobody against the address, every miss has a cause or is counted |
| `DrainStragglers` | as `Drain` | refuted: see below |

The bounds are the smallest at which the races exist.  Two connections and two
slots are two live members of a room as well as a recycled slot, since a free
slot is chosen freely; an eviction of several frames needs a frame as long as the
mark; a full queue needs capacity one or two and two senders; a slot freed
between an admit and the reap of a release needs a second upgrade; a third node
is what forwards a stale table, a stale snapshot or an indirect probe; two
connections at once are the dial race; the two rooms of `Interest` are alike, so
the first transition is always of the same one; two exclusions against a 1-bit
count are one more than fits.  One disturbance (`MaxFaults`) is a cut link, a lost frame, a
failed probe or a crash at any moment; the liveness properties then say what the
periodic exchanges make of it.  Larger instances of the safety properties are what
the proofs are for.  `MaxFrames`, `MaxSends`, `MaxCloses`, `MaxMsgs`,
`MaxThrows`, `MaxSeq`, `MaxInc`, `MaxEdges`, `MaxChurn`, `MaxFaults` and
`MaxExcept` cap what would otherwise be unbounded, and each connection or upgrade
of `Registries`, `Admission`, `Drain` and `Bridge` lives once.
`CloseCompletes`, `NoHalfDead`, `ClosedReachesApp` and `CloseResolves` are written
as "from some point on": what triggers them (a latch that is set, a mailbox or an
engine that is closed) is never undone, so they say at least what "leads to" would.
`CHECK_DEADLOCK FALSE` stands in the runs whose systems may rest: a mesh without
traffic, a server that has closed.  Every property has a mutant of the code that
breaks it.

### Where the code and its words differ

`DrainStragglers` is a run: `Engine::close` force-closes stragglers at its
timeout, but the close latch keeps its first signal, which was graceful; with a
timeout below `CLOSE_GRACE` a silent peer's connection is dropped with the runtime
and never reported.  The others below are kept as definitions; to see the trace,
put the name in the `INVARIANTS` or `PROPERTIES` of the module's configuration.

| definition | what the repository says | what TLC finds |
|---|---|---|
| `Links.KeepsTheExisting` | `register`: "a racing dial/accept lost; keep the existing" (`node.rs:281`) | the reader of the link that lost calls `on_link_closed`, which removes the entry of the link that won |
| `Registries.AdvertisesWhatItHosts` | RFC 0004: a node advertises what it currently hosts (`0004-cluster-mesh.md:169`) | `closeRoom` never withdraws; a disconnect can withdraw what a join has just advertised; two devices that bind at once both miss the 0 to 1 edge |
| `Connection.DrainFlushes` | "the write loop flushes its mailbox, sends Close" (`engine.rs:1060`) | the close overtakes queued frames, which are then discarded |
| `Connection.GraceBounds` (under `ServerFairSpec`) | `CLOSE_GRACE` bounds a graceful close (`connection/mod.rs:56`) | `run_connection` waits for a writer whose peer does not read |
| `Admission.StashIsInTransit` | stash entries "are consumed within a bridge flush" (`server.ts:40`) | an accept after the authorize timeout leaves one |
| `Drain.OpenedReported` | "ALWAYS emit Closed exactly once" (`connection/mod.rs:157`) | an upgrade past the gate opens behind the last sweep |
| `Bridge.AlwaysResolves` | `requestAuthorize` always answers Rust, with a rejection when the hook throws (`server.ts`) | after `close()` `resolveAuthorize` throws, in the catch handler too |
| `Probe.MarkDropsReplays` | the mark drops replays (`probe.rs:375`) | it also drops a node's own probe after that node has pinged the target for another |
| `Interest.DeadInterestSwept` | a dead node's interest never lingers (`interest.rs:272`) | a third node re-teaches it in a digest repair |
| `Relay.StaleIdMisses` | RFC 0004: a stale id on another node "misses silently" (`0004-cluster-mesh.md:293`) | a restarted node counts generations from zero: an id of its former life reaches a new connection |

Three observations without a definition of their own.  `put_excepts` casts the
number of exclusions to 16 bits (`cluster.rs:326`): with 65536 or more the
receiver reads too few and takes the rest for payload (drop `Fits` from
`OnlyTheAddressed`).  A handler that throws inside a flush loses the events behind
it in the buffer, opens and closes of other connections included; the properties of
`Bridge` are stated up to there.  RFC 0004 sends control frames through a
"lossless control queue" (`0004-cluster-mesh.md:323`); the code sends them through
the same lossy peer queue as the data, which is why `Interest` and `Membership`
lose frames to a full queue.

## Fairness

Weak fairness of a task's ready steps: tokio polls every woken task.  Weak
fairness of a verb that has started: the JS thread does not stop inside a native
call.  Strong fairness of a pending socket write (`FlushFrame`, `ShutdownDone`):
a peer that keeps making room lets it through.  Strong fairness of `Deadline` and
`HardDeadline`: the clock passes, and the loop tests it after every scan.  `Bridge`:
the drain thread, the JS event loop and the pool thread of `close()` run.
`Membership` and `Interest`: deliveries and dials happen (the loops are timers), a
crashed node is probed and its suspicion expires; the periodic exchanges
(`GossipTick`, `Tick`) are strongly fair because the model lets them fire only
when the channels are quiet, to bound what is in flight, while the code's timers
fire regardless.  In `Interest`, publishing, dialling and reviving share one weak
fairness condition, which is less than the code gives; each happens finitely often
once the disturbances stop.  `Links`: each end's handshake, table and writer steps,
and its reader, are weakly fair.  Hooks, peers and callers are under no obligation, with
one exception: `Connection` assumes that a peer that stopped reading reads again
or is reset, and `GraceBounds` shows what happens without it.

## Proofs

All theorems hold for every value of the constants that satisfies the named
assumptions of the modules: types of the bounds, finiteness of the sets that are
counted, and distinctness of the null values (`NoCmd` is not a command, `Unknown`
is not a table entry).  Every proof has the same shape: an inductive invariant
`IInv`, one lemma per action or per part of the invariant that a group of actions
can disturb, and theorems that follow from `Invariance` (`DrainIInv`,
`MembershipIInv` and `ProbeIInv`, and `DrainInvariance` and so on, where a module
holds two components).  Every safety property of the passing runs is proved.

| module | proves about |
|---|---|
| `RegistriesProofs`, `AdmissionProofs`, `BridgeProofs`, `InterestProofs`, `RelayProofs` | the component of that name |
| `MailboxDrainProofs` | `Mailbox` and `Drain` |
| `ConnectionMembershipProofs` | `Connection` and `Membership` |
| `LinksProbeProofs` | `Links` and `Probe` |

A module on two components extends both.  They share no constant, variable or
definition: `Drain`, `Membership` and `Probe` put their name before `Init`, `Next`,
`Spec` and `TypeOK`, so that `DrainSpec`, `MembershipSpec` and `ProbeSpec` stand
beside the other component's `Spec`, and a theorem speaks of one of the two.

The theory of finite sets slows the provers down wherever it is
visible.  `BridgeProofs`, `InterestProofs` and `RelayProofs` therefore name the few
facts they use (`FiniteFacts`), take them as a hypothesis of their lemmas, and prove
them from the library just before the theorems (`FiniteFactsHold`).

**Registries.** None of the properties is inductive alone.  `IInv` adds that
open tasks and occupied slots correspond one to one (`SlabOwned`), that no id is
handed out twice while no slot wraps (`IdsFresh`), that the room and user sides
hold exactly the ids the tasks account for (`MembersExact`, `DevicesBound`), and
what a verb's copied list still covers (`SweepCovers`, `SnapshotKnown`).  Facts
about ids are conditional on `NoWrap`, the promise `ids.rs` itself limits to 2^24
reuses of a slot.  Theorems: `TypeCorrect`, `StaleIdsMiss`,
`MembershipBidirectional`, `NoGhostMembers`, `EmptyRoomsDoomed`,
`DeviceSetsExact`, `ChurnIsClean`, `FanoutIsExact`, `UserInterestWithdrawn`,
`CloseRoomEmptiesRoom`, and `RoomCapHolds` (`maxRoomsPerConnection`), which like
the node without a cluster is covered by the proof only.

**Mailbox.** The sum of the charges cannot be reasoned about without
induction, so each frame carries the running total at its end as a history
(`total`, `end`); `Tiled` says that queued frames tile the interval that `bytes`
measures, from which the budget follows by arithmetic.  Theorems: `TypeCorrect`,
`BudgetHolds`, `FifoOrder`, `DropsCounted`, `WakeupsArrive`, and `Refinement`
(the mailbox implements `LossyQueue`).

**Connection.** `NothingLost` speaks of three places a frame can be (mailbox,
writer's hand, wire), so its parts lean on each other: a pop keeps the wire in
order only because the hand is older than the mailbox.  On its own it is not
inductive: the writer could leave with frames still queued.  `IInv` therefore adds
that a frame found anywhere was pushed (`PushedFacts`), that a close frame in the
control queue, in the writer's hand or in the codec means that a caller or the
peer has closed (`CtlFacts`, `HandFacts`), and that the writer leaves without a
close only on a failed socket or a drained and closed mailbox (`LeaveFacts`).  For
the close code, `LatchFacts` ties the latch to its first closer and `ReadFacts`
says that the reader acts on a command only when there is one.  Theorems:
`TypeCorrect`, `NothingLostTheorem`, `FirstCloserTheorem`, for any callers,
capacities, policies and faults.

**Bridge.** A record may be in the event queue, in the drain thread's batch, in a
buffer on its way to Node, or in the buffer being dispatched; `Pending` is all of
them in wire form.  `Follows(x, y)` says that of one connection `y` may come after
`x`, and `Stream` that it does, within each place and from each to every later
one.  That alone allows a record nobody sent, so `PendingFacts` says whose each one
is and that its `Socket` has not seen it or anything after it (`ToCome`), and
`TaskFacts` and `Numbered` that ids and request ids come from counters and name one
upgrade.  `SeenFacts` bounds what a `Socket` has emitted by what was read.  In this
form an append, a take, a flush and a dispatch each move one element between sets,
and order is kept by one lemma per move.  For `SdkInStep`, `StashFacts` says that
the metadata of an accepted upgrade waits in the stash until its Opened is
dispatched, and `StepFacts` is the property itself in terms of `Pending`, with the
part that is missing from it: behind a pending Opened of a closed connection there
is its Closed.  `BatchFacts` (a batch starts empty) is what lets a batch begun by
`recv` stay within its size.  Theorems: `TypeCorrect`, `EmissionOrder`,
`InStepWithEngine`.

**Drain.** The sweep and the two waits visit the shards one at a time while
connections open and end, so the invariant says what a scan still covers: in the
sweep, an entry of its beginning is yet to be scanned, in the list of handles,
signalled, or past needing a signal (`SweepCovers`); in a wait, a signalled
connection is yet to be scanned, found, or reported (`WaitCovers`).  `TaskFacts`
and `HeardFacts` tie a task's program point to its entry and its Closed event.
What the waits have achieved is kept by `GraceServed` and `ForceServed`.
Theorems: `SweepTheorem`, `DrainTheorem`, for any number of connections.

**Admission.** `CountsExact` ties each address count to the cardinality of
the set of its slot holders and `InFlightExact` the in-flight count to the
upgrades inside `authorize`; `UpgradeFacts` gives what each program point knows
of verdict and reply.  Theorems: `TypeCorrect`, `IpCapHolds`,
`LimiterEntriesExact`, `PendingTableBounded`, `AuthorizeClean`,
`OnlyAcceptedUpgradesOpen`.

**Membership.** That no table holds a forged incarnation needs the same of
every frame on its way and every digest, so `IInv` bounds the incarnation in each
frame by the highest its subject ever had (`Tables`, `Frames`).  Theorems:
`NoIncarnationForged`, and `DeadStayDead`, an action property: within one life of
its owner an entry only moves forward in incarnation, and Dead only yields to a
newer one.

**Probe.** A packet never leaves the network, so any of them may arrive at any
time.  `PacketFacts` says that every packet belongs to a probe its origin has
started, and one of the latest probe is about its target; `OwnFacts` that the
running probe's PING is the only one of its number and carries no older
incarnation than the packets before it; `MarkFacts` and `HandledFacts` that a
replay mark is the highest stamp accepted from a sender.  Theorems:
`PendingTheorem`, `VerdictTheorem`, `FreshTheorem`, and `EvidenceTheorem`, an
action property.

**Links.** `NegotiationAgrees` is a fact of the operators: two ends that see
each other's HELLO refuse alike or negotiate alike.  `IInv` holds per connection:
an AUTH frame that verifies was sent by the other end over the same two HELLOs
(`HandshakeInv`), the two roles differ (`RolesInv`), and the queue, reader and
writer of an end fit its stage (`EndInv`); `TableInv` says what an entry of the
table points to.  Theorems: `EndsOfALinkAgree`, `WakeupsArrive`,
`StaleEntriesWereDead`, for any configurations, number of connections and faults.

**Interest.** A view is exact only if every frame that can still change it is true.
Until a loss, `Faithful` says so of the unsent edges, of every edge and snapshot in
every channel (`FrameFacts`) and of every view (`ViewFacts`), against `hist`.  An
edge changes a view by one target, so truth is not enough: it has to arrive on its
base.  `BaseFirst` says that whatever stands before an edge in its channel brings
the receiver to the sequence number below it, and `Covered`, which keeps `BaseFirst`
when the next edge is sent, that a linked peer has or is being sent every
transition whose edge is out.  A snapshot may overtake edges and come from a third
node, so both speak of frames that bring a receiver *at least* to a number
(`Brings`).  Theorems: `TypeCorrect`, `Exactness`.

**Relay.** `CallFacts` and `WireFacts` say of a call and of a frame that it carries
what was sent (`Carries`) and that its message has not been where it is going, from
which `OnceEach` and `OnlyTheAddressed` follow with `GotFacts`; that the exclusions
survive the wire form needs the count to fit its bits, as the property says.  For
`MissesExplained`, `Missing(n)` is the set of messages of `n` and nodes where
someone still waits although nothing is on the way there, and `DropFacts` that it is
never larger than `drops[n]`.  The property looks only at messages that are nowhere
under way; the invariant needs every pair as soon as it is decided, since one frame
of a message may be dropped while another is still travelling.  A step then adds to
`Missing(n)` only the peers whose queue refused the frame, which are the drops it
counts.  Theorems: `TypeCorrect`, `NoDuplicate`, `Addressed`, `Explained`.

Only model-checked: every liveness property, since liveness under fairness and
`ENABLED` are beyond the provers used.  The definitions of *Where the code and its
words differ* are refuted, so there is nothing to prove of them.

## Not modelled

- The client address resolver of `limits.rs`, the per-room counters, `topRooms`,
  `backpressureReport`, presence, statistics, metrics and the sampler: reads and
  pure functions whose results no other part decides on.
- Configuration validation, conversion of options and reports in `binding.rs`, type
  declarations.
- `Flood` routing (relays to every alive peer) and the dial backoff; a dial may
  happen at any time instead.
- Cryptography, TCP and WebSocket framing: libraries, abstract here.
- Panics inside the authorize future: no call in it panics by itself.
