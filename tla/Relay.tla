------------------------------- MODULE Relay -------------------------------
(***************************************************************************)
(* The data plane between nodes: a send of the application on one node     *)
(* (rooms.ts Target, binding.rs, engine.rs) fans out to the connections of *)
(* that node and is relayed once to the peers that host the target         *)
(* (cluster.rs, mesh node.rs relay), which fan it out to theirs.           *)
(*                                                                         *)
(* A connection is known in the process that hosts it by a slot and a      *)
(* generation (ids.rs); the id the application holds adds the node         *)
(* (ids.ts, NodeConnId).  Two nodes use the same slots and generations,    *)
(* and a node that restarts counts its generations from zero again: what   *)
(* tells two such connections apart, the life of their process, is in no   *)
(* id.                                                                     *)
(*                                                                         *)
(* Rooms and users are one kind of target here, as they are in the code    *)
(* that relays them.  A fan-out on one node is one step; Registries takes  *)
(* it apart.  The interest tables are taught by Learn; Interest shows how. *)
(***************************************************************************)
EXTENDS Naturals, Sequences, FiniteSets, Functions

CONSTANTS Nodes,       \* the members of the mesh
          Senders,     \* the nodes whose applications send
          Slots,       \* slots of one node's connection registry
          Targets,     \* rooms and users
          Everyone,    \* the target of broadcast()
          MaxSends,    \* bound: sends of all applications together
          MaxExcept,   \* bound: calls of .except() on one target
          CountBits,   \* width of the exclusion count on the wire; 16
          QueueCap,    \* frames a peer's outbound queue holds
          MaxChurn,    \* bound: connections opened, closed, joining, leaving
          MaxFaults    \* bound: links lost and nodes restarted

ASSUME RelayAssumption ==
    /\ IsFiniteSet(Nodes) /\ Senders \subseteq Nodes
    /\ MaxSends \in Nat /\ MaxExcept \in Nat
    /\ CountBits \in Nat /\ 2^CountBits \in Nat \ {0}
    /\ QueueCap \in Nat \ {0} /\ MaxChurn \in Nat /\ MaxFaults \in Nat

VARIABLES
    life,     \* how often each node has been restarted
    live,     \* Registry: the connections of each node, slot and generation
    gen,      \* Registry: the generation the slot's next connection gets
    member,   \* the room and identity registries: locals in each target
    known,    \* InterestTable.remote: what each node believes of each other
    alive,    \* Membership: the peers each node holds Alive
    links,    \* Inner.links: the pairs of nodes with a link
    wire,     \* PeerQueue and TCP stream of each ordered pair, in order
    call,     \* the JS thread of each node inside a send, or Idle
    drops,    \* RelayCounters.relay_drops
    minted,   \* the connections whose ids applications have seen
    sends,    \* what was sent, in order: a record per message
    got,      \* every frame pushed into a mailbox
    twice,    \* what was pushed into one mailbox a second time
    due,      \* who each message was sent to and has stayed since
    cut,      \* what a lost link or a restart took: <<message, node>>
    churn, faults

connVars == <<live, gen, member>>
meshVars == <<life, known, alive, links>>
histVars == <<minted, sends, got, twice, due, cut>>
vars == <<connVars, meshVars, wire, call, drops, histVars, churn, faults>>

Idle == [step |-> "idle"]
Pair(n, m) == {n, m}

(* The ids one process gives out, and the connections behind them. *)
Conn(n, l) == [node |-> n, local |-> l, life |-> life[n]]
IdOf(c) == [node |-> c.node, local |-> c.local]
Conns == UNION {{Conn(n, l) : l \in live[n]} : n \in Nodes}

Hosted(n) == {t \in Targets : member[n][t] # {}}

(* A mesh at rest: every slot of every node taken by its first connection, *)
(* any of them in any target, every node knowing what the others host.     *)
Init ==
    /\ life = [n \in Nodes |-> 0]
    /\ live = [n \in Nodes |-> Slots \X {0}]
    /\ gen = [n \in Nodes |-> [s \in Slots |-> 1]]
    /\ member \in [Nodes -> [Targets -> SUBSET (Slots \X {0})]]
    /\ known = [n \in Nodes |-> [m \in Nodes |-> IF m = n THEN {} ELSE Hosted(m)]]
    /\ alive = [n \in Nodes |-> Nodes \ {n}]
    /\ links = {Pair(n, m) : n, m \in Nodes} \ {{n} : n \in Nodes}
    /\ wire = [n \in Nodes |-> [m \in Nodes |-> <<>>]]
    /\ call = [n \in Nodes |-> Idle]
    /\ drops = [n \in Nodes |-> 0]
    /\ minted = Conns
    /\ sends = <<>> /\ got = {} /\ twice = {} /\ due = {} /\ cut = {}
    /\ churn = 0 /\ faults = 0

-----------------------------------------------------------------------------
(* Connections come and go. *)

Left(gone) == due' = {d \in due : d.conn \notin gone}

Open(n, s) ==
    /\ \A l \in live[n] : l[1] # s
    /\ live' = [live EXCEPT ![n] = @ \cup {<<s, gen[n][s]>>}]
    /\ gen' = [gen EXCEPT ![n][s] = @ + 1]
    /\ minted' = minted \cup {Conn(n, <<s, gen[n][s]>>)}
    /\ UNCHANGED <<member, due>>

Close(n, l) ==
    /\ live' = [live EXCEPT ![n] = @ \ {l}]
    /\ member' = [member EXCEPT ![n] = [t \in Targets |-> @[t] \ {l}]]
    /\ Left({Conn(n, l)})
    /\ UNCHANGED <<gen, minted>>

Join(n, l, t) ==
    /\ l \notin member[n][t]
    /\ member' = [member EXCEPT ![n][t] = @ \cup {l}]
    /\ UNCHANGED <<live, gen, minted, due>>

(* A connection that leaves one target is no longer owed what was sent to it. *)
Leave(n, l, t) ==
    /\ l \in member[n][t]
    /\ member' = [member EXCEPT ![n][t] = @ \ {l}]
    /\ due' = {d \in due : ~(d.conn = Conn(n, l) /\ sends[d.msg].to = t)}
    /\ UNCHANGED <<live, gen, minted>>

Churn ==
    /\ churn < MaxChurn /\ churn' = churn + 1
    /\ \E n \in Nodes :
         \/ \E s \in Slots : Open(n, s)
         \/ \E l \in live[n] : Close(n, l)
         \/ \E l \in live[n], t \in Targets : Join(n, l, t) \/ Leave(n, l, t)
    /\ UNCHANGED <<meshVars, wire, call, drops, sends, got, twice, cut, faults>>

-----------------------------------------------------------------------------
(* The SDK.  A Target holds two lists of exclusions: the ids that name this *)
(* node, as locals, and the others whole.  The engine tags the local ones   *)
(* with its own node again before both go on the wire.                      *)

Lists(S) == UNION {[1..k -> S] : k \in 0..MaxExcept}

(* What a Target on n may hold after at most MaxExcept calls of except(). *)
ExceptLists(n) ==
    {ex \in [own : Lists({c.local : c \in {c \in minted : c.node = n}}),
             others : Lists({IdOf(c) : c \in {c \in minted : c.node # n}})] :
        Len(ex.own) + Len(ex.others) <= MaxExcept}

(* The ids the application has excepted. *)
Excepted(n, ex) == {[node |-> n, local |-> l] : l \in Range(ex.own)} \cup Range(ex.others)

LocalExcept(ex) == Range(ex.own)

RemoteExcept(ex) == ex.others

NodeExcepts(n, ex) == [i \in DOMAIN ex.own |-> [node |-> n, local |-> ex.own[i]]]

RelayExceptsLocalOnly(n, ex) == NodeExcepts(n, ex)

RelayExcepts(n, ex) == NodeExcepts(n, ex) \o RemoteExcept(ex)

(* The count of exclusions is cast to CountBits bits; the entries are all   *)
(* written.  The reader takes as many as the count says, and what is left   *)
(* of them ends up in front of the payload.                                 *)
PutExcepts(ex) == [count |-> Len(ex) % 2^CountBits, entries |-> ex]

GetExcepts(body) == SubSeq(body.entries, 1, body.count)

PayloadIntact(body) == body.count = Len(body.entries)

ExceptsForAnyNode(n, ex) == {id.local : id \in Range(ex)}

ExceptsFor(n, ex) == {id.local : id \in {id \in Range(ex) : id.node = n}}

(* Whom a fan-out on node n addresses. *)
Recipients(n, kind, to) ==
    CASE kind = "group"  -> member[n][to] \cap live[n]
      [] kind = "all"    -> live[n]
      [] kind = "socket" -> {to.local} \cap live[n]

(* broadcast: push into the mailbox of everyone addressed, but the excluded. *)
Push(n, msg, kind, to, except, intact) ==
    LET now == {[conn |-> Conn(n, l), msg |-> msg, intact |-> intact] :
                    l \in Recipients(n, kind, to) \ except}
    IN  /\ got' = got \cup now
        /\ twice' = twice \cup {d \in now : \E g \in got : g.conn = d.conn
                                                        /\ g.msg = d.msg}

(* What the application means: everyone the target names now, anywhere,     *)
(* who is not excluded.                                                     *)
Meant(n, msg, kind, to, ex) ==
    {[msg |-> msg, conn |-> c] : c \in {c \in Conns :
        /\ IdOf(c) \notin Excepted(n, ex)
        /\ kind = "socket" => IdOf(c) = to
        /\ kind = "group" => c.local \in member[c.node][to]}}

Sent(n, kind, to, ex) ==
    [from |-> n, kind |-> kind, to |-> to, except |-> ex, blind |-> {}]

(* The engine verb behind toRoom, toUser and broadcast: the local fan-out,  *)
(* then the relay.                                                          *)
Broadcast(n, k, kind, to, ex) ==
    /\ Push(n, k, kind, to, LocalExcept(ex), TRUE)
    /\ call' = [call EXCEPT ![n] = [step |-> "peers", msg |-> k, kind |-> kind,
                    to |-> to, except |-> RelayExcepts(n, ex)]]

SendGroup(n, k, kind, to, ex) ==
    /\ Broadcast(n, k, kind, to, ex)
    /\ sends' = Append(sends, Sent(n, kind, to, ex))
    /\ due' = due \cup Meant(n, k, kind, to, ex)

(* The engine verb behind toSocket for another node's id. *)
SendNode(n, k, to) ==
    /\ call' = [call EXCEPT ![n] = [step |-> "push", msg |-> k, kind |-> "socket",
                    to |-> to, except |-> <<>>, peers |-> {to.node}]]
    /\ UNCHANGED <<got, twice>>

(* except() on a target that is one socket: the list it is looked up in     *)
(* depends on the node its id names.                                        *)
SelfExcepted(n, to, ex) ==
    IF to.node # n THEN to \in Range(ex.others) ELSE to.local \in Range(ex.own)

(* toSocket with the id of connection c: an excluded target sends nothing.  *)
SendSocket(n, k, c, ex) ==
    LET to == IdOf(c)
    IN  /\ sends' = Append(sends, Sent(n, "socket", c, ex))
        /\ due' = due \cup Meant(n, k, "socket", to, ex)
        /\ \/ /\ SelfExcepted(n, to, ex)
              /\ UNCHANGED <<got, twice, call>>
           \/ /\ ~SelfExcepted(n, to, ex) /\ to.node = n
              /\ Push(n, k, "socket", to, {}, TRUE)
              /\ UNCHANGED call
           \/ /\ ~SelfExcepted(n, to, ex) /\ to.node # n
              /\ SendNode(n, k, to)

Send(n) ==
    /\ call[n] = Idle
    /\ Len(sends) < MaxSends
    /\ \E ex \in ExceptLists(n) :
         \/ \E t \in Targets : SendGroup(n, Len(sends) + 1, "group", t, ex)
         \/ SendGroup(n, Len(sends) + 1, "all", Everyone, ex)
         \/ \E c \in minted : SendSocket(n, Len(sends) + 1, c, ex)
    /\ UNCHANGED <<minted, connVars, meshVars, wire, drops, cut, churn, faults>>

-----------------------------------------------------------------------------
(* The relay. *)

Linked(n) == {m \in Nodes \ {n} : Pair(n, m) \in links}

InterestedPeers(n, t) == {m \in alive[n] : t \in known[n][m]}

RelayPeers(n, c) ==
    IF c.kind = "all" THEN Linked(n) ELSE InterestedPeers(n, c.to)

(* The routing decision.  History: the nodes this one had reason to pass    *)
(* over, because it held them suspect, knew of no interest or had no link.  *)
Route(n) ==
    LET c == call[n]
        blind == IF c.kind = "all" THEN Nodes \ Linked(n)
                 ELSE {m \in Nodes : m \notin alive[n] \/ c.to \notin known[n][m]}
        peers == RelayPeers(n, c)
    IN  /\ c.step = "peers"
        /\ call' = [call EXCEPT ![n] =
               IF peers = {} THEN Idle
               ELSE [step |-> "push", msg |-> c.msg, kind |-> c.kind, to |-> c.to,
                     except |-> c.except, peers |-> peers]]
        /\ sends' = [sends EXCEPT ![c.msg].blind = blind]
        /\ UNCHANGED <<connVars, meshVars, wire, drops, minted, got, twice, due,
                       cut, churn, faults>>

Frame(c) == [msg |-> c.msg, kind |-> c.kind, to |-> c.to,
             body |-> PutExcepts(c.except)]

(* A link whose queue is full sheds the newest frame. *)
Takes(n, peers) == {m \in peers \cap Linked(n) : Len(wire[n][m]) < QueueCap}

DoRelay(n, refused) == [drops EXCEPT ![n] = @ + Cardinality(refused)]

(* One frame for all peers: a peer without a link, or whose queue is full,  *)
(* is counted and passed over.                                              *)
Relay(n) ==
    LET c == call[n]
        takes == Takes(n, c.peers)
    IN  /\ c.step = "push"
        /\ wire' = [wire EXCEPT ![n] = [m \in Nodes |->
               IF m \in takes THEN Append(@[m], Frame(c)) ELSE @[m]]]
        /\ drops' = DoRelay(n, c.peers \ takes)
        /\ call' = [call EXCEPT ![n] = Idle]
        /\ UNCHANGED <<connVars, meshVars, histVars, churn, faults>>

(* deliver_local: a relay that arrives is fanned out here and goes no       *)
(* further.                                                                 *)
DeliverForwards(m, n) ==
    LET f == Head(wire[m][n])
    IN  /\ Push(n, f.msg, f.kind, f.to, ExceptsFor(n, GetExcepts(f.body)),
                PayloadIntact(f.body))
        /\ wire' = [wire EXCEPT ![m][n] = Tail(@), ![n] = [p \in Nodes |->
               IF p \in Linked(n) /\ f.kind # "socket" /\ Len(@[p]) < QueueCap
               THEN Append(@[p], f) ELSE @[p]]]

Deliver(m, n) ==
    LET f == Head(wire[m][n])
    IN  /\ Push(n, f.msg, f.kind, f.to, ExceptsFor(n, GetExcepts(f.body)),
                PayloadIntact(f.body))
        /\ wire' = [wire EXCEPT ![m][n] = Tail(@)]

OnInbound(m, n) ==
    /\ wire[m][n] # <<>>
    /\ Deliver(m, n)
    /\ UNCHANGED <<connVars, meshVars, call, drops, minted, sends, due, cut,
                   churn, faults>>

-----------------------------------------------------------------------------
(* The mesh around it. *)

(* Interest frames of m reach n: n knows what m hosts at this moment. *)
Learn(n, m) ==
    /\ m \in Linked(n) /\ known[n][m] # Hosted(m)
    /\ known' = [known EXCEPT ![n][m] = Hosted(m)]
    /\ UNCHANGED <<connVars, life, alive, links, wire, call, drops, histVars,
                   churn, faults>>

(* A link breaks: what had reached the other side is still read, the rest   *)
(* is gone; both sides suspect each other.                                  *)
Kept(q, k) == SubSeq(q, 1, k)
Lost(q, k, n) == {<<q[i].msg, n>> : i \in k + 1 .. Len(q)}

LinkDown(n, m) ==
    /\ faults < MaxFaults /\ faults' = faults + 1
    /\ Pair(n, m) \in links
    /\ links' = links \ {Pair(n, m)}
    /\ alive' = [alive EXCEPT ![n] = @ \ {m}, ![m] = @ \ {n}]
    /\ \E i \in 0 .. Len(wire[n][m]), j \in 0 .. Len(wire[m][n]) :
         /\ wire' = [wire EXCEPT ![n][m] = Kept(@, i), ![m][n] = Kept(@, j)]
         /\ cut' = cut \cup Lost(wire[n][m], i, m) \cup Lost(wire[m][n], j, n)
    /\ UNCHANGED <<connVars, life, known, call, drops, minted, sends, got,
                   twice, due, churn>>

(* The pair is linked again once neither side reads from the old link.      *)
LinkUp(n, m) ==
    /\ n # m /\ Pair(n, m) \notin links
    /\ wire[n][m] = <<>> /\ wire[m][n] = <<>>
    /\ links' = links \cup {Pair(n, m)}
    /\ UNCHANGED <<connVars, life, known, alive, wire, call, drops, histVars,
                   churn, faults>>

(* An acknowledged probe, or a fresh membership sync. *)
Revive(n, m) ==
    /\ n # m /\ m \notin alive[n]
    /\ alive' = [alive EXCEPT ![n] = @ \cup {m}]
    /\ UNCHANGED <<connVars, life, known, links, wire, call, drops, histVars,
                   churn, faults>>

(* The process of n is replaced: its connections, tables, queues and its    *)
(* JS thread are gone, and generations count from zero.                     *)
Restart(n) ==
    /\ faults < MaxFaults /\ faults' = faults + 1
    /\ life' = [life EXCEPT ![n] = @ + 1]
    /\ live' = [live EXCEPT ![n] = {}]
    /\ gen' = [gen EXCEPT ![n] = [s \in Slots |-> 0]]
    /\ member' = [member EXCEPT ![n] = [t \in Targets |-> {}]]
    /\ known' = [known EXCEPT ![n] = [m \in Nodes |-> {}]]
    /\ alive' = [m \in Nodes |-> IF m = n THEN {} ELSE alive[m] \ {n}]
    /\ links' = {p \in links : n \notin p}
    /\ wire' = [m \in Nodes |-> [p \in Nodes |-> IF n \in {m, p} THEN <<>> ELSE wire[m][p]]]
    /\ call' = [call EXCEPT ![n] = Idle]
    /\ drops' = [drops EXCEPT ![n] = 0]
    /\ cut' = cut \cup {<<i, m>> : i \in {i \in DOMAIN sends : sends[i].from = n}, m \in Nodes}
    /\ Left({c \in Conns : c.node = n})
    /\ UNCHANGED <<minted, sends, got, twice, churn>>

Next ==
    \/ Churn
    \/ \E n \in Senders : Send(n)
    \/ \E n \in Nodes : Route(n) \/ Relay(n) \/ Restart(n)
    \/ \E n, m \in Nodes : \/ OnInbound(m, n) \/ Learn(n, m) \/ LinkDown(n, m)
                           \/ LinkUp(n, m) \/ Revive(n, m)

Spec == Init /\ [][Next]_vars

-----------------------------------------------------------------------------
Fits(k) == Len(sends[k].except.own) + Len(sends[k].except.others) < 2^CountBits

Locals == Slots \X Nat
Ids == [node : Nodes, local : Locals]
ConnIds == [node : Nodes, local : Locals, life : Nat]
Kinds == {"group", "all", "socket"}
Addressees == Targets \cup {Everyone} \cup Ids

Frames == [msg : Nat, kind : Kinds, to : Addressees,
           body : [count : Nat, entries : Seq(Ids)]]

Calls ==
    [step : {"peers"}, msg : Nat, kind : Kinds, to : Addressees, except : Seq(Ids)]
      \cup [step : {"push"}, msg : Nat, kind : Kinds, to : Addressees, except : Seq(Ids),
            peers : SUBSET Nodes]

Sends == [from : Nodes, kind : Kinds, to : Targets \cup {Everyone} \cup ConnIds,
          except : [own : Seq(Locals), others : Seq(Ids)], blind : SUBSET Nodes]

(* Connections, what was sent and what is in flight stay what the           *)
(* registries and frames of the code can hold.                              *)
TypeOK ==
    /\ life \in [Nodes -> Nat]
    /\ live \in [Nodes -> SUBSET Locals]
    /\ gen \in [Nodes -> [Slots -> Nat]]
    /\ member \in [Nodes -> [Targets -> SUBSET Locals]]
    /\ known \in [Nodes -> [Nodes -> SUBSET Targets]]
    /\ alive \in [Nodes -> SUBSET Nodes]
    /\ links \subseteq SUBSET Nodes
    /\ wire \in [Nodes -> [Nodes -> Seq(Frames)]]
    /\ call \in [Nodes -> Calls \cup {Idle}]
    /\ drops \in [Nodes -> Nat]
    /\ minted \subseteq ConnIds
    /\ sends \in Seq(Sends)

(* No connection is handed a message twice, whichever way it was sent:      *)
(* local fan-out and relay never overlap and "relays never re-relay"        *)
(* (deliver_local, relay_room, relay_all).                                  *)
OnceEach == twice = {}

(* A message reaches only connections its target names and .except() does   *)
(* not, with the payload that was sent, across the SDK's sorting of ids,    *)
(* the node tags, the wire form and the receiver's filter, although         *)
(* different nodes use the same local ids.                                  *)
(* For lists of exclusions whose length fits the 16 bits of its count.      *)
OnlyTheAddressed ==
    \A g \in got :
        LET s == sends[g.msg]
        IN  Fits(g.msg) =>
              /\ g.intact
              /\ IdOf(g.conn) \notin Excepted(s.from, s.except)
              /\ s.kind = "socket" => IdOf(g.conn) = IdOf(s.to)

UnderWay(k) ==
    \/ \E n \in Nodes : call[n] # Idle /\ call[n].msg = k
    \/ \E n, m \in Nodes : \E i \in DOMAIN wire[n][m] : wire[n][m][i].msg = k

Unexplained(n) ==
    {p \in (DOMAIN sends) \X Nodes :
        LET k == p[1]
            m == p[2]
        IN  /\ sends[k].from = n /\ Fits(k) /\ ~UnderWay(k)
            /\ m \notin sends[k].blind /\ <<k, m>> \notin cut
            /\ \E d \in due : d.msg = k /\ d.conn.node = m
                              /\ \A g \in got : ~(g.msg = k /\ g.conn = d.conn)}

(* Once a message is nowhere under way, every connection it was sent to,    *)
(* that stayed and has not got it, is on a node the sender had reason to    *)
(* pass over when it chose the peers (suspect, not known to host the        *)
(* target, not linked), or whose frame went down with a link or a process;  *)
(* or the sender has counted a drop for it in relay_drops.                  *)
MissesExplained == \A n \in Nodes : Cardinality(Unexplained(n)) <= drops[n]

(* What RFC 0004 (4.5) says of toSocket across nodes: an id with a "stale     *)
(* generation on the owning node" misses silently, "the exact single-node     *)
(* semantics for a stale id", so nobody but the connection the id was given   *)
(* to gets the message.  A restart hands the same ids out again.              *)
StaleIdMisses ==
    \A g \in got : sends[g.msg].kind = "socket" => g.conn = sends[g.msg].to
=============================================================================
