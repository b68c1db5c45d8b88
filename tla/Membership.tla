----------------------------- MODULE Membership -----------------------------
(***************************************************************************)
(* The member tables of a cluster: swim.rs Membership and the TCP plane    *)
(* that spreads it (membership_sync.rs; gossip_loop, digest_loop, register *)
(* and on_link_closed of node.rs).  Each node keeps, per peer, a state and *)
(* an incarnation; a peer that hears itself called Suspect or Dead answers *)
(* with a higher incarnation.                                              *)
(*                                                                         *)
(* The probe plane is used through what it calls: suspect when both rounds *)
(* stay silent, note_direct_ack when an answer comes.  Node ids are        *)
(* numbers: the higher id dials the lower one.                             *)
(***************************************************************************)
EXTENDS Naturals, Sequences, FiniteSets

CONSTANTS
    Nodes,       \* node ids
    Seeds,       \* the configured seeds, dialled whatever the table says
    Unknown,     \* a peer the table does not list
    Retransmit,  \* params.retransmit: times an update is gossiped
    GossipMax,   \* params.gossip_max: updates in one gossip frame, self included
    Shaky,       \* the links that lose frames, close or are probed in vain
    Mortal,      \* the nodes that may crash
    DigestLast,  \* bound: digests go out only when no update is left to gossip
    MaxFaults    \* bound: lost frames, cut links, failed probes, crashes

ASSUME MembershipAssumption ==
    /\ Nodes \subseteq Nat /\ Seeds \subseteq Nodes /\ Mortal \subseteq Nodes
    /\ Retransmit \in Nat \ {0} /\ GossipMax \in Nat \ {0}
    /\ DigestLast \in BOOLEAN /\ MaxFaults \in Nat
    /\ Unknown \notin [state : {"Alive", "Suspect", "Dead"}, inc : Nat]

VARIABLES
    up,         \* the nodes that are running
    inc,        \* node -> self_inc
    view,       \* node -> peer -> [state, inc] or Unknown
    gossip,     \* node -> id -> retransmissions left of the update about it
    links,      \* the linked pairs
    chan,       \* node -> node -> MEMBERSHIP frames on the way
    top,        \* history: node -> the highest incarnation it ever had
    faultCount  \* disturbances so far

tableVars == <<inc, view, gossip, top>>
membershipVars == <<up, tableVars, links, chan, faultCount>>

States == {"Alive", "Suspect", "Dead"}
Entry == [state : States, inc : Nat]
Update == [id : Nodes, state : States, inc : Nat]

\* precedence().
Precedence == [s \in States |-> CASE s = "Alive" -> 0 [] s = "Suspect" -> 1 [] OTHER -> 2]

Alive(i) == [state |-> "Alive", inc |-> i]

\* A cluster that has just formed.
MembershipInit ==
    /\ up = Nodes
    /\ inc = [n \in Nodes |-> 1]
    /\ view = [n \in Nodes |-> [p \in Nodes |-> IF p = n THEN Unknown ELSE Alive(1)]]
    /\ gossip = [n \in Nodes |-> [p \in Nodes |-> 0]]
    /\ links = {{n, m} : n, m \in Nodes} \ {{n} : n \in Nodes}
    /\ chan = [n \in Nodes |-> [m \in Nodes |-> <<>>]]
    /\ top = [n \in Nodes |-> 1]
    /\ faultCount = 0

-----------------------------------------------------------------------------
(* The table of a node.                                                    *)

\* What n says of p.  Every change of an entry enqueues it, and the newest
\* fact replaces older ones, so a queued update is always the entry itself.
Fact(n, p) ==
    LET e == IF p = n THEN Alive(inc[n]) ELSE view[n][p]
    IN  [id |-> p, state |-> e.state, inc |-> e.inc]

Listed(n) == {p \in Nodes : p = n \/ view[n][p] # Unknown}

FullState(n) == {Fact(n, p) : p \in Listed(n)}

\* merge, the acceptance rule: unknown, newer, or as new and worse.
Accepts(e, u) ==
    \/ e = Unknown
    \/ u.inc > e.inc
    \/ u.inc = e.inc /\ Precedence[u.state] > Precedence[e.state]

\* The claims about ourselves that merge refutes, had it overlooked those at
\* our own incarnation.
RefutedOlder(n, updates) ==
    {u \in updates : u.id = n /\ u.state # "Alive" /\ u.inc > inc[n]}

\* The claims about ourselves that merge refutes: not Alive, at our
\* incarnation or above.
Refuted(n, updates) ==
    {u \in updates : u.id = n /\ u.state # "Alive" /\ u.inc >= inc[n]}

\* merge, for each update of a frame: an entry becomes the news about it.  A
\* frame holds at most one update per member.
MergedEntry(n, p, updates) ==
    LET news == {u \in updates : u.id = p /\ p # n /\ Accepts(view[n][p], u)}
        new == CHOOSE u \in news : TRUE
    IN  IF news = {} THEN view[n][p] ELSE [state |-> new.state, inc |-> new.inc]

\* ... and we outbid the claim against us.
MergedInc(n, updates) ==
    LET bad == Refuted(n, updates)
    IN  IF bad = {} THEN inc[n] ELSE (CHOOSE u \in bad : TRUE).inc + 1

\* n's table becomes e, its incarnation i; enqueue: what changed is gossiped
\* afresh.
SetTable(n, e, i) ==
    /\ view' = [view EXCEPT ![n] = e]
    /\ inc' = [inc EXCEPT ![n] = i]
    /\ gossip' = [gossip EXCEPT ![n] = [p \in Nodes |->
                    IF e[p] # view[n][p] \/ (p = n /\ i # inc[n]) THEN Retransmit ELSE @[p]]]
    /\ top' = [top EXCEPT ![n] = IF i > @ THEN i ELSE @]

SetEntry(n, p, s) ==
    SetTable(n, [view[n] EXCEPT ![p] = [state |-> s, inc |-> @.inc]], inc[n])

Is(n, p, s) == view[n][p] # Unknown /\ view[n][p].state = s

-----------------------------------------------------------------------------
(* Sending.                                                                *)

Peers(n) == {m \in Nodes \ {n} : {n, m} \in links}

MayLose(k) == faultCount + k <= MaxFaults

\* One frame on every link of n; the queues in lost are full.
Broadcast(n, frame) ==
    \E lost \in SUBSET {m \in Peers(n) : {n, m} \in Shaky} :
        /\ MayLose(Cardinality(lost))
        /\ faultCount' = faultCount + Cardinality(lost)
        /\ chan' = [chan EXCEPT ![n] =
                      [m \in Nodes |-> IF m \in Peers(n) \ lost THEN Append(@[m], frame)
                                                                ELSE @[m]]]

Sync(reply, updates) == [kind |-> "sync", reply |-> reply, updates |-> updates]
Gossip(updates) == [kind |-> "gossip", updates |-> updates]
Digest(incs) == [kind |-> "digest", incs |-> incs]

\* Bound: the periodic frames find the links idle (their periods are 300 ms
\* and a second).
Quiet == \A m, n \in Nodes : chan[m][n] = <<>>

-----------------------------------------------------------------------------
(* The loops and handlers of a node.                                       *)

\* gossip_loop: take_piggyback sends ourselves and up to GossipMax - 1 queued
\* updates (the order of the queue is left open) and spends one retransmission
\* of each.
GossipTick(n) ==
    /\ n \in up /\ Quiet
    /\ \E taken \in SUBSET {p \in Nodes : gossip[n][p] > 0} :
        /\ \/ taken = {p \in Nodes : gossip[n][p] > 0} /\ Cardinality(taken) < GossipMax
           \/ Cardinality(taken) = GossipMax - 1
        /\ Broadcast(n, Gossip({Fact(n, p) : p \in taken \cup {n}}))
        /\ gossip' = [gossip EXCEPT ![n] =
                        [p \in Nodes |-> IF p \in taken THEN @[p] - 1 ELSE @[p]]]
    /\ UNCHANGED <<up, inc, view, top, links>>

\* build_digest: the incarnations of everyone we list; 0 is nobody's.
DigestOf(n) == [p \in Nodes |-> IF p \in Listed(n) THEN Fact(n, p).inc ELSE 0]

\* digest_loop.
DigestTick(n) ==
    /\ n \in up /\ Quiet
    /\ DigestLast => \A m \in up : \A p \in Nodes : gossip[m][p] = 0
    /\ Broadcast(n, Digest(DigestOf(n)))
    /\ UNCHANGED <<up, tableVars, links>>

\* apply, Sync: merged first, so that the answer already carries our
\* refutation.
DeliverSync(m, n) ==
    /\ chan[m][n] # <<>> /\ {m, n} \in links
    /\ LET f == Head(chan[m][n]) IN
        /\ f.kind = "sync"
        /\ SetTable(n, [p \in Nodes |-> MergedEntry(n, p, f.updates)], MergedInc(n, f.updates))
        /\ chan' = [chan EXCEPT ![m][n] = Tail(@),
                      ![n][m] = IF f.reply THEN Append(@, Sync(FALSE, FullState(n)')) ELSE @]
    /\ UNCHANGED <<up, links, faultCount>>

\* apply, Gossip.
DeliverGossip(m, n) ==
    /\ chan[m][n] # <<>> /\ {m, n} \in links
    /\ LET f == Head(chan[m][n]) IN
        /\ f.kind = "gossip"
        /\ SetTable(n, [p \in Nodes |-> MergedEntry(n, p, f.updates)], MergedInc(n, f.updates))
    /\ chan' = [chan EXCEPT ![m][n] = Tail(@)]
    /\ UNCHANGED <<up, links, faultCount>>

\* apply, Digest: what the peer lacks or holds at a lower incarnation.
DeliverDigest(m, n) ==
    /\ chan[m][n] # <<>> /\ {m, n} \in links
    /\ LET f == Head(chan[m][n])
           newer == {u \in FullState(n) : u.inc > f.incs[u.id]} IN
        /\ f.kind = "digest"
        /\ chan' = [chan EXCEPT ![m][n] = Tail(@),
                      ![n][m] = IF newer = {} THEN @ ELSE Append(@, Gossip(newer))]
    /\ UNCHANGED <<up, tableVars, links, faultCount>>

Deliver(m, n) == DeliverSync(m, n) \/ DeliverGossip(m, n) \/ DeliverDigest(m, n)

\* probe_loop, both rounds unanswered: suspect, for a peer that is gone or
\* that we fail to reach.
ProbeFails(n, p) ==
    /\ n \in up /\ Is(n, p, "Alive")
    /\ \/ p \notin up /\ UNCHANGED faultCount
       \/ /\ p \in up /\ {n, p} \in Shaky
          /\ MayLose(1) /\ faultCount' = faultCount + 1
    /\ SetEntry(n, p, "Suspect")
    /\ UNCHANGED <<up, links, chan>>

\* note_direct_ack that revives the dead too.
DirectAckAny(n, p) ==
    /\ {n, p} \subseteq up
    /\ Is(n, p, "Suspect") \/ Is(n, p, "Dead")
    /\ SetEntry(n, p, "Alive")
    /\ UNCHANGED <<up, links, chan, faultCount>>

\* note_direct_ack that refutes on the peer's behalf.
DirectAckBumps(n, p) ==
    /\ {n, p} \subseteq up
    /\ Is(n, p, "Suspect")
    /\ SetTable(n, [view[n] EXCEPT ![p] = Alive(@.inc + 1)], inc[n])
    /\ UNCHANGED <<up, links, chan, faultCount>>

\* note_direct_ack: a PING or an ACK from a running peer clears a suspicion at
\* the same incarnation.
DirectAck(n, p) ==
    /\ {n, p} \subseteq up
    /\ Is(n, p, "Suspect")
    /\ SetEntry(n, p, "Alive")
    /\ UNCHANGED <<up, links, chan, faultCount>>

\* expire_suspects, for a suspicion that has timed out.
Expire(n, p) ==
    /\ n \in up /\ Is(n, p, "Suspect")
    /\ SetEntry(n, p, "Dead")
    /\ UNCHANGED <<up, links, chan, faultCount>>

-----------------------------------------------------------------------------
(* Links and crashes.                                                      *)

\* dial_targets: seeds, and members with a lower id that are not Dead.
Dials(n, m) == m \in Seeds \/ (m < n /\ (Is(n, m, "Alive") \/ Is(n, m, "Suspect")))

\* A dial succeeds and both ends register: each pushes its full state and asks
\* for the peer's.
LinkUp(n, m) ==
    /\ n # m /\ {n, m} \subseteq up /\ {n, m} \notin links
    /\ Dials(n, m)
    /\ links' = links \cup {{n, m}}
    /\ chan' = [chan EXCEPT ![n][m] = <<Sync(TRUE, FullState(n))>>,
                            ![m][n] = <<Sync(TRUE, FullState(m))>>]
    /\ UNCHANGED <<up, tableVars, faultCount>>

\* Links close and their frames are lost; on_link_closed of the ends that run
\* suspects the peer.
Sever(pairs, running) ==
    LET hit(n, p) == n \in running /\ {n, p} \in pairs /\ Is(n, p, "Alive") IN
    /\ links' = links \ pairs
    /\ chan' = [n \in Nodes |-> [m \in Nodes |->
                  IF {n, m} \in pairs THEN <<>> ELSE chan[n][m]]]
    /\ view' = [n \in Nodes |-> [p \in Nodes |->
                  IF hit(n, p) THEN [view[n][p] EXCEPT !.state = "Suspect"] ELSE view[n][p]]]
    /\ gossip' = [n \in Nodes |-> [p \in Nodes |->
                    IF hit(n, p) THEN Retransmit ELSE gossip[n][p]]]
    /\ UNCHANGED <<inc, top>>

LinkDown(n, m) ==
    /\ n # m /\ {n, m} \in links \cap Shaky
    /\ MayLose(1) /\ faultCount' = faultCount + 1
    /\ Sever({{n, m}}, up)
    /\ UNCHANGED up

Crash(n) ==
    /\ n \in up \cap Mortal
    /\ MayLose(1) /\ faultCount' = faultCount + 1
    /\ up' = up \ {n}
    /\ Sever({p \in links : n \in p}, up \ {n})

\* The process starts again: Membership::new.
Restart(n) ==
    /\ n \notin up
    /\ up' = up \cup {n}
    /\ inc' = [inc EXCEPT ![n] = 1]
    /\ view' = [view EXCEPT ![n] = [p \in Nodes |-> Unknown]]
    /\ gossip' = [gossip EXCEPT ![n] = [p \in Nodes |-> 0]]
    /\ UNCHANGED <<links, chan, top, faultCount>>

-----------------------------------------------------------------------------
MembershipNext ==
    \/ \E n \in Nodes : GossipTick(n) \/ DigestTick(n) \/ Crash(n) \/ Restart(n)
    \/ \E m, n \in Nodes :
        \/ Deliver(m, n) \/ LinkUp(m, n) \/ LinkDown(m, n)
        \/ ProbeFails(m, n) \/ DirectAck(m, n) \/ Expire(m, n)

MembershipSpec == MembershipInit /\ [][MembershipNext]_membershipVars

\* The loops tick, readers read, a dial between running nodes succeeds, every
\* member is probed and suspicions time out.  Nothing is assumed of crashes,
\* restarts, losses or direct answers.
Fairness ==
    /\ \A n \in Nodes : SF_membershipVars(GossipTick(n))
    /\ WF_membershipVars(\E m, n \in Nodes : Deliver(m, n))
    /\ WF_membershipVars(\E n, p \in Nodes :
          LinkUp(n, p) \/ (p \notin up /\ ProbeFails(n, p)) \/ Expire(n, p))

MembershipFairSpec == MembershipSpec /\ Fairness

-----------------------------------------------------------------------------
(* Properties.                                                             *)

MembershipFrame ==
    [kind : {"sync"}, reply : BOOLEAN, updates : SUBSET Update]
      \cup [kind : {"gossip"}, updates : SUBSET Update]
      \cup [kind : {"digest"}, incs : [Nodes -> Nat]]

\* Every variable has its type, and no node lists itself.
MembershipTypeOK ==
    /\ up \subseteq Nodes
    /\ inc \in [Nodes -> Nat] /\ top \in [Nodes -> Nat]
    /\ view \in [Nodes -> [Nodes -> Entry \cup {Unknown}]]
    /\ \A n \in Nodes : view[n][n] = Unknown
    /\ gossip \in [Nodes -> [Nodes -> 0..Retransmit]]
    /\ links \subseteq SUBSET Nodes
    /\ chan \in [Nodes -> [Nodes -> Seq(MembershipFrame)]]
    /\ faultCount \in 0..MaxFaults

\* Only a node raises its own incarnation: no table holds a peer at an
\* incarnation the peer never had, through any exchange of syncs, gossip and
\* digest repairs, crashes included.  Otherwise a refutation could be outbid.
NoForgedIncarnation ==
    \A n, p \in Nodes : view[n][p] # Unknown => view[n][p].inc <= top[p]

KeepsVerdicts ==
    \A n \in up \cap up', p \in Nodes :
        view[n][p] # Unknown =>
          /\ view'[n][p] # Unknown
          /\ view'[n][p].inc >= view[n][p].inc
          /\ view[n][p].state = "Dead" /\ view'[n][p].inc = view[n][p].inc
               => view'[n][p].state = "Dead"

\* A claim of death only loses to a newer incarnation, and what a table holds
\* of a peer never goes back to an older one, in one life of its owner.
DeathNeedsRefutation == [][KeepsVerdicts]_membershipVars

\* The tables converge once the disturbances stop: every running node sees
\* every running node Alive (the heal gate's zero stuck entries) and every
\* crashed one Dead or not at all, and it stays so.
Converges ==
    <>[](\A n \in up : \A p \in Nodes \ {n} :
           IF p \in up THEN view[n][p] # Unknown /\ view[n][p].state = "Alive"
                       ELSE view[n][p] = Unknown \/ view[n][p].state = "Dead")
=============================================================================
