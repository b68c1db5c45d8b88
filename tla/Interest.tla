------------------------------ MODULE Interest ------------------------------
(***************************************************************************)
(* Interest routing between the nodes of a cluster: interest.rs, with the  *)
(* parts of node.rs that carry it (on_inbound, register, interest_loop,    *)
(* set_local_interest).                                                    *)
(*                                                                         *)
(* A node advertises the rooms and users it hosts.  Transitions travel as  *)
(* edges on lossy FIFO links, numbered per origin; a digest every second   *)
(* is answered with snapshots.  SWIM's verdict on a peer is an input here: *)
(* a closed link suspects the peer, a probe answer or a refutation revives *)
(* it.  A link comes up for both ends in one step; the dial and accept     *)
(* races are in Links.                                                     *)
(***************************************************************************)
EXTENDS Naturals, Sequences, FiniteSets, Functions

CONSTANTS
    Nodes,      \* node ids
    Hosts,      \* the nodes whose hosting changes
    Targets,    \* rooms and users
    Changes,    \* bound: <<k, target, hosting>>, what the k-th transition may be
    None,       \* no entry for an origin
    MaxEdges,   \* bound: transitions in one behaviour
    Shaky,      \* the links that lose frames, close or are suspected over
    MaxFaults   \* bound: lost frames, cut links, suspicions, crashes

ASSUME InterestAssumption ==
    /\ IsFiniteSet(Nodes) /\ Hosts \subseteq Nodes /\ Shaky \subseteq SUBSET Nodes
    /\ Changes \subseteq Nat \X Targets \X BOOLEAN
    /\ MaxEdges \in Nat /\ MaxFaults \in Nat
    /\ None \notin [seq : Nat, set : SUBSET Targets]

VARIABLES
    up,         \* the nodes that are running
    local,      \* node -> its own seq and hosted targets
    remote,     \* node -> origin -> what it knows of the origin, or None
    alive,      \* node -> the peers its member table shows Alive
    links,      \* the linked pairs
    chan,       \* node -> node -> frames on the way
    unsent,     \* node -> edges taken from local_set and not yet broadcast
    hist,       \* history: node -> hosted targets after each transition
    lossy,      \* history: an edge was lost, overtaken or lost its base
    edges,      \* transitions so far
    restarted,  \* history: the nodes that have lived twice
    faults      \* disturbances so far

ownVars == <<local, unsent, hist, edges>>
vars == <<up, local, remote, alive, links, chan, unsent, hist, edges, lossy, restarted,
          faults>>

Entry == [seq : Nat, set : SUBSET Targets]

Edge(o, s, add, t) == [kind |-> "edge", origin |-> o, seq |-> s, add |-> add, target |-> t]
Snapshot(o, e) == [kind |-> "snapshot", origin |-> o, seq |-> e.seq, set |-> e.set]
Digest(d) == [kind |-> "digest", of |-> d]

Peers(n) == {m \in Nodes : {n, m} \in links /\ m # n}

Nothing == [seq |-> 0, set |-> {}]

NoTraffic == [n \in Nodes |-> [m \in Nodes |-> <<>>]]

\* A cluster that has just formed: every pair is linked, nobody hosts.
Init ==
    /\ up = Nodes
    /\ local = [n \in Nodes |-> Nothing]
    /\ remote = [n \in Nodes |-> [o \in Nodes |-> IF o = n THEN None ELSE Nothing]]
    /\ alive = [n \in Nodes |-> Nodes \ {n}]
    /\ links = {{n, m} : n, m \in Nodes} \ {{n} : n \in Nodes}
    /\ chan = NoTraffic
    /\ unsent = [n \in Nodes |-> {}]
    /\ hist = [n \in Nodes |-> <<{}>>]
    /\ edges = 0
    /\ lossy = FALSE /\ restarted = {}
    /\ faults = 0

-----------------------------------------------------------------------------
(* Sending: try_send on a link drops the newest frame when the peer's      *)
(* queue is full.                                                          *)

MayLose(k) == faults + k <= MaxFaults

ShakyPeers(n) == {m \in Peers(n) : {n, m} \in Shaky}

\* broadcast_frame: one frame on every link of n; the queues in lost are full.
Broadcast(n, frame, lost) ==
    /\ MayLose(Cardinality(lost))
    /\ chan' = [chan EXCEPT ![n] =
                  [m \in Nodes |-> IF m \in Peers(n) \ lost THEN Append(@[m], frame)
                                                            ELSE @[m]]]
    /\ faults' = faults + Cardinality(lost)

-----------------------------------------------------------------------------
(* Local interest.                                                         *)

\* local_set with no check that the set changed.
LocalSetAlways(n, t, hosting) ==
    /\ n \in up \cap Hosts
    /\ edges < MaxEdges /\ edges' = edges + 1
    /\ LET set == IF hosting THEN local[n].set \cup {t} ELSE local[n].set \ {t} IN
        /\ local' = [local EXCEPT ![n] = [seq |-> IF set = local[n].set THEN @.seq
                                                  ELSE @.seq + 1, set |-> set]]
        /\ unsent' = [unsent EXCEPT ![n] = @ \cup {Edge(n, local[n].seq, hosting, t)}]
        /\ hist' = [hist EXCEPT ![n] = IF set = local[n].set THEN @ ELSE Append(@, set)]
    /\ UNCHANGED <<up, remote, alive, links, chan, lossy, restarted, faults>>

\* local_set: a transition takes the next seq and an edge to disseminate; a
\* call that changes nothing does nothing.
LocalSet(n, t, hosting) ==
    /\ n \in up \cap Hosts
    /\ edges < MaxEdges /\ edges' = edges + 1
    /\ (t \in local[n].set) # hosting
    /\ LET set == IF hosting THEN local[n].set \cup {t} ELSE local[n].set \ {t} IN
        /\ local' = [local EXCEPT ![n] = [seq |-> @.seq + 1, set |-> set]]
        /\ unsent' = [unsent EXCEPT ![n] = @ \cup {Edge(n, local[n].seq + 1, hosting, t)}]
        /\ hist' = [hist EXCEPT ![n] = Append(@, set)]
    /\ UNCHANGED <<up, remote, alive, links, chan, lossy, restarted, faults>>

\* The rest of set_local_interest, after the lock is released: the edge goes
\* to every link.  A second thread may be between the two, so a later edge can
\* overtake an earlier one.
Publish(n) ==
    /\ n \in up
    /\ \E e \in unsent[n], lost \in SUBSET ShakyPeers(n) :
        /\ Broadcast(n, e, lost)
        /\ unsent' = [unsent EXCEPT ![n] = @ \ {e}]
        /\ lossy' = (lossy \/ lost # {} \/ \E f \in unsent[n] : f.seq < e.seq)
    /\ UNCHANGED <<up, local, remote, alive, links, hist, edges, restarted>>

-----------------------------------------------------------------------------
(* Applying what arrives.                                                  *)

KnownSeq(e) == IF e = None THEN 0 ELSE e.seq
Known(e) == IF e = None THEN {} ELSE e.set

\* apply_edge: the entry the edge leaves.  entry().or_default() creates one
\* even for an edge that is dropped as not newer.
ApplyEdge(n, e) ==
    LET o == remote[n][e.origin] IN
    IF e.seq <= KnownSeq(o)
      THEN [seq |-> KnownSeq(o), set |-> Known(o)]
      ELSE [seq |-> e.seq,
            set |-> IF e.add THEN Known(o) \cup {e.target} ELSE Known(o) \ {e.target}]

\* apply_snapshot: at the same seq too, the origin repairing a divergence.
ApplySnapshot(n, s) ==
    LET o == remote[n][s.origin] IN
    IF o = None \/ s.seq >= KnownSeq(o) THEN [seq |-> s.seq, set |-> s.set] ELSE o

\* The order of a map's iteration is any.
InAnyOrder(S) == Bijection(1..Cardinality(S), S)

OwnAnswer(n, differs) == IF differs THEN <<Snapshot(n, local[n])>> ELSE <<>>

\* Other origins' entries go out where we are ahead.
AheadOf(n, d) ==
    {Snapshot(o, remote[n][o]) : o \in
        {q \in Nodes \ {n} : remote[n][q] # None /\ remote[n][q].seq > KnownSeq(d[q])}}

\* respond_to_digest with the hash left out of the comparison.
RespondBySeq(n, d) ==
    LET differs == IF d[n] = None THEN local[n].set # {} \/ local[n].seq > 0
                   ELSE d[n].seq # local[n].seq
    IN  {OwnAnswer(n, differs) \o others : others \in InAnyOrder(AheadOf(n, d))}

\* respond_to_digest: our own entry when it differs at all (the set stands for
\* its hash), another origin's when we are ahead.
RespondToDigest(n, d) ==
    LET differs == IF d[n] = None THEN local[n].set # {} \/ local[n].seq > 0
                   ELSE d[n] # local[n]
    IN  {OwnAnswer(n, differs) \o others : others \in InAnyOrder(AheadOf(n, d))}

Arrived(m, n) == {m, n} \in links /\ chan[m][n] # <<>>

\* on_inbound, INTEREST: an update about ourselves is ignored.
DeliverUpdate(m, n) ==
    /\ Arrived(m, n)
    /\ LET f == Head(chan[m][n]) IN
        /\ f.kind \in {"edge", "snapshot"}
        /\ remote' = IF f.origin = n THEN remote
                     ELSE [remote EXCEPT ![n][f.origin] =
                             IF f.kind = "edge" THEN ApplyEdge(n, f) ELSE ApplySnapshot(n, f)]
    /\ chan' = [chan EXCEPT ![m][n] = Tail(@)]
    /\ UNCHANGED <<up, alive, links, ownVars, lossy, restarted, faults>>

\* on_inbound, INTEREST_DIGEST: the answers go back on the same link, the last
\* k of them lost at a full queue.
DeliverDigest(m, n) ==
    /\ Arrived(m, n)
    /\ LET f == Head(chan[m][n]) IN
        /\ f.kind = "digest"
        /\ \E answer \in RespondToDigest(n, f.of) :
           \E k \in IF {m, n} \in Shaky THEN 0..Len(answer) ELSE {0} :
            /\ MayLose(k)
            /\ faults' = faults + k
            /\ chan' = [chan EXCEPT ![m][n] = Tail(@),
                                    ![n][m] = @ \o SubSeq(answer, 1, Len(answer) - k)]
            /\ lossy' = (lossy \/ k > 0)
    /\ UNCHANGED <<up, remote, alive, links, ownVars, restarted>>

-----------------------------------------------------------------------------
(* The interest loop.                                                      *)

\* interest_loop: origins that are not Alive are swept ...
Swept(n) == [o \in Nodes |-> IF o \in alive[n] THEN remote[n][o] ELSE None]

\* Bound: a digest finds the links idle (its period is a second).
Quiet == \A m, n \in Nodes : chan[m][n] = <<>>

\* ... and the digest of what is left goes to every link.
Tick(n) ==
    /\ n \in up /\ Quiet
    /\ remote' = [remote EXCEPT ![n] = Swept(n)]
    /\ lossy' = (lossy \/ \E o \in Nodes : Swept(n)[o] # remote[n][o])
    /\ \E lost \in SUBSET ShakyPeers(n) :
         Broadcast(n, Digest([Swept(n) EXCEPT ![n] = local[n]]), lost)
    /\ UNCHANGED <<up, alive, links, ownVars, restarted>>

-----------------------------------------------------------------------------
(* Links, SWIM's verdicts, crashes.                                        *)

\* register on both ends: each pushes a snapshot of its own interest, after
\* the membership Sync that shows it Alive.
LinkUp(n, m) ==
    /\ n # m /\ {n, m} \subseteq up /\ {n, m} \notin links
    /\ links' = links \cup {{n, m}}
    /\ chan' = [chan EXCEPT ![n][m] = <<Snapshot(n, local[n])>>,
                            ![m][n] = <<Snapshot(m, local[m])>>]
    /\ alive' = [alive EXCEPT ![n] = @ \cup {m}, ![m] = @ \cup {n}]
    /\ UNCHANGED <<up, remote, ownVars, lossy, restarted, faults>>

\* Every link of the nodes in S closes: the frames on it are gone and the
\* other end suspects its peer.
Sever(pairs) ==
    /\ links' = links \ pairs
    /\ chan' = [n \in Nodes |-> [m \in Nodes |->
                  IF {n, m} \in pairs THEN <<>> ELSE chan[n][m]]]
    /\ alive' = [n \in Nodes |-> {m \in alive[n] : {n, m} \notin pairs}]

LinkDown(n, m) ==
    /\ {n, m} \in links \cap Shaky
    /\ MayLose(1) /\ faults' = faults + 1
    /\ Sever({{n, m}})
    /\ UNCHANGED <<up, remote, ownVars, lossy, restarted>>

\* A probe of a running peer fails: suspect.
Suspect(n, m) ==
    /\ n \in up /\ m \in alive[n] \cap up /\ {n, m} \in Shaky
    /\ MayLose(1) /\ faults' = faults + 1
    /\ alive' = [alive EXCEPT ![n] = @ \ {m}]
    /\ UNCHANGED <<up, remote, links, chan, ownVars, lossy, restarted>>

\* A probe answer or a refutation: a running peer is Alive again.
Revive(n, m) ==
    /\ {n, m} \in links /\ m \notin alive[n]
    /\ alive' = [alive EXCEPT ![n] = @ \cup {m}]
    /\ UNCHANGED <<up, remote, links, chan, ownVars, lossy, restarted, faults>>

PairsOf(n) == {p \in links : n \in p}

Crash(n) ==
    /\ n \in up /\ n \in Hosts
    /\ MayLose(1) /\ faults' = faults + 1
    /\ up' = up \ {n}
    /\ Sever(PairsOf(n))
    /\ local' = [local EXCEPT ![n] = Nothing]
    /\ hist' = [hist EXCEPT ![n] = <<{}>>]
    /\ remote' = [remote EXCEPT ![n] = [o \in Nodes |-> None]]
    /\ unsent' = [unsent EXCEPT ![n] = {}]
    /\ lossy' = TRUE
    /\ UNCHANGED <<edges, restarted>>

\* The process starts again: InterestState::new, seq 0.
Restart(n) ==
    /\ n \notin up
    /\ up' = up \cup {n}
    /\ restarted' = restarted \cup {n}
    /\ UNCHANGED <<remote, alive, links, chan, ownVars, lossy, faults>>

-----------------------------------------------------------------------------
Next ==
    \/ \E n \in Nodes, c \in Changes : c[1] = edges + 1 /\ LocalSet(n, c[2], c[3])
    \/ \E n \in Nodes : Publish(n) \/ Tick(n) \/ Crash(n) \/ Restart(n)
    \/ \E m, n \in Nodes :
        \/ DeliverUpdate(m, n) \/ DeliverDigest(m, n)
        \/ LinkUp(m, n) \/ LinkDown(m, n) \/ Suspect(m, n) \/ Revive(m, n)

Spec == Init /\ [][Next]_vars

\* The loops tick, readers read, dials to running peers succeed in the end and
\* a running, linked peer answers a probe.
Fairness ==
    /\ \A n \in Nodes : SF_vars(Tick(n))
    /\ WF_vars(\E m, n \in Nodes : DeliverUpdate(m, n) \/ DeliverDigest(m, n))
    /\ WF_vars(\E m, n \in Nodes : Publish(n) \/ LinkUp(m, n) \/ Revive(m, n))

FairSpec == Spec /\ Fairness

-----------------------------------------------------------------------------
(* Properties.                                                             *)

Frame ==
    [kind : {"edge"}, origin : Nodes, seq : Nat, add : BOOLEAN, target : Targets]
      \cup [kind : {"snapshot"}, origin : Nodes, seq : Nat, set : SUBSET Targets]
      \cup [kind : {"digest"}, of : [Nodes -> Entry \cup {None}]]

\* Every variable has its type; nothing is on the way between nodes that have
\* no link.
TypeOK ==
    /\ up \subseteq Nodes /\ restarted \subseteq Nodes
    /\ local \in [Nodes -> Entry]
    /\ remote \in [Nodes -> [Nodes -> Entry \cup {None}]]
    /\ alive \in [Nodes -> SUBSET Nodes]
    /\ links \subseteq SUBSET Nodes
    /\ chan \in [Nodes -> [Nodes -> Seq(Frame)]]
    /\ unsent \in [Nodes -> SUBSET Frame]
    /\ lossy \in BOOLEAN
    /\ faults \in 0..MaxFaults /\ edges \in 0..MaxEdges

\* apply_edge and apply_snapshot together: as long as no edge was lost,
\* overtaken or left without its base, what a node knows of an origin is
\* exactly what the origin hosted at that seq, through cut links, re-syncs and
\* snapshots forwarded by third nodes.
ExactUntilLoss ==
    ~lossy => \A n, o \in Nodes :
        remote[n][o] # None =>
          /\ remote[n][o].seq + 1 \in DOMAIN hist[o]
          /\ remote[n][o].set = hist[o][remote[n][o].seq + 1]

Agrees(n, o) == Known(remote[n][o]) = local[o].set

Leftover(n, o) == o \in restarted /\ KnownSeq(remote[n][o]) > local[o].seq

\* The digest is the self-healing net: once the disturbances stop, every view
\* comes to equal what its origin hosts and stays so, whatever was lost,
\* overtaken or swept; except for an entry left over from an earlier life of
\* the origin at a higher seq.
Heals == <>[](\A n, o \in Nodes : n # o /\ {n, o} \subseteq up => Agrees(n, o) \/ Leftover(n, o))

\* What interest.rs says of the sweep: a Dead node's interest never lingers.
DeadInterestSwept ==
    <>[](\A n \in up : \A o \in Nodes \ up : remote[n][o] = None)
=============================================================================
