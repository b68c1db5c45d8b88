--------------------------- MODULE InterestProofs ---------------------------
(***************************************************************************)
(* Proofs about Interest for any set of nodes and targets: as long as no   *)
(* edge was lost, overtaken or swept from under, every view is exactly     *)
(* what its origin hosted at that seq.                                     *)
(***************************************************************************)
EXTENDS Interest, TLAPS

\* The record of an origin's past and its present say the same.
HistFacts ==
    /\ hist \in [Nodes -> Seq(SUBSET Targets)]
    /\ \A o \in Nodes : /\ Len(hist[o]) = local[o].seq + 1
                        /\ hist[o][local[o].seq + 1] = local[o].set

\* In the past h, an origin hosted set at seq s.
IsPast(h, s, set) == s < Len(h) /\ set = h[s + 1]

\* In the past h, the edge e is a transition.
IsTransition(h, e) ==
    /\ e.seq # 0 /\ e.seq < Len(h)
    /\ h[e.seq + 1] = IF e.add THEN h[e.seq] \cup {e.target} ELSE h[e.seq] \ {e.target}

UnsentFacts ==
    \A o \in Nodes : \A e \in unsent[o] :
        e.kind = "edge" /\ e.origin = o /\ IsTransition(hist[o], e)

\* The frame f from m is true of the past h of the nodes.  An edge travels
\* from its origin only; a snapshot may come from a third node.
TrueOf(f, m, h) ==
    /\ f.kind = "edge" => f.origin = m /\ IsTransition(h[m], f)
    /\ f.kind = "snapshot" => IsPast(h[f.origin], f.seq, f.set)

FrameFacts ==
    \A m, n \in Nodes : \A i \in DOMAIN chan[m][n] : TrueOf(chan[m][n][i], m, hist)

ViewFacts ==
    \A n, o \in Nodes :
        /\ remote[n][o] # None => IsPast(hist[o], remote[n][o].seq, remote[n][o].set)
        /\ n # o => remote[n][o] # None

\* Who knows of the origin o what it hosted at seq r is brought to seq s or
\* above by the first k frames of q.
Brings(q, k, o, r, s) ==
    r >= s \/ \E i \in 1..k : /\ q[i].kind \in {"edge", "snapshot"} /\ q[i].origin = o
                              /\ q[i].seq >= s

\* Every edge in q finds its base when it arrives.
BasesFirst(q, o, r) ==
    \A i \in DOMAIN q : q[i].kind = "edge" => Brings(q, i - 1, o, r, q[i].seq - 1)

BaseFirst == \A o, n \in Nodes : o # n => BasesFirst(chan[o][n], o, remote[n][o].seq)

\* Each transition of o up to top is in q, if its edge is not among those held.
AllBrought(q, o, r, top, held) ==
    \A s \in 0..top : (\E e \in held : e.seq = s) \/ Brings(q, Len(q), o, r, s)

\* A linked peer has, or is being sent, every transition whose edge is out.
Covered ==
    \A o, n \in Nodes : o # n /\ {o, n} \in links
        => AllBrought(chan[o][n], o, remote[n][o].seq, local[o].seq, unsent[o])

Faithful == UnsentFacts /\ FrameFacts /\ ViewFacts /\ BaseFirst /\ Covered

NoSelfLink == \A n \in Nodes : {n, n} \notin links

\* The inductive invariant.
IInv == TypeOK /\ NoSelfLink /\ HistFacts /\ (~lossy => Faithful)

-----------------------------------------------------------------------------
(* Sequences, by position.                                                 *)

\* What Append does.
LEMMA AppendFacts ==
    ASSUME NEW S, NEW s \in Seq(S), NEW x \in S
    PROVE  /\ Append(s, x) \in Seq(S)
           /\ Len(s) \in Nat
           /\ Len(Append(s, x)) = Len(s) + 1
           /\ DOMAIN s = 1..Len(s)
           /\ DOMAIN Append(s, x) = 1..(Len(s) + 1)
           /\ \A i \in 1..Len(s) : Append(s, x)[i] = s[i]
           /\ Append(s, x)[Len(s) + 1] = x
    OBVIOUS

\* What Head and Tail do.
LEMMA TailFacts ==
    ASSUME NEW S, NEW s \in Seq(S), s # <<>>
    PROVE  /\ Tail(s) \in Seq(S)
           /\ Head(s) \in S /\ Head(s) = s[1]
           /\ Len(s) \in Nat \ {0}
           /\ Len(Tail(s)) = Len(s) - 1
           /\ DOMAIN s = 1..Len(s)
           /\ DOMAIN Tail(s) = 1..(Len(s) - 1)
           /\ \A i \in 1..(Len(s) - 1) : Tail(s)[i] = s[i + 1]
    OBVIOUS

\* What concatenation does.
LEMMA ConcatFacts ==
    ASSUME NEW S, NEW s \in Seq(S), NEW t \in Seq(S)
    PROVE  /\ s \o t \in Seq(S)
           /\ Len(s) \in Nat /\ Len(t) \in Nat
           /\ Len(s \o t) = Len(s) + Len(t)
           /\ DOMAIN (s \o t) = 1..(Len(s) + Len(t))
           /\ \A i \in 1..Len(s) : (s \o t)[i] = s[i]
           /\ \A i \in (Len(s) + 1)..(Len(s) + Len(t)) :
                /\ i - Len(s) \in 1..Len(t)
                /\ (s \o t)[i] = t[i - Len(s)]
    OBVIOUS

\* A prefix of a sequence over S is one.
LEMMA PrefixFacts ==
    ASSUME NEW S, NEW s \in Seq(S), NEW k \in 0..Len(s)
    PROVE  SubSeq(s, 1, Len(s) - k) \in Seq(S)
    OBVIOUS

\* A sequence over S is one over every larger set.
LEMMA SeqMono ==
    ASSUME NEW S, NEW T, S \subseteq T, NEW s \in Seq(S)
    PROVE  s \in Seq(T)
    OBVIOUS

\* What is used of the theory of finite sets; FiniteFactsHold proves it.
FiniteFacts ==
    /\ \A S : IsFiniteSet(S) => Cardinality(S) \in Nat
    /\ \A S : \A T \in SUBSET S : IsFiniteSet(S) => IsFiniteSet(T) /\ Cardinality(T) <= Cardinality(S)
    /\ \A S, T : \A f \in Surjection(S, T) : IsFiniteSet(S) =>
          IsFiniteSet(T) /\ Cardinality(T) <= Cardinality(S)

\* The fields of a snapshot.
LEMMA SnapshotFields ==
    \A o, e : /\ Snapshot(o, e).kind = "snapshot" /\ Snapshot(o, e).origin = o
              /\ Snapshot(o, e).seq = e.seq /\ Snapshot(o, e).set = e.set
    BY DEF Snapshot

\* A finite set has a number of elements.
LEMMA FinCount == ASSUME FiniteFacts, NEW S, IsFiniteSet(S)
    PROVE  Cardinality(S) \in Nat
    BY Zenon DEF FiniteFacts

\* A part of a finite set is finite and no larger.
LEMMA FinSubset == ASSUME FiniteFacts, NEW S, IsFiniteSet(S), NEW T \in SUBSET S
    PROVE  IsFiniteSet(T) /\ Cardinality(T) <= Cardinality(S)
    BY Zenon DEF FiniteFacts

\* An image of a finite set is finite and no larger.
LEMMA FinImage == ASSUME FiniteFacts, NEW S, NEW T, NEW f \in Surjection(S, T), IsFiniteSet(S)
    PROVE  IsFiniteSet(T) /\ Cardinality(T) <= Cardinality(S)
    BY Zenon DEF FiniteFacts

\* A set of nodes is finite.
LEMMA NodeSets ==
    ASSUME FiniteFacts, NEW T \in SUBSET Nodes
    PROVE  IsFiniteSet(T) /\ Cardinality(T) \in Nat
    BY InterestAssumption, FinSubset, FinCount, Zenon

-----------------------------------------------------------------------------
(* What the operators of the model return.                                 *)

\* The frames the code builds are frames.
LEMMA FrameTypes ==
    /\ \A o \in Nodes, s \in Nat, add \in BOOLEAN, t \in Targets : Edge(o, s, add, t) \in Frame
    /\ \A o \in Nodes, e \in Entry : Snapshot(o, e) \in Frame
    /\ \A d \in [Nodes -> Entry \cup {None}] : Digest(d) \in Frame
<1>1. \A o \in Nodes, s \in Nat, add \in BOOLEAN, t \in Targets :
          Edge(o, s, add, t) \in [kind : {"edge"}, origin : Nodes, seq : Nat, add : BOOLEAN,
                                  target : Targets]
    BY DEF Edge
<1>2. \A o \in Nodes, e \in Entry :
          Snapshot(o, e) \in [kind : {"snapshot"}, origin : Nodes, seq : Nat,
                              set : SUBSET Targets]
    BY DEF Snapshot, Entry
<1>3. \A d \in [Nodes -> Entry \cup {None}] :
          Digest(d) \in [kind : {"digest"}, of : [Nodes -> Entry \cup {None}]]
    BY DEF Digest
<1>. QED
    BY <1>1, <1>2, <1>3, Zenon DEF Frame

\* The kind of a frame tells its fields.
LEMMA FrameKinds ==
    ASSUME NEW f \in Frame
    PROVE  /\ f.kind \in {"edge", "snapshot", "digest"}
           /\ f.kind = "edge" => /\ f.origin \in Nodes /\ f.seq \in Nat /\ f.add \in BOOLEAN
                                 /\ f.target \in Targets
           /\ f.kind = "snapshot" => f.origin \in Nodes /\ f.seq \in Nat /\ f.set \in SUBSET Targets
           /\ f.kind = "digest" => f.of \in [Nodes -> Entry \cup {None}]
    BY DEF Frame

\* What n may answer to a digest: its own interest, and what it knows of
\* the other origins.
Answers(n) ==
    {Snapshot(n, local[n])}
      \cup {Snapshot(o, remote[n][o]) : o \in {q \in Nodes \ {n} : remote[n][q] # None}}

\* respond_to_digest answers with snapshots of what the node itself holds,
\* whatever the digest says and in whatever order.
LEMMA RespondFacts ==
    ASSUME FiniteFacts, TypeOK, NEW n \in Nodes, NEW d, NEW answer \in RespondToDigest(n, d)
    PROVE  answer \in Seq(Answers(n))
<1>. DEFINE T == {q \in Nodes \ {n} : remote[n][q] # None /\ remote[n][q].seq > KnownSeq(d[q])}
            S == AheadOf(n, d)
            f == [o \in T |-> Snapshot(o, remote[n][o])]
<1>1. IsFiniteSet(T)
    BY NodeSets
<1>2. f \in Surjection(T, S)
  <2>1. \A o \in T : f[o] \in S
    BY Zenon DEF AheadOf
  <2>2. \A x \in S : \E o \in T : f[o] = x
    BY Zenon DEF AheadOf
  <2>3. f \in [T -> S]
    BY <2>1, Zenon
  <2>. HIDE DEF f, T, S
  <2>. QED
    BY <2>2, <2>3, Zenon DEF Surjection
<1>. HIDE DEF f, T
<1>3. Cardinality(S) \in Nat
  <2>. HIDE DEF S
  <2>1. IsFiniteSet(S)
    BY <1>1, <1>2, FinImage
  <2>. QED
    BY <2>1, FinCount
<1>4. S \subseteq Answers(n)
    BY Zenon DEF Answers, AheadOf
<1>. HIDE DEF S
<1>5. Snapshot(n, local[n]) \in Answers(n)
    BY DEF Answers
<1>6. \A differs : OwnAnswer(n, differs) \in Seq(Answers(n))
    BY <1>5 DEF OwnAnswer
<1>7. \A others \in InAnyOrder(S) : others \in [1..Cardinality(S) -> S]
    BY Zenon DEF InAnyOrder, Bijection, Injection
<1>8. \A others \in InAnyOrder(S) : others \in Seq(Answers(n))
    BY <1>3, <1>4, <1>7
<1>9. PICK differs, others : others \in InAnyOrder(S) /\ answer = OwnAnswer(n, differs) \o others
    BY Zenon DEF RespondToDigest, S
<1>10. OwnAnswer(n, differs) \in Seq(Answers(n)) /\ others \in Seq(Answers(n))
    BY <1>6, <1>8, <1>9
<1>. QED
    BY <1>9, <1>10, ConcatFacts

\* They are frames.
LEMMA AnswersTyped ==
    ASSUME TypeOK, NEW n \in Nodes
    PROVE  Answers(n) \subseteq Frame
<1>1. local[n] \in Entry
    BY DEF TypeOK
<1>2. \A o \in Nodes : remote[n][o] # None => remote[n][o] \in Entry
    BY DEF TypeOK
<1>. QED
    BY <1>1, <1>2, FrameTypes, Zenon DEF Answers

\* apply_edge and apply_snapshot leave an entry, never one at a lower seq, and
\* one at the frame's seq or above.
LEMMA ApplyFacts ==
    ASSUME TypeOK, NEW n \in Nodes, NEW f \in Frame, f.kind \in {"edge", "snapshot"}
    PROVE  LET e == IF f.kind = "edge" THEN ApplyEdge(n, f) ELSE ApplySnapshot(n, f)
               o == remote[n][f.origin]
           IN  /\ e \in Entry
               /\ e.seq >= f.seq
               /\ o # None => e.seq >= o.seq
               /\ f.kind = "snapshot" => (e.seq = f.seq /\ e.set = f.set) \/ e = o
               /\ f.kind = "edge" /\ o # None =>
                    IF f.seq <= o.seq THEN e.seq = o.seq /\ e.set = o.set
                    ELSE /\ e.seq = f.seq
                         /\ e.set = IF f.add THEN o.set \cup {f.target} ELSE o.set \ {f.target}
<1>. DEFINE o == remote[n][f.origin]
<1>1. f.origin \in Nodes /\ f.seq \in Nat
    BY FrameKinds
<1>2. o \in Entry \cup {None}
    BY <1>1 DEF TypeOK
<1>3. KnownSeq(o) \in Nat /\ Known(o) \in SUBSET Targets
    BY <1>2 DEF KnownSeq, Known, Entry
<1>4. o # None => KnownSeq(o) = o.seq /\ Known(o) = o.set
    BY Zenon DEF KnownSeq, Known
<1>. HIDE DEF o
<1>5. CASE f.kind = "edge"
  <2>1. f.target \in Targets /\ f.add \in BOOLEAN
    BY <1>5, FrameKinds
  <2>2. ApplyEdge(n, f) = IF f.seq <= KnownSeq(o) THEN [seq |-> KnownSeq(o), set |-> Known(o)]
                          ELSE [seq |-> f.seq, set |-> IF f.add THEN Known(o) \cup {f.target}
                                                        ELSE Known(o) \ {f.target}]
    BY DEF ApplyEdge, o
  <2>. QED
    BY <1>1, <1>2, <1>3, <1>4, <1>5, <2>1, <2>2, SMTT(30) DEF Entry, o
<1>6. CASE f.kind = "snapshot"
  <2>1. f.set \in SUBSET Targets
    BY <1>6, FrameKinds, Zenon
  <2>2. ApplySnapshot(n, f) = IF o = None \/ f.seq >= KnownSeq(o)
                                THEN [seq |-> f.seq, set |-> f.set] ELSE o
    BY DEF ApplySnapshot, o
  <2>. QED
    BY <1>1, <1>2, <1>3, <1>4, <1>6, <2>1, <2>2 DEF Entry, o
<1>. QED
    BY <1>5, <1>6

-----------------------------------------------------------------------------
(* Types.                                                                  *)

\* try_send to some of the links of n.
LEMMA BroadcastTypes ==
    ASSUME FiniteFacts, TypeOK, NEW n \in Nodes, NEW frame \in Frame,
           NEW lost \in SUBSET ShakyPeers(n), Broadcast(n, frame, lost)
    PROVE  /\ faults' \in 0..MaxFaults
           /\ chan' \in [Nodes -> [Nodes -> Seq(Frame)]]
           /\ \A m, k \in Nodes :
                chan'[m][k] = IF m = n /\ k \in Peers(n) \ lost THEN Append(chan[m][k], frame)
                              ELSE chan[m][k]
<1>1. Cardinality(lost) \in Nat
    BY NodeSets, Zenon DEF ShakyPeers, Peers
<1>2. faults' \in 0..MaxFaults
    BY <1>1, InterestAssumption DEF Broadcast, MayLose, TypeOK
<1>3. \A k \in Nodes : chan[n][k] \in Seq(Frame)
    BY DEF TypeOK
<1>4. \A k \in Nodes : Append(chan[n][k], frame) \in Seq(Frame)
    BY <1>3, AppendFacts
<1>5. chan' = [chan EXCEPT ![n] = [k \in Nodes |-> IF k \in Peers(n) \ lost
                                     THEN Append(chan[n][k], frame) ELSE chan[n][k]]]
    BY DEF Broadcast
<1>6. chan \in [Nodes -> [Nodes -> Seq(Frame)]]
    BY DEF TypeOK
<1>7. chan' \in [Nodes -> [Nodes -> Seq(Frame)]]
    BY <1>3, <1>4, <1>5, <1>6
<1>8. \A m, k \in Nodes :
         chan'[m][k] = IF m = n /\ k \in Peers(n) \ lost THEN Append(chan[m][k], frame)
                       ELSE chan[m][k]
    BY <1>5, <1>6, Zenon
<1>. QED
    BY <1>2, <1>7, <1>8, Zenon

\* Links that close.
LEMMA SeverTypes ==
    ASSUME TypeOK, NEW pairs, Sever(pairs)
    PROVE  /\ links' \subseteq SUBSET Nodes /\ alive' \in [Nodes -> SUBSET Nodes]
           /\ chan' \in [Nodes -> [Nodes -> Seq(Frame)]]
           /\ \A m, k \in Nodes : chan'[m][k] = IF {m, k} \in pairs THEN <<>> ELSE chan[m][k]
<1>1. \A m, k \in Nodes : chan[m][k] \in Seq(Frame)
    BY DEF TypeOK
<1>2. chan' = [m \in Nodes |-> [k \in Nodes |-> IF {m, k} \in pairs THEN <<>> ELSE chan[m][k]]]
    BY DEF Sever
<1>3. links' \subseteq SUBSET Nodes /\ alive' \in [Nodes -> SUBSET Nodes]
    BY DEF Sever, TypeOK
<1>4. <<>> \in Seq(Frame)
    OBVIOUS
<1>5. chan' \in [Nodes -> [Nodes -> Seq(Frame)]]
    BY <1>1, <1>2, <1>4, Zenon
<1>. QED
    BY <1>2, <1>3, <1>5

\* An update that arrives is taken off its link and leaves an entry.
LEMMA UpdateTypes ==
    ASSUME TypeOK, NEW m \in Nodes, NEW n \in Nodes, DeliverUpdate(m, n)
    PROVE  /\ chan[m][n] \in Seq(Frame) /\ chan[m][n] # <<>>
           /\ Head(chan[m][n]) \in Frame /\ Head(chan[m][n]).kind \in {"edge", "snapshot"}
           /\ chan' \in [Nodes -> [Nodes -> Seq(Frame)]]
           /\ \A a, b \in Nodes : chan'[a][b] = IF a = m /\ b = n THEN Tail(chan[m][n])
                                                ELSE chan[a][b]
           /\ remote' \in [Nodes -> [Nodes -> Entry \cup {None}]]
<1>. DEFINE c == chan[m][n]
            f == Head(c)
            e == IF f.kind = "edge" THEN ApplyEdge(n, f) ELSE ApplySnapshot(n, f)
<1>1. chan \in [Nodes -> [Nodes -> Seq(Frame)]] /\ remote \in [Nodes -> [Nodes -> Entry \cup {None}]]
    BY Zenon DEF TypeOK
<1>2. c \in Seq(Frame) /\ c # <<>>
    BY <1>1, Zenon DEF DeliverUpdate, Arrived
<1>3. f \in Frame /\ Tail(c) \in Seq(Frame)
    BY <1>2, TailFacts, Zenon
<1>4. f.kind \in {"edge", "snapshot"} /\ chan' = [chan EXCEPT ![m][n] = Tail(c)]
    BY Zenon DEF DeliverUpdate
<1>5. e \in Entry /\ f.origin \in Nodes
    BY <1>3, <1>4, ApplyFacts, FrameKinds, Zenon
<1>6. remote' = IF f.origin = n THEN remote ELSE [remote EXCEPT ![n][f.origin] = e]
    BY DEF DeliverUpdate
<1>. HIDE DEF c, f, e
<1>7. remote' \in [Nodes -> [Nodes -> Entry \cup {None}]]
    BY <1>1, <1>5, <1>6, Zenon
<1>8. /\ chan' \in [Nodes -> [Nodes -> Seq(Frame)]]
      /\ \A a, b \in Nodes : chan'[a][b] = IF a = m /\ b = n THEN Tail(c) ELSE chan[a][b]
    BY <1>1, <1>3, <1>4, Zenon
<1>. QED
    BY <1>2, <1>3, <1>4, <1>7, <1>8, Zenon DEF c, f

\* A digest that arrives is taken off its link, and some answers go back.
LEMMA DigestTypes ==
    ASSUME FiniteFacts, TypeOK, NoSelfLink, NEW m \in Nodes, NEW n \in Nodes, DeliverDigest(m, n)
    PROVE  /\ m # n /\ faults' \in 0..MaxFaults /\ lossy' \in BOOLEAN
           /\ chan[m][n] \in Seq(Frame) /\ chan[m][n] # <<>> /\ Head(chan[m][n]).kind = "digest"
           /\ chan' \in [Nodes -> [Nodes -> Seq(Frame)]]
           /\ \E t \in Seq(Answers(n)) : \A a, b \in Nodes :
                chan'[a][b] = IF a = m /\ b = n THEN Tail(chan[m][n])
                              ELSE IF a = n /\ b = m THEN chan[n][m] \o t ELSE chan[a][b]
<1>. DEFINE c == chan[m][n]
            f == Head(c)
<1>0. m # n
    BY Zenon DEF DeliverDigest, Arrived, NoSelfLink
<1>1. chan \in [Nodes -> [Nodes -> Seq(Frame)]]
    BY DEF TypeOK
<1>2. c \in Seq(Frame) /\ c # <<>>
    BY <1>1 DEF DeliverDigest, Arrived
<1>3. f \in Frame /\ Tail(c) \in Seq(Frame)
    BY <1>2, TailFacts, Zenon
<1>4. f.kind = "digest"
    BY DEF DeliverDigest
<1>5. PICK answer \in RespondToDigest(n, f.of) :
        \E k \in IF {m, n} \in Shaky THEN 0..Len(answer) ELSE {0} :
            /\ MayLose(k)
            /\ faults' = faults + k
            /\ chan' = [chan EXCEPT ![m][n] = Tail(@),
                                    ![n][m] = @ \o SubSeq(answer, 1, Len(answer) - k)]
            /\ lossy' = (lossy \/ k > 0)
    BY Zenon DEF DeliverDigest
<1>6. answer \in Seq(Answers(n))
    BY RespondFacts, Zenon
<1>7. PICK k \in 0..Len(answer) :
            /\ MayLose(k)
            /\ faults' = faults + k
            /\ chan' = [chan EXCEPT ![m][n] = Tail(@),
                                    ![n][m] = @ \o SubSeq(answer, 1, Len(answer) - k)]
            /\ lossy' = (lossy \/ k > 0)
  <2>1. 0 \in 0..Len(answer)
    BY <1>6
  <2>. QED
    BY <1>5, <2>1, Zenon
<1>. DEFINE t == SubSeq(answer, 1, Len(answer) - k)
<1>8. t \in Seq(Answers(n))
    BY <1>6, PrefixFacts
<1>9. t \in Seq(Frame)
  <2>. HIDE DEF t
  <2>. QED
    BY <1>8, AnswersTyped, SeqMono
<1>10. faults' \in 0..MaxFaults /\ lossy' \in BOOLEAN
    BY <1>6, <1>7, InterestAssumption DEF TypeOK, MayLose
<1>11. chan' = [chan EXCEPT ![m][n] = Tail(c), ![n][m] = chan[n][m] \o t]
    BY <1>0, <1>1, <1>7
<1>12. chan[n][m] \o t \in Seq(Frame)
  <2>. HIDE DEF t
  <2>1. chan[n][m] \in Seq(Frame)
    BY <1>1
  <2>. QED
    BY <1>9, <2>1, ConcatFacts
<1>. HIDE DEF t, c, f
<1>13. DOMAIN chan' = Nodes /\ chan' = [a \in Nodes |-> chan'[a]]
    BY <1>1, <1>11, Zenon
<1>14. chan[m] \in [Nodes -> Seq(Frame)] /\ chan[n] \in [Nodes -> Seq(Frame)]
    BY <1>1
<1>15. chan'[m] = [chan[m] EXCEPT ![n] = Tail(c)] /\ chan'[n] = [chan[n] EXCEPT ![m] = chan[n][m] \o t]
    BY <1>0, <1>1, <1>11, Zenon
<1>16. \A a \in Nodes \ {m, n} : chan'[a] = chan[a]
    BY <1>1, <1>11, Zenon
<1>17. \A a, b \in Nodes :
            chan'[a][b] = IF a = m /\ b = n THEN Tail(c)
                          ELSE IF a = n /\ b = m THEN chan[n][m] \o t ELSE chan[a][b]
    BY <1>0, <1>14, <1>15, <1>16, ZenonT(40)
<1>18. chan' \in [Nodes -> [Nodes -> Seq(Frame)]]
  <2>1. chan'[m] \in [Nodes -> Seq(Frame)] /\ chan'[n] \in [Nodes -> Seq(Frame)]
    BY <1>3, <1>12, <1>14, <1>15, ZenonT(40)
  <2>2. \A a \in Nodes : chan'[a] \in [Nodes -> Seq(Frame)]
    BY <1>1, <1>16, <2>1, Zenon
  <2>. QED
    BY <1>13, <2>2, Zenon
<1>. QED
    BY <1>0, <1>2, <1>4, <1>8, <1>10, <1>17, <1>18, Zenon DEF c, f

\* What n hosts after the transition.
SetAfter(n, t, hosting) == IF hosting THEN local[n].set \cup {t} ELSE local[n].set \ {t}

\* A transition of n takes the next seq, and the record of its past grows by it.
LEMMA LocalSetFacts ==
    ASSUME TypeOK, HistFacts, NEW n \in Nodes, NEW t \in Targets, NEW hosting \in BOOLEAN,
           LocalSet(n, t, hosting)
    PROVE  /\ SetAfter(n, t, hosting) \in SUBSET Targets
           /\ Edge(n, local[n].seq + 1, hosting, t) \in Frame
           /\ local' \in [Nodes -> Entry] /\ edges' \in 0..MaxEdges
           /\ unsent' \in [Nodes -> SUBSET Frame]
           /\ \A o \in Nodes \ {n} : /\ local'[o] = local[o] /\ hist'[o] = hist[o]
                                     /\ unsent'[o] = unsent[o]
           /\ local'[n].seq = local[n].seq + 1 /\ local'[n].set = SetAfter(n, t, hosting)
           /\ hist' = [hist EXCEPT ![n] = Append(hist[n], SetAfter(n, t, hosting))]
           /\ hist'[n] = Append(hist[n], SetAfter(n, t, hosting))
           /\ unsent'[n] = unsent[n] \cup {Edge(n, local[n].seq + 1, hosting, t)}
<1>. DEFINE set == SetAfter(n, t, hosting)
            e == Edge(n, local[n].seq + 1, hosting, t)
<1>1. local \in [Nodes -> Entry] /\ unsent \in [Nodes -> SUBSET Frame]
    BY DEF TypeOK
<1>2. local[n].seq \in Nat /\ local[n].set \in SUBSET Targets
    BY <1>1, Zenon DEF Entry
<1>3. set \in SUBSET Targets
    BY <1>2, Zenon DEF SetAfter
<1>4. local[n].seq + 1 \in Nat
    BY <1>2
<1>5. e \in Frame
    BY <1>4, FrameTypes, Zenon
<1>6. DOMAIN hist = Nodes
    BY Zenon DEF HistFacts
<1>7. /\ edges < MaxEdges /\ edges' = edges + 1
      /\ local' = [local EXCEPT ![n] = [seq |-> local[n].seq + 1, set |-> set]]
      /\ unsent' = [unsent EXCEPT ![n] = unsent[n] \cup {e}]
      /\ hist' = [hist EXCEPT ![n] = Append(hist[n], set)]
    BY Zenon DEF LocalSet, SetAfter
<1>. HIDE DEF set, e
<1>8. edges' \in 0..MaxEdges
    BY <1>7, InterestAssumption DEF TypeOK
<1>9. /\ local' \in [Nodes -> Entry] /\ local'[n].seq = local[n].seq + 1 /\ local'[n].set = set
      /\ \A o \in Nodes \ {n} : local'[o] = local[o]
    BY <1>1, <1>3, <1>4, <1>7, Zenon DEF Entry
<1>10. /\ unsent' \in [Nodes -> SUBSET Frame] /\ unsent'[n] = unsent[n] \cup {e}
       /\ \A o \in Nodes \ {n} : unsent'[o] = unsent[o]
    BY <1>1, <1>5, <1>7, Zenon
<1>11. /\ hist'[n] = Append(hist[n], set)
       /\ \A o \in Nodes \ {n} : hist'[o] = hist[o]
    BY <1>6, <1>7, Zenon
<1>. QED
    BY <1>3, <1>5, <1>7, <1>8, <1>9, <1>10, <1>11, Zenon DEF set, e

\* Publish takes an edge and gives it to the links.
LEMMA PublishFacts ==
    ASSUME TypeOK, NEW n \in Nodes, Publish(n)
    PROVE  \E e \in unsent[n], lost \in SUBSET ShakyPeers(n) :
             /\ Broadcast(n, e, lost) /\ e \in Frame
             /\ unsent' \in [Nodes -> SUBSET Frame]
             /\ unsent'[n] = unsent[n] \ {e}
             /\ \A o \in Nodes \ {n} : unsent'[o] = unsent[o]
             /\ lossy' \in BOOLEAN
             /\ ~lossy' => ~lossy /\ lost = {} /\ \A f \in unsent[n] : ~(f.seq < e.seq)
<1>1. PICK e \in unsent[n], lost \in SUBSET ShakyPeers(n) :
        /\ Broadcast(n, e, lost)
        /\ unsent' = [unsent EXCEPT ![n] = @ \ {e}]
        /\ lossy' = (lossy \/ lost # {} \/ \E f \in unsent[n] : f.seq < e.seq)
    BY Zenon DEF Publish
<1>2. unsent \in [Nodes -> SUBSET Frame] /\ lossy \in BOOLEAN
    BY DEF TypeOK
<1>3. e \in Frame
    BY <1>2, Zenon
<1>4. /\ unsent' \in [Nodes -> SUBSET Frame] /\ unsent'[n] = unsent[n] \ {e}
      /\ \A o \in Nodes \ {n} : unsent'[o] = unsent[o]
    BY <1>1, <1>2, Zenon
<1>5. lossy' \in BOOLEAN /\ (~lossy' => ~lossy /\ lost = {} /\ \A f \in unsent[n] : ~(f.seq < e.seq))
    BY <1>1, <1>2, Zenon
<1>. QED
    BY <1>1, <1>3, <1>4, <1>5, Zenon

\* A tick sweeps, and sends the digest of what is left.
LEMMA TickFacts ==
    ASSUME TypeOK, NEW n \in Nodes, Tick(n)
    PROVE  /\ remote' \in [Nodes -> [Nodes -> Entry \cup {None}]] /\ lossy' \in BOOLEAN
           /\ ~lossy' => ~lossy /\ \A k, o \in Nodes : remote'[k][o] = remote[k][o]
           /\ \E d \in [Nodes -> Entry \cup {None}], lost \in SUBSET ShakyPeers(n) :
                Broadcast(n, Digest(d), lost)
<1>1. remote \in [Nodes -> [Nodes -> Entry \cup {None}]] /\ lossy \in BOOLEAN /\ local[n] \in Entry
    BY Zenon DEF TypeOK
<1>2. Swept(n) \in [Nodes -> Entry \cup {None}]
    BY <1>1, Zenon DEF Swept
<1>3. remote' = [remote EXCEPT ![n] = Swept(n)]
    BY Zenon DEF Tick
<1>4. lossy' = (lossy \/ \E o \in Nodes : Swept(n)[o] # remote[n][o])
    BY Zenon DEF Tick
<1>5. remote' \in [Nodes -> [Nodes -> Entry \cup {None}]]
    BY <1>1, <1>2, <1>3, Zenon
<1>6. ASSUME ~lossy' PROVE ~lossy /\ \A k, o \in Nodes : remote'[k][o] = remote[k][o]
  <2>1. ~lossy /\ \A o \in Nodes : Swept(n)[o] = remote[n][o]
    BY <1>4, <1>6, Zenon
  <2>. QED
    BY <1>1, <1>3, <2>1, Zenon
<1>7. lossy' \in BOOLEAN
    BY <1>1, <1>4, Zenon
<1>8. [Swept(n) EXCEPT ![n] = local[n]] \in [Nodes -> Entry \cup {None}]
    BY <1>1, <1>2, Zenon
<1>9. \E lost \in SUBSET ShakyPeers(n) : Broadcast(n, Digest([Swept(n) EXCEPT ![n] = local[n]]), lost)
    BY Zenon DEF Tick
<1>. QED
    BY <1>5, <1>6, <1>7, <1>8, <1>9, Zenon

\* A new link starts with a snapshot of each end's own interest.
LEMMA LinkUpFacts ==
    ASSUME TypeOK, NEW n \in Nodes, NEW m \in Nodes, LinkUp(n, m)
    PROVE  /\ n # m /\ links' = links \cup {{n, m}}
           /\ links' \subseteq SUBSET Nodes /\ alive' \in [Nodes -> SUBSET Nodes]
           /\ chan' \in [Nodes -> [Nodes -> Seq(Frame)]]
           /\ \A a, b \in Nodes : chan'[a][b] = IF (a = n /\ b = m) \/ (a = m /\ b = n)
                                                THEN <<Snapshot(a, local[a])>>
                                                ELSE chan[a][b]
<1>1. chan \in [Nodes -> [Nodes -> Seq(Frame)]] /\ alive \in [Nodes -> SUBSET Nodes]
      /\ links \subseteq SUBSET Nodes /\ local \in [Nodes -> Entry]
    BY DEF TypeOK
<1>2. /\ n # m /\ links' = links \cup {{n, m}}
      /\ chan' = [chan EXCEPT ![n][m] = <<Snapshot(n, local[n])>>, ![m][n] = <<Snapshot(m, local[m])>>]
      /\ alive' = [alive EXCEPT ![n] = @ \cup {m}, ![m] = @ \cup {n}]
    BY DEF LinkUp
<1>3. alive' \in [Nodes -> SUBSET Nodes] /\ links' \subseteq SUBSET Nodes
    BY <1>1, <1>2, ZenonT(40)
<1>4. <<Snapshot(n, local[n])>> \in Seq(Frame) /\ <<Snapshot(m, local[m])>> \in Seq(Frame)
  <2>1. Snapshot(n, local[n]) \in Frame /\ Snapshot(m, local[m]) \in Frame
    BY <1>1, FrameTypes
  <2>. QED
    BY <2>1
<1>5. chan[m] \in [Nodes -> Seq(Frame)] /\ chan[n] \in [Nodes -> Seq(Frame)]
    BY <1>1
<1>6. /\ chan'[n] = [chan[n] EXCEPT ![m] = <<Snapshot(n, local[n])>>]
      /\ chan'[m] = [chan[m] EXCEPT ![n] = <<Snapshot(m, local[m])>>]
    BY <1>1, <1>2, Zenon
<1>7. \A a \in Nodes \ {m, n} : chan'[a] = chan[a]
    BY <1>1, <1>2, Zenon
<1>8. \A a, b \in Nodes : chan'[a][b] = IF (a = n /\ b = m) \/ (a = m /\ b = n)
                                         THEN <<Snapshot(a, local[a])>> ELSE chan[a][b]
  <2>1. \A b \in Nodes : chan'[n][b] = IF b = m THEN <<Snapshot(n, local[n])>> ELSE chan[n][b]
    BY <1>5, <1>6, Zenon
  <2>2. \A b \in Nodes : chan'[m][b] = IF b = n THEN <<Snapshot(m, local[m])>> ELSE chan[m][b]
    BY <1>5, <1>6, Zenon
  <2>. SUFFICES ASSUME NEW a \in Nodes, NEW b \in Nodes
               PROVE  chan'[a][b] = IF (a = n /\ b = m) \/ (a = m /\ b = n)
                                    THEN <<Snapshot(a, local[a])>> ELSE chan[a][b]
    OBVIOUS
  <2>3. CASE a = n
    BY <1>2, <2>1, <2>3, Zenon
  <2>4. CASE a = m
    BY <1>2, <2>2, <2>4, Zenon
  <2>5. CASE a \notin {m, n}
    BY <1>7, <2>5, Zenon
  <2>. QED
    BY <2>3, <2>4, <2>5, Zenon
<1>9. chan' \in [Nodes -> [Nodes -> Seq(Frame)]]
  <2>1. chan'[m] \in [Nodes -> Seq(Frame)] /\ chan'[n] \in [Nodes -> Seq(Frame)]
    BY <1>4, <1>5, <1>6, ZenonT(40)
  <2>2. \A a \in Nodes : chan'[a] \in [Nodes -> Seq(Frame)]
    BY <1>1, <1>7, <2>1, Zenon
  <2>3. DOMAIN chan' = Nodes /\ chan' = [a \in Nodes |-> chan'[a]]
    BY <1>1, <1>2, Zenon
  <2>. QED
    BY <2>2, <2>3, Zenon
<1>. QED
    BY <1>2, <1>3, <1>8, <1>9, Zenon

-----------------------------------------------------------------------------
(* Every view is exact, and stays so.                                      *)

\* More frames, and more that is known, bring no less.
LEMMA BringsMore ==
    ASSUME NEW c \in Seq(Frame), NEW d \in Seq(Frame), NEW k \in 0..Len(c), NEW j \in Nat,
           NEW o, NEW r \in Nat, NEW r2 \in Nat, NEW s \in Int, k <= j, r <= r2,
           \A i \in 1..Len(c) : d[i] = c[i], Brings(c, k, o, r, s)
    PROVE  Brings(d, j, o, r2, s)
<1>1. CASE r >= s
    BY <1>1 DEF Brings
<1>2. CASE \E i \in 1..k : c[i].kind \in {"edge", "snapshot"} /\ c[i].origin = o /\ c[i].seq >= s
  <2>1. PICK i \in 1..k : c[i].kind \in {"edge", "snapshot"} /\ c[i].origin = o /\ c[i].seq >= s
    BY <1>2, Zenon
  <2>2. i \in 1..j /\ d[i] = c[i]
    OBVIOUS
  <2>. QED
    BY <2>1, <2>2, Zenon DEF Brings
<1>. QED
    BY <1>1, <1>2, Zenon DEF Brings

\* When the first frame is read, what it brings is known.
LEMMA BringsTail ==
    ASSUME NEW c \in Seq(Frame), c # <<>>, NEW k \in 0..(Len(c) - 1), NEW o,
           NEW r \in Nat, NEW r2 \in Nat, NEW s \in Int, r <= r2,
           c[1].kind \in {"edge", "snapshot"} /\ c[1].origin = o => r2 >= c[1].seq,
           Brings(c, k + 1, o, r, s)
    PROVE  Brings(Tail(c), k, o, r2, s)
<1>1. CASE r >= s
    BY <1>1 DEF Brings
<1>2. CASE \E i \in 1..(k + 1) : /\ c[i].kind \in {"edge", "snapshot"} /\ c[i].origin = o
                                 /\ c[i].seq >= s
  <2>1. PICK i \in 1..(k + 1) : /\ c[i].kind \in {"edge", "snapshot"} /\ c[i].origin = o
                                /\ c[i].seq >= s
    BY <1>2, Zenon
  <2>2. CASE i = 1
    <3>1. c[1].seq \in Nat
      BY <2>1, <2>2, FrameKinds
    <3>. QED
      BY <2>1, <2>2, <3>1 DEF Brings
  <2>3. CASE i # 1
    <3>1. i - 1 \in 1..k /\ Tail(c)[i - 1] = c[i]
      BY <2>3, TailFacts
    <3>. QED
      BY <2>1, <3>1, Zenon DEF Brings
  <2>. QED
    BY <2>2, <2>3, Zenon
<1>. QED
    BY <1>1, <1>2, Zenon DEF Brings

\* Frames behind the others, none of them an edge.
LEMMA LinkExtended ==
    ASSUME NEW c \in Seq(Frame), NEW t \in Seq(Frame), NEW m, NEW r \in Nat, NEW top \in Nat,
           NEW held, \A i \in DOMAIN t : t[i].kind # "edge"
    PROVE  /\ BasesFirst(c, m, r) => BasesFirst(c \o t, m, r)
           /\ AllBrought(c, m, r, top, held) => AllBrought(c \o t, m, r, top, held)
<1>. DEFINE d == c \o t
<1>1. /\ d \in Seq(Frame) /\ Len(c) \in Nat /\ Len(t) \in Nat
      /\ Len(d) = Len(c) + Len(t)
      /\ DOMAIN d = 1..(Len(c) + Len(t)) /\ DOMAIN c = 1..Len(c) /\ DOMAIN t = 1..Len(t)
      /\ \A i \in 1..Len(c) : d[i] = c[i]
      /\ \A i \in (Len(c) + 1)..(Len(c) + Len(t)) : i - Len(c) \in 1..Len(t) /\ d[i] = t[i - Len(c)]
    BY ConcatFacts
<1>. HIDE DEF d
<1>2. ASSUME NEW i \in DOMAIN d, d[i].kind = "edge" PROVE i \in DOMAIN c /\ d[i] = c[i]
  <2>1. CASE i \in 1..Len(c)
    BY <1>1, <2>1, Zenon
  <2>2. CASE i \in (Len(c) + 1)..(Len(c) + Len(t))
    BY <1>1, <1>2, <2>2, Zenon
  <2>. QED
    BY <1>1, <2>1, <2>2
<1>3. ASSUME BasesFirst(c, m, r), NEW i \in DOMAIN d, d[i].kind = "edge"
      PROVE  Brings(d, i - 1, m, r, d[i].seq - 1)
  <2>1. i \in DOMAIN c /\ d[i] = c[i] /\ Brings(c, i - 1, m, r, c[i].seq - 1)
    BY <1>2, <1>3, Zenon DEF BasesFirst
  <2>2. c[i] \in Frame
    BY <2>1
  <2>3. c[i].seq - 1 \in Int
    BY <1>3, <2>1, <2>2, FrameKinds
  <2>4. i - 1 \in 0..Len(c) /\ i - 1 \in Nat /\ i - 1 <= i - 1 /\ r <= r
    BY <1>1, <2>1
  <2>. HIDE DEF Brings
  <2>. QED
    BY <1>1, <2>1, <2>3, <2>4, BringsMore, Zenon
<1>4. ASSUME AllBrought(c, m, r, top, held), NEW s \in 0..top
      PROVE  (\E e \in held : e.seq = s) \/ Brings(d, Len(d), m, r, s)
  <2>1. (\E e \in held : e.seq = s) \/ Brings(c, Len(c), m, r, s)
    BY <1>4, Zenon DEF AllBrought
  <2>2. Len(c) \in 0..Len(c) /\ Len(d) \in Nat /\ Len(c) <= Len(d) /\ r <= r /\ s \in Int
    BY <1>1
  <2>. QED
    BY <1>1, <2>1, <2>2, BringsMore, Zenon
<1>5. BasesFirst(c, m, r) => BasesFirst(d, m, r)
    BY <1>3, Zenon DEF BasesFirst
<1>6. AllBrought(c, m, r, top, held) => AllBrought(d, m, r, top, held)
    BY <1>4, Zenon DEF AllBrought
<1>. QED
    BY <1>5, <1>6, Zenon DEF d

\* The first frame is read, and what it brings is known from then on.
LEMMA LinkRead ==
    ASSUME NEW c \in Seq(Frame), c # <<>>, NEW m, NEW r \in Nat, NEW r2 \in Nat, r <= r2,
           c[1].kind \in {"edge", "snapshot"} /\ c[1].origin = m => r2 >= c[1].seq,
           NEW top \in Nat, NEW held
    PROVE  /\ BasesFirst(c, m, r) => BasesFirst(Tail(c), m, r2)
           /\ AllBrought(c, m, r, top, held) => AllBrought(Tail(c), m, r2, top, held)
<1>. DEFINE d == Tail(c)
<1>1. /\ Len(c) \in Nat \ {0} /\ d \in Seq(Frame) /\ DOMAIN c = 1..Len(c)
      /\ Len(d) = Len(c) - 1 /\ DOMAIN d = 1..(Len(c) - 1)
      /\ \A i \in 1..(Len(c) - 1) : d[i] = c[i + 1]
    BY TailFacts
<1>2. ASSUME BasesFirst(c, m, r), NEW i \in DOMAIN d, d[i].kind = "edge"
      PROVE  Brings(d, i - 1, m, r2, d[i].seq - 1)
  <2>. HIDE DEF d
  <2>1. /\ i + 1 \in DOMAIN c /\ (i + 1) - 1 = (i - 1) + 1 /\ i - 1 \in 0..(Len(c) - 1)
        /\ d[i] = c[i + 1] /\ d[i] \in Frame
    BY <1>1
  <2>2. Brings(c, (i + 1) - 1, m, r, c[i + 1].seq - 1)
    BY <1>2, <2>1, Zenon DEF BasesFirst
  <2>3. Brings(c, (i - 1) + 1, m, r, d[i].seq - 1)
    BY <2>1, <2>2, Zenon
  <2>4. d[i].seq - 1 \in Int
    BY <1>2, <2>1, FrameKinds
  <2>. QED
    BY <2>1, <2>3, <2>4, BringsTail, Zenon DEF d
<1>3. ASSUME AllBrought(c, m, r, top, held), NEW s \in 0..top
      PROVE  (\E e \in held : e.seq = s) \/ Brings(d, Len(d), m, r2, s)
  <2>. HIDE DEF d
  <2>1. (\E e \in held : e.seq = s) \/ Brings(c, Len(c), m, r, s)
    BY <1>3, Zenon DEF AllBrought
  <2>2. Len(d) \in 0..(Len(c) - 1) /\ Len(c) = Len(d) + 1 /\ s \in Int
    BY <1>1
  <2>3. (\E e \in held : e.seq = s) \/ Brings(c, Len(d) + 1, m, r, s)
    BY <2>1, <2>2, Zenon
  <2>. QED
    BY <2>2, <2>3, BringsTail, Zenon DEF d
<1>. HIDE DEF d
<1>4. BasesFirst(c, m, r) => BasesFirst(d, m, r2)
    BY <1>2, Zenon DEF BasesFirst
<1>5. AllBrought(c, m, r, top, held) => AllBrought(d, m, r2, top, held)
    BY <1>3, Zenon DEF AllBrought
<1>. QED
    BY <1>4, <1>5, Zenon DEF d

\* An edge whose base the link brings goes out, and is held no more.
LEMMA LinkSent ==
    ASSUME NEW c \in Seq(Frame), NEW m, NEW r \in Nat, NEW top \in Nat,
           NEW e \in Frame, e.kind = "edge", e.origin = m, NEW held
    PROVE  /\ BasesFirst(c, m, r) /\ Brings(c, Len(c), m, r, e.seq - 1)
                => BasesFirst(Append(c, e), m, r)
           /\ AllBrought(c, m, r, top, held) => AllBrought(Append(c, e), m, r, top, held \ {e})
<1>. DEFINE d == Append(c, e)
<1>1. /\ d \in Seq(Frame) /\ Len(c) \in Nat /\ DOMAIN c = 1..Len(c)
      /\ Len(d) = Len(c) + 1 /\ DOMAIN d = 1..(Len(c) + 1)
      /\ \A i \in 1..Len(c) : d[i] = c[i]
      /\ d[Len(c) + 1] = e
    BY AppendFacts
<1>2. e.seq \in Nat
    BY FrameKinds, Zenon
<1>. HIDE DEF d
<1>3. ASSUME BasesFirst(c, m, r), Brings(c, Len(c), m, r, e.seq - 1),
             NEW i \in DOMAIN d, d[i].kind = "edge"
      PROVE  Brings(d, i - 1, m, r, d[i].seq - 1)
  <2>1. Brings(c, i - 1, m, r, d[i].seq - 1)
    <3>1. CASE i = Len(c) + 1
      <4>1. i - 1 = Len(c) /\ d[i] = e
        BY <1>1, <3>1
      <4>. QED
        BY <1>3, <4>1, Zenon
    <3>2. CASE i # Len(c) + 1
      <4>1. i \in DOMAIN c /\ d[i] = c[i]
        BY <1>1, <3>2
      <4>. QED
        BY <1>3, <4>1, Zenon DEF BasesFirst
    <3>. QED
      BY <3>1, <3>2
  <2>2. d[i] \in Frame /\ i - 1 \in 0..Len(c) /\ i - 1 \in Nat /\ i - 1 <= i - 1 /\ r <= r
    BY <1>1
  <2>3. d[i].seq - 1 \in Int
    BY <1>3, <2>2, FrameKinds
  <2>. QED
    BY <1>1, <2>1, <2>2, <2>3, BringsMore, Zenon
<1>4. ASSUME AllBrought(c, m, r, top, held), NEW s \in 0..top
      PROVE  (\E f \in held \ {e} : f.seq = s) \/ Brings(d, Len(d), m, r, s)
  <2>1. (\E f \in held : f.seq = s) \/ Brings(c, Len(c), m, r, s)
    BY <1>4, Zenon DEF AllBrought
  <2>2. /\ Len(c) \in 0..Len(c) /\ Len(d) \in Nat /\ Len(c) <= Len(d) /\ r <= r /\ s \in Int
        /\ Len(c) + 1 \in 1..Len(d)
    BY <1>1
  <2>3. Brings(c, Len(c), m, r, s) => Brings(d, Len(d), m, r, s)
    BY <1>1, <2>2, BringsMore, Zenon
  <2>4. CASE e.seq = s
    <3>1. d[Len(c) + 1].seq >= s
      BY <1>1, <1>2, <2>4
    <3>. QED
      BY <1>1, <2>2, <3>1, Zenon DEF Brings
  <2>. QED
    BY <2>1, <2>3, <2>4, Zenon
<1>5. BasesFirst(c, m, r) /\ Brings(c, Len(c), m, r, e.seq - 1) => BasesFirst(d, m, r)
    BY <1>3, Zenon DEF BasesFirst
<1>6. AllBrought(c, m, r, top, held) => AllBrought(d, m, r, top, held \ {e})
    BY <1>4, Zenon DEF AllBrought
<1>. QED
    BY <1>5, <1>6, Zenon DEF d

\* A frame that can do no harm behind any other: a digest, or an exact
\* snapshot.
Calm(f) == f.kind # "edge" /\ (f.kind = "snapshot" => IsPast(hist[f.origin], f.seq, f.set))

\* What a step may do to a link that no edge is sent on or read from.
Harmless(m, n) ==
    \/ /\ {m, n} \in links' => {m, n} \in links
       /\ \/ chan'[m][n] = chan[m][n]
          \/ \E t \in Seq({f \in Frame : Calm(f)}) : chan'[m][n] = chan[m][n] \o t
          \/ /\ chan[m][n] # <<>> /\ Head(chan[m][n]).kind = "digest"
             /\ chan'[m][n] = Tail(chan[m][n])
    \/ chan'[m][n] = <<>> /\ {m, n} \notin links'
    \/ chan'[m][n] = <<Snapshot(m, local[m])>>

\* What the invariant says of one link.
LEMMA LinkFacts ==
    ASSUME TypeOK, Faithful, NEW m \in Nodes, NEW n \in Nodes
    PROVE  /\ chan[m][n] \in Seq(Frame) /\ local[m].seq \in Nat
           /\ \A i \in DOMAIN chan[m][n] : TrueOf(chan[m][n][i], m, hist)
           /\ m # n => /\ remote[n][m] \in Entry /\ remote[n][m].seq \in Nat
                       /\ BasesFirst(chan[m][n], m, remote[n][m].seq)
           /\ m # n /\ {m, n} \in links
                => AllBrought(chan[m][n], m, remote[n][m].seq, local[m].seq, unsent[m])
<1>1. chan[m][n] \in Seq(Frame) /\ local[m] \in Entry /\ remote[n][m] \in Entry \cup {None}
    BY DEF TypeOK
<1>2. \A i \in DOMAIN chan[m][n] : TrueOf(chan[m][n][i], m, hist)
    BY Zenon DEF Faithful, FrameFacts
<1>3. m # n => remote[n][m] # None /\ BasesFirst(chan[m][n], m, remote[n][m].seq)
    BY Zenon DEF Faithful, ViewFacts, BaseFirst
<1>4. m # n /\ {m, n} \in links
        => AllBrought(chan[m][n], m, remote[n][m].seq, local[m].seq, unsent[m])
    BY Zenon DEF Faithful, Covered
<1>5. \A e \in Entry : e.seq \in Nat
    BY DEF Entry
<1>. QED
    BY <1>1, <1>2, <1>3, <1>4, <1>5, Zenon

\* The frames of a harmless link stay true, and bring what they brought.
LEMMA HarmlessLink ==
    ASSUME TypeOK, HistFacts, Faithful, NEW m \in Nodes, NEW n \in Nodes, Harmless(m, n)
    PROVE  /\ \A i \in DOMAIN chan'[m][n] : TrueOf(chan'[m][n][i], m, hist)
           /\ m # n => BasesFirst(chan'[m][n], m, remote[n][m].seq)
           /\ m # n /\ {m, n} \in links'
                => AllBrought(chan'[m][n], m, remote[n][m].seq, local[m].seq, unsent[m])
<1>. DEFINE c == chan[m][n]
            d == chan'[m][n]
            r == remote[n][m].seq
            top == local[m].seq
<1>1. /\ c \in Seq(Frame) /\ top \in Nat /\ (m # n => r \in Nat)
      /\ \A i \in DOMAIN c : TrueOf(c[i], m, hist)
      /\ m # n => BasesFirst(c, m, r)
      /\ m # n /\ {m, n} \in links => AllBrought(c, m, r, top, unsent[m])
    BY LinkFacts, Zenon
<1>. HIDE DEF r, top
<1>2. CASE ({m, n} \in links' => {m, n} \in links) /\ d = c
    BY <1>1, <1>2, Zenon DEF r, top
<1>3. CASE /\ {m, n} \in links' => {m, n} \in links
           /\ \E t \in Seq({f \in Frame : Calm(f)}) : d = c \o t
  <2>1. PICK t \in Seq({f \in Frame : Calm(f)}) : d = c \o t
    BY <1>3, Zenon
  <2>2. t \in Seq(Frame)
    BY SeqMono
  <2>3. \A i \in DOMAIN t : Calm(t[i])
    OBVIOUS
  <2>4. \A i \in DOMAIN t : t[i].kind # "edge" /\ TrueOf(t[i], m, hist)
    BY <2>3, Zenon DEF Calm, TrueOf
  <2>. HIDE DEF c, d
  <2>5. \A i \in DOMAIN d : (i \in DOMAIN c /\ d[i] = c[i]) \/ \E j \in DOMAIN t : d[i] = t[j]
    <3>1. /\ DOMAIN d = 1..(Len(c) + Len(t)) /\ DOMAIN c = 1..Len(c) /\ DOMAIN t = 1..Len(t)
          /\ Len(c) \in Nat /\ Len(t) \in Nat
          /\ \A i \in 1..Len(c) : d[i] = c[i]
          /\ \A i \in (Len(c) + 1)..(Len(c) + Len(t)) : i - Len(c) \in 1..Len(t) /\ d[i] = t[i - Len(c)]
      BY <1>1, <2>1, <2>2, ConcatFacts
    <3>2. \A i \in DOMAIN d : i \in 1..Len(c) \/ i \in (Len(c) + 1)..(Len(c) + Len(t))
      BY <3>1
    <3>. QED
      BY <3>1, <3>2, Zenon
  <2>6. \A i \in DOMAIN d : TrueOf(d[i], m, hist)
    BY <1>1, <2>4, <2>5, Zenon
  <2>7. m # n => /\ BasesFirst(d, m, r)
                 /\ AllBrought(c, m, r, top, unsent[m]) => AllBrought(d, m, r, top, unsent[m])
    BY <1>1, <2>1, <2>2, <2>4, LinkExtended, Zenon
  <2>. QED
    BY <1>1, <1>3, <2>6, <2>7, Zenon DEF d, r, top
<1>4. CASE /\ {m, n} \in links' => {m, n} \in links
           /\ c # <<>> /\ Head(c).kind = "digest" /\ d = Tail(c)
  <2>1. /\ Len(c) \in Nat \ {0} /\ Head(c) = c[1] /\ DOMAIN c = 1..Len(c)
        /\ DOMAIN d = 1..(Len(c) - 1) /\ \A i \in 1..(Len(c) - 1) : d[i] = c[i + 1]
    BY <1>1, <1>4, TailFacts
  <2>2. c[1].kind \notin {"edge", "snapshot"}
    BY <1>4, <2>1, Zenon
  <2>. HIDE DEF c, d
  <2>3. \A i \in DOMAIN d : i + 1 \in DOMAIN c /\ d[i] = c[i + 1]
    BY <2>1
  <2>4. \A i \in DOMAIN d : TrueOf(d[i], m, hist)
    BY <1>1, <2>3, Zenon
  <2>5. m # n => r <= r
    BY <1>1
  <2>6. m # n => /\ BasesFirst(d, m, r)
                 /\ AllBrought(c, m, r, top, unsent[m]) => AllBrought(d, m, r, top, unsent[m])
    BY <1>1, <1>4, <2>2, <2>5, LinkRead, Zenon
  <2>. QED
    BY <1>1, <1>4, <2>4, <2>6, ZenonT(40) DEF d, r, top
<1>5. CASE d = <<>> /\ {m, n} \notin links'
  <2>1. DOMAIN d = {}
    BY <1>5
  <2>. QED
    BY <1>5, <2>1, Zenon DEF BasesFirst
<1>6. CASE d = <<Snapshot(m, local[m])>>
  <2>1. DOMAIN d = {1} /\ d[1] = Snapshot(m, local[m]) /\ Len(d) = 1
    BY <1>6
  <2>. HIDE DEF d
  <2>2. /\ d[1].kind = "snapshot" /\ d[1].origin = m /\ d[1].seq = top
        /\ d[1].set = local[m].set
    BY <2>1, SnapshotFields, SMTT(30) DEF top
  <2>3. TrueOf(d[1], m, hist)
    BY <1>1, <2>2 DEF IsPast, HistFacts, TrueOf, top
  <2>4. 1 \in 1..Len(d) /\ \A s \in 0..top : d[1].seq >= s
    BY <1>1, <2>1, <2>2
  <2>5. \A s \in 0..top : Brings(d, Len(d), m, r, s)
    BY <2>2, <2>4, Zenon DEF Brings
  <2>6. AllBrought(d, m, r, top, unsent[m])
    BY <2>5, Zenon DEF AllBrought
  <2>7. \A i \in DOMAIN d : d[i].kind # "edge" /\ TrueOf(d[i], m, hist)
    BY <2>1, <2>2, <2>3, Zenon
  <2>8. BasesFirst(d, m, r)
    BY <2>7, Zenon DEF BasesFirst
  <2>. QED
    BY <2>6, <2>7, <2>8, Zenon DEF d, r, top
<1>. QED
    BY <1>2, <1>3, <1>4, <1>5, <1>6, Zenon DEF Harmless

\* A step that is harmless on every link keeps the views exact.
LEMMA HarmlessStep ==
    ASSUME TypeOK, HistFacts, Faithful, UNCHANGED <<local, hist, unsent>>,
           \A k, o \in Nodes : remote'[k][o] = remote[k][o],
           \A m, n \in Nodes : Harmless(m, n)
    PROVE  Faithful'
<1>1. UNCHANGED local /\ UNCHANGED hist /\ UNCHANGED unsent
    OBVIOUS
<1>2. UnsentFacts /\ ViewFacts
    BY DEF Faithful
<1>3. UnsentFacts'
    BY <1>1, <1>2, Zenon DEF UnsentFacts
<1>4. ViewFacts'
  <2>. SUFFICES ASSUME NEW n \in Nodes, NEW o \in Nodes
                PROVE  /\ remote'[n][o] # None
                            => IsPast(hist[o], remote'[n][o].seq, remote'[n][o].set)
                       /\ n # o => remote'[n][o] # None
    BY <1>1, Zenon DEF ViewFacts
  <2>1. remote'[n][o] = remote[n][o]
    OBVIOUS
  <2>. QED
    BY <1>2, <2>1, Zenon DEF ViewFacts
<1>5. FrameFacts'
    BY <1>1, HarmlessLink, Zenon DEF FrameFacts
<1>6. BaseFirst'
    BY HarmlessLink, Zenon DEF BaseFirst
<1>7. Covered'
    BY <1>1, HarmlessLink, Zenon DEF Covered
<1>. QED
    BY <1>3, <1>4, <1>5, <1>6, <1>7, Zenon DEF Faithful

\* The past only grows: what was true of it stays true.
LEMMA PastGrows ==
    ASSUME NEW h \in Seq(SUBSET Targets), NEW x \in SUBSET Targets
    PROVE  /\ \A s \in Nat : \A set : IsPast(h, s, set) => IsPast(Append(h, x), s, set)
           /\ \A e : e.seq \in Nat /\ IsTransition(h, e) => IsTransition(Append(h, x), e)
<1>1. /\ Len(h) \in Nat /\ Len(Append(h, x)) = Len(h) + 1
      /\ \A i \in 1..Len(h) : Append(h, x)[i] = h[i]
    BY AppendFacts
<1>2. \A s \in Nat : \A set : IsPast(h, s, set) => IsPast(Append(h, x), s, set)
    BY <1>1 DEF IsPast
<1>3. ASSUME NEW e, e.seq \in Nat, IsTransition(h, e) PROVE IsTransition(Append(h, x), e)
  <2>1. e.seq # 0 /\ e.seq < Len(h)
    BY <1>3, Zenon DEF IsTransition
  <2>2. Append(h, x)[e.seq] = h[e.seq] /\ Append(h, x)[e.seq + 1] = h[e.seq + 1]
    BY <1>1, <1>3, <2>1
  <2>3. e.seq < Len(Append(h, x))
    BY <1>1, <1>3, <2>1
  <2>. QED
    BY <1>3, <2>1, <2>2, <2>3, Zenon DEF IsTransition
<1>. QED
    BY <1>2, <1>3, Zenon

\* local_set: the record of the past goes on, and the new edge is held.
LEMMA LocalSetStep ==
    ASSUME TypeOK, HistFacts, NEW n \in Nodes, NEW t \in Targets, NEW hosting \in BOOLEAN,
           LocalSet(n, t, hosting)
    PROVE  HistFacts' /\ (Faithful => Faithful')
<1>. DEFINE set == SetAfter(n, t, hosting)
            e == Edge(n, local[n].seq + 1, hosting, t)
<1>1. /\ set \in SUBSET Targets /\ e \in Frame
      /\ \A o \in Nodes \ {n} : /\ local'[o] = local[o] /\ hist'[o] = hist[o]
                                /\ unsent'[o] = unsent[o]
      /\ local'[n].seq = local[n].seq + 1 /\ local'[n].set = set
      /\ hist' = [hist EXCEPT ![n] = Append(hist[n], set)]
      /\ hist'[n] = Append(hist[n], set)
      /\ unsent'[n] = unsent[n] \cup {e}
    BY LocalSetFacts
<1>2. UNCHANGED remote /\ UNCHANGED links /\ UNCHANGED chan
    BY DEF LocalSet
<1>3. /\ hist \in [Nodes -> Seq(SUBSET Targets)]
      /\ \A o \in Nodes : Len(hist[o]) = local[o].seq + 1 /\ hist[o][local[o].seq + 1] = local[o].set
    BY Zenon DEF HistFacts
<1>4. \A o \in Nodes : local[o].seq \in Nat /\ hist[o] \in Seq(SUBSET Targets)
    BY <1>3, Zenon DEF TypeOK, Entry
<1>6. /\ e.kind = "edge" /\ e.origin = n /\ e.seq = local[n].seq + 1 /\ e.add = hosting
      /\ e.target = t
    BY DEF Edge
<1>7. set = IF hosting THEN local[n].set \cup {t} ELSE local[n].set \ {t}
    BY DEF SetAfter
<1>. HIDE DEF set, e
<1>8. /\ Append(hist[n], set) \in Seq(SUBSET Targets)
      /\ Len(Append(hist[n], set)) = Len(hist[n]) + 1
      /\ \A i \in 1..Len(hist[n]) : Append(hist[n], set)[i] = hist[n][i]
      /\ Append(hist[n], set)[Len(hist[n]) + 1] = set
    BY <1>1, <1>4, AppendFacts
<1>9. HistFacts'
  <2>1. hist' \in [Nodes -> Seq(SUBSET Targets)]
    BY <1>1, <1>3, <1>8, Zenon
  <2>2. Len(hist'[n]) = local'[n].seq + 1 /\ hist'[n][local'[n].seq + 1] = local'[n].set
    BY <1>1, <1>3, <1>4, <1>8, Zenon
  <2>3. \A o \in Nodes \ {n} :
           Len(hist'[o]) = local'[o].seq + 1 /\ hist'[o][local'[o].seq + 1] = local'[o].set
    BY <1>1, <1>3, Zenon
  <2>. QED
    BY <2>1, <2>2, <2>3, Zenon DEF HistFacts
<1>10. ASSUME NEW o \in Nodes
       PROVE  /\ \A s \in Nat : \A x : IsPast(hist[o], s, x) => IsPast(hist'[o], s, x)
              /\ \A f : f.seq \in Nat /\ IsTransition(hist[o], f) => IsTransition(hist'[o], f)
  <2>1. CASE o = n
    <3>1. /\ \A s \in Nat : \A x : IsPast(hist[n], s, x) => IsPast(Append(hist[n], set), s, x)
          /\ \A f : f.seq \in Nat /\ IsTransition(hist[n], f)
                      => IsTransition(Append(hist[n], set), f)
      BY <1>1, <1>4, PastGrows, Zenon
    <3>. QED
      BY <1>1, <2>1, <3>1, Zenon
  <2>2. CASE o # n
    BY <1>1, <2>2, Zenon
  <2>. QED
    BY <2>1, <2>2, Zenon
<1>. SUFFICES ASSUME Faithful PROVE Faithful'
    BY <1>9, Zenon
<1>12. IsTransition(hist'[n], e)
  <2>1. e.seq # 0 /\ e.seq < Len(hist'[n])
    BY <1>1, <1>3, <1>4, <1>6, <1>8
  <2>2. hist'[n][e.seq] = local[n].set /\ hist'[n][e.seq + 1] = set
    BY <1>1, <1>3, <1>4, <1>6, <1>8
  <2>3. hist'[n][e.seq + 1] = IF e.add THEN hist'[n][e.seq] \cup {e.target}
                              ELSE hist'[n][e.seq] \ {e.target}
    BY <1>6, <1>7, <2>2, Zenon
  <2>. QED
    BY <2>1, <2>3, Zenon DEF IsTransition
<1>13. UnsentFacts'
  <2>. SUFFICES ASSUME NEW o \in Nodes, NEW f \in unsent'[o]
                PROVE  f.kind = "edge" /\ f.origin = o /\ IsTransition(hist'[o], f)
    BY Zenon DEF UnsentFacts
  <2>1. CASE f \in unsent[o]
    <3>1. f.kind = "edge" /\ f.origin = o /\ IsTransition(hist[o], f)
      BY <2>1, Zenon DEF Faithful, UnsentFacts
    <3>2. f \in Frame
      BY <2>1, Zenon DEF TypeOK
    <3>3. f.seq \in Nat
      BY <3>1, <3>2, FrameKinds, Zenon
    <3>. QED
      BY <1>10, <3>1, <3>3, Zenon
  <2>2. CASE o = n /\ f = e
    BY <1>6, <1>12, <2>2, Zenon
  <2>. QED
    BY <1>1, <2>1, <2>2, Zenon
<1>14. FrameFacts'
  <2>. SUFFICES ASSUME NEW a \in Nodes, NEW b \in Nodes, NEW i \in DOMAIN chan[a][b]
                PROVE  TrueOf(chan[a][b][i], a, hist')
    BY <1>2, Zenon DEF FrameFacts
  <2>1. chan[a][b] \in Seq(Frame) /\ TrueOf(chan[a][b][i], a, hist)
    BY LinkFacts, Zenon
  <2>2. chan[a][b][i] \in Frame
    BY <2>1
  <2>3. /\ chan[a][b][i].kind = "edge" => chan[a][b][i].seq \in Nat
        /\ chan[a][b][i].kind = "snapshot" =>
             chan[a][b][i].seq \in Nat /\ chan[a][b][i].origin \in Nodes
    BY <2>2, FrameKinds
  <2>. QED
    BY <1>10, <2>1, <2>3, Zenon DEF TrueOf
<1>15. ViewFacts'
  <2>. SUFFICES ASSUME NEW k \in Nodes, NEW o \in Nodes
                PROVE  /\ remote[k][o] # None
                            => IsPast(hist'[o], remote[k][o].seq, remote[k][o].set)
                       /\ k # o => remote[k][o] # None
    BY <1>2, Zenon DEF ViewFacts
  <2>1. remote[k][o] # None => remote[k][o].seq \in Nat
    BY DEF TypeOK, Entry
  <2>. QED
    BY <1>10, <2>1, Zenon DEF Faithful, ViewFacts
<1>16. BaseFirst'
    BY <1>2, Zenon DEF Faithful, BaseFirst
<1>17. Covered'
  <2>. SUFFICES ASSUME NEW o \in Nodes, NEW k \in Nodes, o # k, {o, k} \in links
                PROVE  AllBrought(chan[o][k], o, remote[k][o].seq, local'[o].seq, unsent'[o])
    BY <1>2, Zenon DEF Covered
  <2>1. AllBrought(chan[o][k], o, remote[k][o].seq, local[o].seq, unsent[o])
    BY LinkFacts, Zenon
  <2>2. CASE o = n
    <3>. SUFFICES ASSUME NEW s \in 0..(local[n].seq + 1)
                  PROVE  \/ \E f \in unsent[n] \cup {e} : f.seq = s
                         \/ Brings(chan[n][k], Len(chan[n][k]), n, remote[k][n].seq, s)
      BY <1>1, <2>2, Zenon DEF AllBrought
    <3>1. s \in 0..local[n].seq \/ s = e.seq
      BY <1>4, <1>6
    <3>. QED
      BY <2>1, <2>2, <3>1, Zenon DEF AllBrought
  <2>3. CASE o # n
    BY <1>1, <2>1, <2>3, Zenon
  <2>. QED
    BY <2>2, <2>3, Zenon
<1>. QED
    BY <1>13, <1>14, <1>15, <1>16, <1>17, ZenonT(40) DEF Faithful

\* The rest of set_local_interest: the oldest edge held finds its base with
\* every linked peer, or on the way to it.
LEMMA PublishStep ==
    ASSUME FiniteFacts, TypeOK, NoSelfLink, HistFacts, Faithful, NEW n \in Nodes, Publish(n), ~lossy'
    PROVE  Faithful'
<1>1. UNCHANGED local /\ UNCHANGED hist /\ UNCHANGED remote /\ UNCHANGED links
    BY DEF Publish
<1>2. PICK e \in unsent[n], lost \in SUBSET ShakyPeers(n) :
             /\ Broadcast(n, e, lost) /\ e \in Frame
             /\ unsent'[n] = unsent[n] \ {e}
             /\ \A o \in Nodes \ {n} : unsent'[o] = unsent[o]
             /\ lost = {} /\ \A f \in unsent[n] : ~(f.seq < e.seq)
    BY PublishFacts, Zenon
<1>3. \A m, k \in Nodes : chan'[m][k] = IF m = n /\ k \in Peers(n) THEN Append(chan[m][k], e)
                                        ELSE chan[m][k]
  <2>1. \A m, k \in Nodes :
           chan'[m][k] = IF m = n /\ k \in Peers(n) \ lost THEN Append(chan[m][k], e)
                         ELSE chan[m][k]
    BY <1>2, BroadcastTypes
  <2>2. Peers(n) \ lost = Peers(n)
    BY <1>2, Zenon
  <2>. QED
    BY <2>1, <2>2, Zenon
<1>4. e.kind = "edge" /\ e.origin = n /\ IsTransition(hist[n], e)
    BY <1>2, Zenon DEF Faithful, UnsentFacts
<1>5. e.seq \in Nat \ {0} /\ e.seq <= local[n].seq /\ local[n].seq \in Nat
  <2>1. e.seq \in Nat /\ local[n].seq \in Nat
    BY <1>2, <1>4, FrameKinds, Zenon DEF TypeOK, Entry
  <2>2. e.seq # 0 /\ e.seq < Len(hist[n]) /\ Len(hist[n]) = local[n].seq + 1
    BY <1>4, Zenon DEF IsTransition, HistFacts
  <2>. QED
    BY <2>1, <2>2
<1>6. UnsentFacts'
  <2>1. \A o \in Nodes : unsent'[o] \subseteq unsent[o]
    BY <1>2, Zenon
  <2>. QED
    BY <1>1, <2>1, Zenon DEF Faithful, UnsentFacts
<1>7. ViewFacts'
    BY <1>1, Zenon DEF Faithful, ViewFacts
<1>8. ASSUME NEW m \in Nodes, NEW k \in Nodes
      PROVE  /\ \A i \in DOMAIN chan'[m][k] : TrueOf(chan'[m][k][i], m, hist)
             /\ m # k => BasesFirst(chan'[m][k], m, remote[k][m].seq)
             /\ m # k /\ {m, k} \in links
                  => AllBrought(chan'[m][k], m, remote[k][m].seq, local[m].seq, unsent'[m])
  <2>. DEFINE c == chan[m][k]
              r == remote[k][m].seq
              top == local[m].seq
  <2>1. /\ c \in Seq(Frame) /\ top \in Nat /\ (m # k => r \in Nat)
        /\ \A i \in DOMAIN c : TrueOf(c[i], m, hist)
        /\ m # k => BasesFirst(c, m, r)
        /\ m # k /\ {m, k} \in links => AllBrought(c, m, r, top, unsent[m])
    BY LinkFacts, Zenon
  <2>. HIDE DEF r, top
  <2>2. CASE m = n /\ k \in Peers(n)
    <3>1. {m, k} \in links /\ m # k /\ chan'[m][k] = Append(c, e)
      BY <1>3, <2>2, ZenonT(40) DEF Peers
    <3>2. \A i \in DOMAIN Append(c, e) : (i \in DOMAIN c /\ Append(c, e)[i] = c[i]) \/ Append(c, e)[i] = e
      BY <1>2, <2>1, AppendFacts
    <3>3. TrueOf(e, m, hist)
      BY <1>4, <2>2, Zenon DEF TrueOf
    <3>4. \A i \in DOMAIN Append(c, e) : TrueOf(Append(c, e)[i], m, hist)
      BY <2>1, <3>2, <3>3, Zenon
    <3>5. Brings(c, Len(c), m, r, e.seq - 1)
      <4>1. e.seq - 1 \in 0..top
        BY <1>5, <2>2 DEF top
      <4>2. \A f \in unsent[m] : f.seq # e.seq - 1
        BY <1>2, <1>5, <2>2
      <4>. QED
        BY <2>1, <3>1, <4>1, <4>2, ZenonT(40) DEF AllBrought
    <3>6. BasesFirst(Append(c, e), m, r) /\ AllBrought(Append(c, e), m, r, top, unsent[m] \ {e})
      <4>. HIDE DEF c
      <4>1. e \in Frame /\ e.kind = "edge" /\ e.origin = m
        BY <1>2, <1>4, <2>2, Zenon
      <4>. QED
        BY <2>1, <3>1, <3>5, <4>1, LinkSent, Zenon
    <3>. QED
      BY <1>2, <2>2, <3>1, <3>4, <3>6, Zenon DEF r, top
  <2>3. CASE ~(m = n /\ k \in Peers(n))
    <3>1. chan'[m][k] = c
      BY <1>3, <2>3, Zenon
    <3>2. m # k /\ {m, k} \in links => m # n
      BY <2>3, Zenon DEF Peers
    <3>. QED
      BY <1>2, <2>1, <3>1, <3>2, Zenon DEF r, top
  <2>. QED
    BY <2>2, <2>3, Zenon
<1>9. FrameFacts'
    BY <1>1, <1>8, Zenon DEF FrameFacts
<1>10. BaseFirst'
    BY <1>1, <1>8, Zenon DEF BaseFirst
<1>11. Covered'
    BY <1>1, <1>8, Zenon DEF Covered
<1>. QED
    BY <1>6, <1>7, <1>9, <1>10, <1>11, Zenon DEF Faithful

\* What more is known takes nothing from what the frames bring.
LEMMA LinkKnown ==
    ASSUME NEW c \in Seq(Frame), NEW m, NEW r \in Nat, NEW r2 \in Nat, r <= r2,
           NEW top \in Nat, NEW held
    PROVE  /\ BasesFirst(c, m, r) => BasesFirst(c, m, r2)
           /\ AllBrought(c, m, r, top, held) => AllBrought(c, m, r2, top, held)
<1>1. ASSUME NEW k, NEW s \in Int, Brings(c, k, m, r, s) PROVE Brings(c, k, m, r2, s)
  <2>1. r >= s => r2 >= s
    OBVIOUS
  <2>. QED
    BY <1>1, <2>1, Zenon DEF Brings
<1>2. \A i \in DOMAIN c : c[i].kind = "edge" => c[i].seq - 1 \in Int
  <2>1. \A i \in DOMAIN c : c[i] \in Frame
    OBVIOUS
  <2>2. \A f \in Frame : f.kind = "edge" => f.seq \in Nat
    BY FrameKinds, Zenon
  <2>. QED
    BY <2>1, <2>2
<1>3. \A s \in 0..top : s \in Int
    OBVIOUS
<1>4. BasesFirst(c, m, r) => BasesFirst(c, m, r2)
    BY <1>1, <1>2, Zenon DEF BasesFirst
<1>5. AllBrought(c, m, r, top, held) => AllBrought(c, m, r2, top, held)
    BY <1>1, <1>3, Zenon DEF AllBrought
<1>. QED
    BY <1>4, <1>5, Zenon

\* on_inbound: an edge meets its base and a snapshot is true, so what is known
\* after either is what the origin hosted.
LEMMA UpdateStep ==
    ASSUME TypeOK, NoSelfLink, HistFacts, Faithful, NEW m \in Nodes, NEW n \in Nodes,
           DeliverUpdate(m, n)
    PROVE  Faithful'
<1>. DEFINE q == chan[m][n]
            f == Head(q)
            e == IF f.kind = "edge" THEN ApplyEdge(n, f) ELSE ApplySnapshot(n, f)
<1>1. UNCHANGED local /\ UNCHANGED hist /\ UNCHANGED unsent /\ UNCHANGED links
    BY Zenon DEF DeliverUpdate, ownVars
<1>2. m # n
    BY Zenon DEF DeliverUpdate, Arrived, NoSelfLink
<1>3. /\ q \in Seq(Frame) /\ q # <<>> /\ f \in Frame /\ f.kind \in {"edge", "snapshot"}
      /\ \A a, b \in Nodes : chan'[a][b] = IF a = m /\ b = n THEN Tail(q) ELSE chan[a][b]
    BY UpdateTypes
<1>4. /\ DOMAIN q = 1..Len(q) /\ Len(q) \in Nat \ {0} /\ f = q[1]
      /\ DOMAIN Tail(q) = 1..(Len(q) - 1)
      /\ \A i \in 1..(Len(q) - 1) : Tail(q)[i] = q[i + 1]
    BY <1>3, TailFacts, ZenonT(40)
<1>5. f.origin \in Nodes /\ f.seq \in Nat /\ 1 \in DOMAIN q
    BY <1>3, <1>4, FrameKinds
<1>6. TrueOf(f, m, hist) /\ BasesFirst(q, m, remote[n][m].seq) /\ remote[n][m].seq \in Nat
      /\ remote[n][m] \in Entry
    BY <1>2, <1>4, <1>5, LinkFacts, Zenon
<1>7. /\ remote \in [Nodes -> [Nodes -> Entry \cup {None}]]
      /\ \A k, o \in Nodes : k # o => remote[k][o] # None
      /\ \A k, o \in Nodes : remote[k][o] # None => IsPast(hist[o], remote[k][o].seq, remote[k][o].set)
    BY Zenon DEF Faithful, ViewFacts, TypeOK
<1>8. None \notin Entry /\ \A x \in Entry : x.seq \in Nat
    BY InterestAssumption, Zenon DEF Entry
<1>9. remote' = IF f.origin = n THEN remote ELSE [remote EXCEPT ![n][f.origin] = e]
    BY Zenon DEF DeliverUpdate
<1>10. /\ e \in Entry /\ e.seq >= f.seq
       /\ remote[n][f.origin] # None => e.seq >= remote[n][f.origin].seq
       /\ f.kind = "snapshot" => (e.seq = f.seq /\ e.set = f.set) \/ e = remote[n][f.origin]
       /\ f.kind = "edge" /\ remote[n][f.origin] # None =>
            IF f.seq <= remote[n][f.origin].seq
              THEN e.seq = remote[n][f.origin].seq /\ e.set = remote[n][f.origin].set
              ELSE /\ e.seq = f.seq
                   /\ e.set = IF f.add THEN remote[n][f.origin].set \cup {f.target}
                              ELSE remote[n][f.origin].set \ {f.target}
    BY <1>3, ApplyFacts, Zenon
<1>. HIDE DEF f, e, q
<1>11. \A k, o \in Nodes : remote'[k][o] = IF k = n /\ o = f.origin /\ o # n THEN e ELSE remote[k][o]
  <2>1. CASE f.origin = n
    BY <1>9, <2>1, Zenon
  <2>2. CASE f.origin # n
    BY <1>5, <1>7, <1>9, <2>2, Zenon
  <2>. QED
    BY <2>1, <2>2, Zenon
<1>12. f.origin # n => IsPast(hist[f.origin], e.seq, e.set)
  <2>. SUFFICES ASSUME f.origin # n PROVE IsPast(hist[f.origin], e.seq, e.set)
    OBVIOUS
  <2>. DEFINE o == remote[n][f.origin]
  <2>1. o # None /\ o \in Entry /\ o.seq \in Nat /\ IsPast(hist[f.origin], o.seq, o.set)
    BY <1>5, <1>7, <1>8, ZenonT(40)
  <2>2. CASE f.kind = "snapshot"
    BY <1>6, <1>10, <2>1, <2>2, Zenon DEF TrueOf
  <2>3. CASE f.kind = "edge"
    <3>1. f.origin = m /\ IsTransition(hist[m], f)
      BY <1>6, <2>3, Zenon DEF TrueOf
    <3>2. Brings(q, 1 - 1, m, o.seq, f.seq - 1)
      BY <1>4, <1>5, <1>6, <2>3, <3>1, Zenon DEF BasesFirst
    <3>. HIDE DEF o
    <3>3. o.seq >= f.seq - 1
      BY <1>5, <2>1, <3>2 DEF Brings
    <3>4. CASE f.seq <= o.seq
      BY <1>10, <2>1, <2>3, <3>4, Zenon DEF o
    <3>5. CASE ~(f.seq <= o.seq)
      <4>1. o.seq + 1 = f.seq
        BY <1>5, <2>1, <3>3, <3>5
      <4>2. o.set = hist[m][f.seq]
        BY <2>1, <3>1, <4>1, Zenon DEF IsPast
      <4>3. e.seq = f.seq /\ e.set = IF f.add THEN o.set \cup {f.target} ELSE o.set \ {f.target}
        BY <1>10, <2>1, <2>3, <3>5, Zenon DEF o
      <4>. QED
        BY <3>1, <4>2, <4>3, Zenon DEF IsPast, IsTransition
    <3>. QED
      BY <3>4, <3>5, Zenon
  <2>. QED
    BY <1>3, <2>2, <2>3, Zenon
<1>13. UnsentFacts'
    BY <1>1, Zenon DEF Faithful, UnsentFacts
<1>14. ViewFacts'
  <2>. SUFFICES ASSUME NEW k \in Nodes, NEW o \in Nodes
                PROVE  /\ remote'[k][o] # None
                            => IsPast(hist[o], remote'[k][o].seq, remote'[k][o].set)
                       /\ k # o => remote'[k][o] # None
    BY <1>1, Zenon DEF ViewFacts
  <2>1. CASE k = n /\ o = f.origin /\ o # n
    <3>1. remote'[k][o] = e /\ e # None
      BY <1>8, <1>10, <1>11, <2>1, Zenon
    <3>. QED
      BY <1>12, <2>1, <3>1, Zenon
  <2>2. CASE ~(k = n /\ o = f.origin /\ o # n)
    <3>1. remote'[k][o] = remote[k][o]
      BY <1>11, <2>2, Zenon
    <3>. QED
      BY <1>7, <3>1, Zenon
  <2>. QED
    BY <2>1, <2>2, Zenon
<1>15. ASSUME NEW a \in Nodes, NEW b \in Nodes
       PROVE  /\ \A i \in DOMAIN chan'[a][b] : TrueOf(chan'[a][b][i], a, hist)
              /\ a # b => BasesFirst(chan'[a][b], a, remote'[b][a].seq)
              /\ a # b /\ {a, b} \in links
                   => AllBrought(chan'[a][b], a, remote'[b][a].seq, local[a].seq, unsent[a])
  <2>. DEFINE c == chan[a][b]
              r == remote[b][a].seq
              r2 == remote'[b][a].seq
              top == local[a].seq
  <2>1. /\ c \in Seq(Frame) /\ top \in Nat /\ (a # b => r \in Nat)
        /\ \A i \in DOMAIN c : TrueOf(c[i], a, hist)
        /\ a # b => BasesFirst(c, a, r)
        /\ a # b /\ {a, b} \in links => AllBrought(c, a, r, top, unsent[a])
    BY LinkFacts, Zenon
  <2>2. a # b => r2 \in Nat /\ r <= r2
    <3>1. CASE b = n /\ a = f.origin /\ a # n
      <4>1. remote'[b][a] = e /\ e.seq \in Nat /\ e.seq >= r
        BY <1>5, <1>7, <1>8, <1>10, <1>11, <3>1, ZenonT(40)
      <4>. QED
        BY <2>1, <4>1, Zenon
    <3>2. CASE ~(b = n /\ a = f.origin /\ a # n)
      <4>1. r2 = r
        BY <1>11, <3>2, Zenon
      <4>. QED
        BY <2>1, <4>1
    <3>. QED
      BY <3>1, <3>2, Zenon
  <2>. HIDE DEF r, r2, top
  <2>3. CASE a = m /\ b = n
    <3>1. chan'[a][b] = Tail(c) /\ c = q
      BY <1>3, <2>3, Zenon DEF q
    <3>2. \A i \in DOMAIN Tail(c) : i + 1 \in DOMAIN c /\ Tail(c)[i] = c[i + 1]
      BY <1>4, <3>1
    <3>3. \A i \in DOMAIN Tail(c) : TrueOf(Tail(c)[i], a, hist)
      BY <2>1, <3>2, Zenon
    <3>4. c[1].kind \in {"edge", "snapshot"} /\ c[1].origin = a => r2 >= c[1].seq
      <4>1. f.origin = m => r2 = e.seq
        BY <1>2, <1>5, <1>11, <2>3, Zenon DEF r2
      <4>. QED
        BY <1>4, <1>10, <2>3, <3>1, <4>1, Zenon
    <3>. HIDE DEF c
    <3>5. /\ BasesFirst(Tail(c), a, r2)
          /\ AllBrought(c, a, r, top, unsent[a]) => AllBrought(Tail(c), a, r2, top, unsent[a])
      BY <1>2, <1>3, <2>1, <2>2, <2>3, <3>1, <3>4, LinkRead, Zenon
    <3>. QED
      BY <2>1, <3>1, <3>3, <3>5, Zenon DEF r2, top
  <2>4. CASE ~(a = m /\ b = n)
    <3>1. chan'[a][b] = c
      BY <1>3, <2>4, Zenon
    <3>. HIDE DEF c
    <3>2. a # b => /\ BasesFirst(c, a, r2)
                   /\ AllBrought(c, a, r, top, unsent[a]) => AllBrought(c, a, r2, top, unsent[a])
      BY <2>1, <2>2, LinkKnown, Zenon
    <3>. QED
      BY <2>1, <3>1, <3>2, Zenon DEF r2, top
  <2>. QED
    BY <2>3, <2>4, Zenon
<1>16. FrameFacts'
    BY <1>1, <1>15, Zenon DEF FrameFacts
<1>17. BaseFirst'
    BY <1>15, Zenon DEF BaseFirst
<1>18. Covered'
    BY <1>1, <1>15, Zenon DEF Covered
<1>. QED
    BY <1>13, <1>14, <1>16, <1>17, <1>18, Zenon DEF Faithful

-----------------------------------------------------------------------------
(* The invariant.                                                          *)

\* A cluster that has just formed knows that nobody hosts anything.
LEMMA InitIInv ==
    ASSUME Init
    PROVE  IInv
<1>0. up = Nodes /\ restarted = {} /\ edges = 0 /\ lossy = FALSE /\ faults = 0
    BY Zenon DEF Init
<1>a. links = {{n, m} : n, m \in Nodes} \ {{n} : n \in Nodes}
    BY DEF Init
<1>1. /\ local = [n \in Nodes |-> Nothing]
      /\ remote = [n \in Nodes |-> [o \in Nodes |-> IF o = n THEN None ELSE Nothing]]
      /\ alive = [n \in Nodes |-> Nodes \ {n}]
      /\ chan = [n \in Nodes |-> [m \in Nodes |-> <<>>]]
      /\ unsent = [n \in Nodes |-> {}]
      /\ hist = [n \in Nodes |-> <<{}>>]
    BY Zenon DEF Init, NoTraffic
<1>2. Nothing \in Entry /\ Nothing.seq = 0 /\ Nothing.set = {} /\ None \notin Entry
    BY InterestAssumption, Zenon DEF Nothing, Entry
<1>3. /\ {} \in SUBSET Targets /\ <<{}>> \in Seq(SUBSET Targets) /\ Len(<<{}>>) = 0 + 1
      /\ <<{}>>[0 + 1] = {}
    OBVIOUS
<1>4. TypeOK
  <2>1. links \subseteq SUBSET Nodes
    <3>. SUFFICES ASSUME NEW p \in links PROVE p \in SUBSET Nodes
      OBVIOUS
    <3>1. PICK n \in Nodes, m \in Nodes : p = {n, m}
      BY <1>a
    <3>. QED
      BY <3>1, Zenon
  <2>3. chan \in [Nodes -> [Nodes -> Seq(Frame)]]
    BY <1>1
  <2>4. local \in [Nodes -> Entry] /\ remote \in [Nodes -> [Nodes -> Entry \cup {None}]]
    BY <1>1, <1>2, Zenon
  <2>5. alive \in [Nodes -> SUBSET Nodes] /\ unsent \in [Nodes -> SUBSET Frame]
    BY <1>1, Zenon
  <2>2. lossy \in BOOLEAN
    BY <1>0, Zenon
  <2>6. /\ up \subseteq Nodes /\ restarted \subseteq Nodes
        /\ faults \in 0..MaxFaults /\ edges \in 0..MaxEdges
    <3>1. MaxFaults \in Nat /\ MaxEdges \in Nat
      BY InterestAssumption, Zenon
    <3>. QED
      BY <1>0, <3>1
  <2>. QED
    BY <2>1, <2>2, <2>3, <2>4, <2>5, <2>6, Zenon DEF TypeOK
<1>5. NoSelfLink
  <2>. SUFFICES ASSUME NEW k \in Nodes PROVE {k, k} \notin links
    BY Zenon DEF NoSelfLink
  <2>1. {k, k} = {k}
    OBVIOUS
  <2>2. {k, k} \in {{n} : n \in Nodes}
    BY <2>1, Zenon
  <2>. QED
    BY <1>a, <2>2
<1>6. HistFacts
  <2>1. hist \in [Nodes -> Seq(SUBSET Targets)]
    BY <1>1, <1>3, Zenon
  <2>2. \A o \in Nodes : hist[o] = <<{}>> /\ local[o] = Nothing
    BY <1>1, Zenon
  <2>. QED
    BY <1>2, <1>3, <2>1, <2>2, Zenon DEF HistFacts
<1>7. \A o \in Nodes : hist[o] = <<{}>> /\ local[o] = Nothing /\ unsent[o] = {}
    BY <1>1, Zenon
<1>8. \A n, o \in Nodes : chan[n][o] = <<>> /\ remote[n][o] = IF o = n THEN None ELSE Nothing
    BY <1>1, Zenon
<1>9. UnsentFacts
    BY <1>7, Zenon DEF UnsentFacts
<1>10. DOMAIN <<>> = {}
    OBVIOUS
<1>11. FrameFacts /\ BaseFirst
    BY <1>8, <1>10, Zenon DEF FrameFacts, BaseFirst, BasesFirst
<1>12. IsPast(<<{}>>, 0, {})
    BY DEF IsPast
<1>13. ViewFacts
    BY <1>2, <1>7, <1>8, <1>12, Zenon DEF ViewFacts
<1>14. Covered
  <2>1. \A q, o : Brings(q, Len(q), o, 0, 0)
    BY DEF Brings
  <2>2. \A s \in 0..0 : s = 0
    OBVIOUS
  <2>3. \A q, o, held : AllBrought(q, o, 0, 0, held)
    BY <2>1, <2>2, Zenon DEF AllBrought
  <2>4. \A o, n \in Nodes : o # n => remote[n][o].seq = 0 /\ local[o].seq = 0
    BY <1>2, <1>7, <1>8, Zenon
  <2>. QED
    BY <2>3, <2>4, Zenon DEF Covered
<1>. QED
    BY <1>4, <1>5, <1>6, <1>9, <1>11, <1>13, <1>14, Zenon DEF IInv, Faithful

\* What each action keeps.
Keeps == TypeOK' /\ NoSelfLink' /\ HistFacts' /\ (~lossy' => Faithful')

\* local_set keeps the invariant.
LEMMA LocalSetKeeps ==
    ASSUME IInv, NEW n \in Nodes, NEW t \in Targets, NEW hosting \in BOOLEAN,
           LocalSet(n, t, hosting)
    PROVE  Keeps
<1>1. TypeOK /\ NoSelfLink /\ HistFacts /\ (~lossy => Faithful)
    BY Zenon DEF IInv
<1>2. UNCHANGED <<up, remote, alive, links, chan, lossy, restarted, faults>>
    BY Zenon DEF LocalSet
<1>3. local' \in [Nodes -> Entry] /\ edges' \in 0..MaxEdges /\ unsent' \in [Nodes -> SUBSET Frame]
    BY <1>1, LocalSetFacts, Zenon
<1>4. TypeOK'
    BY <1>1, <1>2, <1>3, Zenon DEF TypeOK
<1>5. NoSelfLink'
    BY <1>1, <1>2, Zenon DEF NoSelfLink
<1>6. HistFacts' /\ (Faithful => Faithful')
    BY <1>1, LocalSetStep, Zenon
<1>. QED
    BY <1>1, <1>2, <1>4, <1>5, <1>6, Zenon DEF Keeps

\* So does the rest of set_local_interest.
LEMMA PublishKeeps ==
    ASSUME FiniteFacts, IInv, NEW n \in Nodes, Publish(n)
    PROVE  Keeps
<1>1. TypeOK /\ NoSelfLink /\ HistFacts /\ (~lossy => Faithful)
    BY Zenon DEF IInv
<1>2. UNCHANGED <<up, local, remote, alive, links, hist, edges, restarted>>
    BY DEF Publish
<1>3. PICK e \in unsent[n], lost \in SUBSET ShakyPeers(n) :
             /\ Broadcast(n, e, lost) /\ e \in Frame
             /\ unsent' \in [Nodes -> SUBSET Frame] /\ lossy' \in BOOLEAN
             /\ ~lossy' => ~lossy
    BY <1>1, PublishFacts, Zenon
<1>4. faults' \in 0..MaxFaults /\ chan' \in [Nodes -> [Nodes -> Seq(Frame)]]
    BY <1>1, <1>3, BroadcastTypes, Zenon
<1>5. TypeOK'
    BY <1>1, <1>2, <1>3, <1>4, Zenon DEF TypeOK
<1>6. NoSelfLink' /\ HistFacts'
    BY <1>1, <1>2, Zenon DEF NoSelfLink, HistFacts
<1>. QED
    BY <1>1, <1>3, <1>5, <1>6, PublishStep, Zenon DEF Keeps

\* So does an update that on_inbound applies.
LEMMA UpdateKeeps ==
    ASSUME IInv, NEW m \in Nodes, NEW n \in Nodes, DeliverUpdate(m, n)
    PROVE  Keeps
<1>1. TypeOK /\ NoSelfLink /\ HistFacts /\ (~lossy => Faithful)
    BY Zenon DEF IInv
<1>2. UNCHANGED <<up, alive, links, local, unsent, hist, edges, lossy, restarted, faults>>
    BY Zenon DEF DeliverUpdate, ownVars
<1>3. /\ chan' \in [Nodes -> [Nodes -> Seq(Frame)]]
      /\ remote' \in [Nodes -> [Nodes -> Entry \cup {None}]]
    BY <1>1, UpdateTypes, Zenon
<1>4. TypeOK'
    BY <1>1, <1>2, <1>3, Zenon DEF TypeOK
<1>5. NoSelfLink' /\ HistFacts'
    BY <1>1, <1>2, Zenon DEF NoSelfLink, HistFacts
<1>. QED
    BY <1>1, <1>2, <1>4, <1>5, UpdateStep, Zenon DEF Keeps

\* The answers to a digest are snapshots of what the answering node holds, and
\* that is exact.
LEMMA DigestKeeps ==
    ASSUME FiniteFacts, IInv, NEW m \in Nodes, NEW n \in Nodes, DeliverDigest(m, n)
    PROVE  Keeps
<1>1. TypeOK /\ NoSelfLink /\ HistFacts /\ (~lossy => Faithful)
    BY Zenon DEF IInv
<1>2. UNCHANGED <<up, remote, alive, links, local, unsent, hist, edges, restarted>>
    BY Zenon DEF DeliverDigest, ownVars
<1>3. /\ m # n /\ faults' \in 0..MaxFaults /\ lossy' \in BOOLEAN
      /\ chan[m][n] # <<>> /\ Head(chan[m][n]).kind = "digest"
      /\ chan' \in [Nodes -> [Nodes -> Seq(Frame)]]
    BY <1>1, DigestTypes, Zenon
<1>4. TypeOK'
    BY <1>1, <1>2, <1>3, Zenon DEF TypeOK
<1>5. NoSelfLink' /\ HistFacts'
    BY <1>1, <1>2, Zenon DEF NoSelfLink, HistFacts
<1>6. ~lossy' => ~lossy
    BY Zenon DEF DeliverDigest
<1>. SUFFICES ASSUME Faithful PROVE Faithful'
    BY <1>1, <1>4, <1>5, <1>6, Zenon DEF Keeps
<1>7. Answers(n) \subseteq {f \in Frame : Calm(f)}
  <2>1. Calm(Snapshot(n, local[n]))
    <3>1. IsPast(hist[n], local[n].seq, local[n].set)
      BY <1>1 DEF HistFacts, IsPast, TypeOK, Entry
    <3>. QED
      BY <3>1, Zenon DEF Snapshot, Calm
  <2>2. \A o \in Nodes : remote[n][o] # None => Calm(Snapshot(o, remote[n][o]))
    <3>1. \A o \in Nodes : remote[n][o] # None => IsPast(hist[o], remote[n][o].seq, remote[n][o].set)
      BY Zenon DEF Faithful, ViewFacts
    <3>. QED
      BY <3>1, Zenon DEF Snapshot, Calm
  <2>. QED
    BY <1>1, <2>1, <2>2, AnswersTyped, Zenon DEF Answers
<1>8. PICK t \in Seq(Answers(n)) : \A a, b \in Nodes :
                chan'[a][b] = IF a = m /\ b = n THEN Tail(chan[m][n])
                              ELSE IF a = n /\ b = m THEN chan[n][m] \o t ELSE chan[a][b]
    BY <1>1, DigestTypes
<1>9. t \in Seq({f \in Frame : Calm(f)})
    BY <1>7, SeqMono, Zenon
<1>10. \A a, b \in Nodes : Harmless(a, b)
    BY <1>2, <1>3, <1>8, <1>9, ZenonT(40) DEF Harmless
<1>. QED
    BY <1>1, <1>2, <1>10, HarmlessStep, Zenon

\* A tick that sweeps nothing away only adds digests to the links.
LEMMA TickKeeps ==
    ASSUME FiniteFacts, IInv, NEW n \in Nodes, Tick(n)
    PROVE  Keeps
<1>1. TypeOK /\ NoSelfLink /\ HistFacts /\ (~lossy => Faithful)
    BY DEF IInv
<1>2. UNCHANGED <<up, alive, links, local, unsent, hist, edges, restarted>>
    BY Zenon DEF Tick, ownVars
<1>3. /\ remote' \in [Nodes -> [Nodes -> Entry \cup {None}]] /\ lossy' \in BOOLEAN
      /\ ~lossy' => ~lossy /\ \A k, o \in Nodes : remote'[k][o] = remote[k][o]
    BY <1>1, TickFacts, Zenon
<1>4. PICK d \in [Nodes -> Entry \cup {None}], lost \in SUBSET ShakyPeers(n) :
         Broadcast(n, Digest(d), lost)
    BY <1>1, TickFacts, Zenon
<1>5. Digest(d) \in Frame /\ Digest(d).kind = "digest"
    BY FrameTypes, Zenon DEF Digest
<1>6. /\ faults' \in 0..MaxFaults
      /\ chan' \in [Nodes -> [Nodes -> Seq(Frame)]]
      /\ \A m, k \in Nodes :
           chan'[m][k] = IF m = n /\ k \in Peers(n) \ lost THEN Append(chan[m][k], Digest(d))
                         ELSE chan[m][k]
    BY <1>1, <1>4, <1>5, BroadcastTypes
<1>7. TypeOK'
    BY <1>1, <1>2, <1>3, <1>6, Zenon DEF TypeOK
<1>8. NoSelfLink' /\ HistFacts'
    BY <1>1, <1>2, Zenon DEF NoSelfLink, HistFacts
<1>. SUFFICES ASSUME ~lossy' PROVE Faithful'
    BY <1>7, <1>8, Zenon DEF Keeps
<1>9. <<Digest(d)>> \in Seq({f \in Frame : Calm(f)})
    BY <1>5 DEF Calm
<1>10. \A m, k \in Nodes : Append(chan[m][k], Digest(d)) = chan[m][k] \o <<Digest(d)>>
  <2>1. \A m, k \in Nodes : chan[m][k] \in Seq(Frame)
    BY <1>1 DEF TypeOK
  <2>2. ASSUME NEW c \in Seq(Frame), NEW x \in Frame PROVE Append(c, x) = c \o <<x>>
    OBVIOUS
  <2>. QED
    BY <1>5, <2>1, <2>2, Zenon
<1>11. \A a, b \in Nodes : Harmless(a, b)
    BY <1>2, <1>6, <1>9, <1>10, Zenon DEF Harmless
<1>. QED
    BY <1>1, <1>2, <1>3, <1>11, HarmlessStep

\* A new link starts from its ends' own interest.
LEMMA LinkUpKeeps ==
    ASSUME IInv, NEW n \in Nodes, NEW m \in Nodes, LinkUp(n, m)
    PROVE  Keeps
<1>1. TypeOK /\ NoSelfLink /\ HistFacts /\ (~lossy => Faithful)
    BY DEF IInv
<1>2. UNCHANGED <<up, remote, local, unsent, hist, edges, lossy, restarted, faults>>
    BY Zenon DEF LinkUp, ownVars
<1>3. /\ n # m /\ links' = links \cup {{n, m}}
      /\ links' \subseteq SUBSET Nodes /\ alive' \in [Nodes -> SUBSET Nodes]
      /\ chan' \in [Nodes -> [Nodes -> Seq(Frame)]]
      /\ \A a, b \in Nodes : chan'[a][b] = IF (a = n /\ b = m) \/ (a = m /\ b = n)
                                           THEN <<Snapshot(a, local[a])>>
                                           ELSE chan[a][b]
    BY <1>1, LinkUpFacts, ZenonT(60)
<1>4. TypeOK'
    BY <1>1, <1>2, <1>3, Zenon DEF TypeOK
<1>5. NoSelfLink' /\ HistFacts'
  <2>1. \A k \in Nodes : {k, k} # {n, m}
    BY <1>3, Zenon
  <2>. QED
    BY <1>1, <1>2, <1>3, <2>1, Zenon DEF NoSelfLink, HistFacts
<1>. SUFFICES ASSUME Faithful PROVE Faithful'
    BY <1>1, <1>2, <1>4, <1>5, Zenon DEF Keeps
<1>6. ASSUME NEW a \in Nodes, NEW b \in Nodes PROVE Harmless(a, b)
  <2>1. CASE (a = n /\ b = m) \/ (a = m /\ b = n)
    BY <1>3, <2>1, Zenon DEF Harmless
  <2>2. CASE ~((a = n /\ b = m) \/ (a = m /\ b = n))
    <3>1. {a, b} # {n, m}
      BY <2>2, Zenon
    <3>. QED
      BY <1>3, <2>2, <3>1, Zenon DEF Harmless
  <2>. QED
    BY <2>1, <2>2
<1>. QED
    BY <1>1, <1>2, <1>6, HarmlessStep, Zenon

\* A link that closes takes its frames with it.
LEMMA LinkDownKeeps ==
    ASSUME IInv, NEW n \in Nodes, NEW m \in Nodes, LinkDown(n, m)
    PROVE  Keeps
<1>1. TypeOK /\ NoSelfLink /\ HistFacts /\ (~lossy => Faithful)
    BY DEF IInv
<1>2. UNCHANGED <<up, remote, local, unsent, hist, edges, lossy, restarted>> /\ Sever({{n, m}})
    BY Zenon DEF LinkDown, ownVars
<1>3. /\ links' \subseteq SUBSET Nodes /\ alive' \in [Nodes -> SUBSET Nodes]
      /\ chan' \in [Nodes -> [Nodes -> Seq(Frame)]]
      /\ \A a, b \in Nodes : chan'[a][b] = IF {a, b} \in {{n, m}} THEN <<>> ELSE chan[a][b]
    BY <1>1, <1>2, SeverTypes, Zenon
<1>4. links' = links \ {{n, m}}
    BY <1>2 DEF Sever
<1>5. faults' \in 0..MaxFaults
    BY <1>1, InterestAssumption DEF LinkDown, MayLose, TypeOK
<1>6. TypeOK'
    BY <1>1, <1>2, <1>3, <1>5, Zenon DEF TypeOK
<1>7. NoSelfLink' /\ HistFacts'
    BY <1>1, <1>2, <1>4, Zenon DEF NoSelfLink, HistFacts
<1>. SUFFICES ASSUME Faithful PROVE Faithful'
    BY <1>1, <1>2, <1>6, <1>7, Zenon DEF Keeps
<1>8. \A a, b \in Nodes : Harmless(a, b)
    BY <1>3, <1>4, Zenon DEF Harmless
<1>. QED
    BY <1>1, <1>2, <1>8, HarmlessStep, Zenon

\* SWIM's verdicts and a restart touch neither the links nor what is known.
LEMMA VerdictKeeps ==
    ASSUME IInv, NEW n \in Nodes, NEW m \in Nodes,
           Suspect(n, m) \/ Revive(n, m) \/ Restart(n)
    PROVE  Keeps
<1>1. TypeOK /\ NoSelfLink /\ HistFacts /\ (~lossy => Faithful)
    BY Zenon DEF IInv
<1>2. UNCHANGED <<remote, links, chan, local, unsent, hist, edges, lossy>>
    BY Zenon DEF Suspect, Revive, Restart, ownVars
<1>3. TypeOK'
  <2>1. /\ up' \subseteq Nodes /\ restarted' \subseteq Nodes
        /\ alive' \in [Nodes -> SUBSET Nodes] /\ faults' \in 0..MaxFaults
    <3>1. CASE Suspect(n, m)
      BY <1>1, <3>1, InterestAssumption DEF Suspect, MayLose, TypeOK
    <3>2. CASE Revive(n, m)
      BY <1>1, <3>2, ZenonT(40) DEF Revive, TypeOK
    <3>3. CASE Restart(n)
      BY <1>1, <3>3, Zenon DEF Restart, TypeOK
    <3>. QED
      BY <3>1, <3>2, <3>3, ZenonT(40)
  <2>. QED
    BY <1>1, <1>2, <2>1, Zenon DEF TypeOK
<1>4. NoSelfLink' /\ HistFacts'
    BY <1>1, <1>2, Zenon DEF NoSelfLink, HistFacts
<1>. SUFFICES ASSUME Faithful PROVE Faithful'
    BY <1>1, <1>2, <1>3, <1>4, Zenon DEF Keeps
<1>5. \A a, b \in Nodes : Harmless(a, b)
    BY <1>2, Zenon DEF Harmless
<1>. QED
    BY <1>1, <1>2, <1>5, HarmlessStep, Zenon

\* A crash loses the edges that were held: from then on nothing is claimed.
LEMMA CrashKeeps ==
    ASSUME IInv, NEW n \in Nodes, Crash(n)
    PROVE  Keeps
<1>1. TypeOK /\ NoSelfLink /\ HistFacts
    BY Zenon DEF IInv
<1>2. UNCHANGED <<edges, restarted>> /\ Sever(PairsOf(n)) /\ lossy' = TRUE
    BY Zenon DEF Crash
<1>3. /\ links' \subseteq SUBSET Nodes /\ alive' \in [Nodes -> SUBSET Nodes]
      /\ chan' \in [Nodes -> [Nodes -> Seq(Frame)]]
    BY <1>1, <1>2, SeverTypes, Zenon
<1>4. /\ local' = [local EXCEPT ![n] = Nothing] /\ hist' = [hist EXCEPT ![n] = <<{}>>]
      /\ remote' = [remote EXCEPT ![n] = [o \in Nodes |-> None]]
      /\ unsent' = [unsent EXCEPT ![n] = {}]
      /\ up' = up \ {n} /\ MayLose(1) /\ faults' = faults + 1
    BY Zenon DEF Crash
<1>5. Nothing \in Entry /\ Nothing.seq = 0 /\ Nothing.set = {}
    BY ZenonT(40) DEF Nothing, Entry
<1>6. faults' \in 0..MaxFaults
    BY <1>1, <1>4, InterestAssumption DEF MayLose, TypeOK
<1>7. /\ local' \in [Nodes -> Entry] /\ unsent' \in [Nodes -> SUBSET Frame]
      /\ remote' \in [Nodes -> [Nodes -> Entry \cup {None}]]
    BY <1>1, <1>4, <1>5, Zenon DEF TypeOK
<1>8. TypeOK'
    BY <1>1, <1>2, <1>3, <1>4, <1>6, <1>7, Zenon DEF TypeOK
<1>9. NoSelfLink'
    BY <1>1, <1>2, Zenon DEF NoSelfLink, Sever
<1>10. HistFacts'
  <2>1. /\ hist \in [Nodes -> Seq(SUBSET Targets)] /\ local \in [Nodes -> Entry]
        /\ \A o \in Nodes : Len(hist[o]) = local[o].seq + 1 /\ hist[o][local[o].seq + 1] = local[o].set
    BY <1>1, Zenon DEF HistFacts, TypeOK
  <2>2. <<{}>> \in Seq(SUBSET Targets) /\ Len(<<{}>>) = 0 + 1 /\ <<{}>>[0 + 1] = {}
    OBVIOUS
  <2>3. hist' \in [Nodes -> Seq(SUBSET Targets)]
    BY <1>4, <2>1, <2>2, Zenon
  <2>4. \A o \in Nodes : /\ hist'[o] = IF o = n THEN <<{}>> ELSE hist[o]
                         /\ local'[o] = IF o = n THEN Nothing ELSE local[o]
    BY <1>4, <2>1, Zenon
  <2>. QED
    BY <1>5, <2>1, <2>2, <2>3, <2>4, Zenon DEF HistFacts
<1>. QED
    BY <1>2, <1>8, <1>9, <1>10, Zenon DEF Keeps

\* Every step keeps the invariant.
LEMMA NextIInv ==
    ASSUME FiniteFacts, IInv, [Next]_vars
    PROVE  IInv'
<1>. SUFFICES Keeps
    BY Zenon DEF Keeps, IInv
<1>1. CASE UNCHANGED vars
  <2>1. UNCHANGED <<up, local, remote, alive, links, chan, unsent, hist, edges, lossy, restarted,
                    faults>>
    BY <1>1, Zenon DEF vars
  <2>2. TypeOK' /\ NoSelfLink' /\ HistFacts'
    BY <2>1, Zenon DEF IInv, TypeOK, NoSelfLink, HistFacts
  <2>3. Faithful => Faithful'
    BY <2>1, Zenon DEF Faithful, UnsentFacts, FrameFacts, ViewFacts, BaseFirst, Covered
  <2>. QED
    BY <2>1, <2>2, <2>3, Zenon DEF Keeps, IInv
<1>2. ASSUME NEW n \in Nodes, NEW c \in Changes, LocalSet(n, c[2], c[3]) PROVE Keeps
  <2>1. c[2] \in Targets /\ c[3] \in BOOLEAN
    BY InterestAssumption, Zenon
  <2>. QED
    BY <1>2, <2>1, LocalSetKeeps, Zenon
<1>3. ASSUME NEW n \in Nodes, Publish(n) \/ Tick(n) \/ Crash(n) \/ Restart(n) PROVE Keeps
    BY <1>3, PublishKeeps, TickKeeps, CrashKeeps, VerdictKeeps, Zenon
<1>4. ASSUME NEW m \in Nodes, NEW n \in Nodes,
             \/ DeliverUpdate(m, n) \/ DeliverDigest(m, n)
             \/ LinkUp(m, n) \/ LinkDown(m, n) \/ Suspect(m, n) \/ Revive(m, n)
      PROVE  Keeps
    BY <1>4, UpdateKeeps, DigestKeeps, LinkUpKeeps, LinkDownKeeps, VerdictKeeps, Zenon
<1>. QED
    BY <1>1, <1>2, <1>3, <1>4, Zenon DEF Next

INSTANCE FiniteSetTheorems

\* The facts about finite sets hold.
LEMMA FiniteFactsHold == FiniteFacts
<1>1. \A S : IsFiniteSet(S) => Cardinality(S) \in Nat
    BY FS_CardinalityType, Zenon
<1>2. \A S : \A T \in SUBSET S : IsFiniteSet(S) => IsFiniteSet(T) /\ Cardinality(T) <= Cardinality(S)
    BY FS_Subset, Zenon
<1>3. \A S, T : \A f \in Surjection(S, T) : IsFiniteSet(S) =>
           IsFiniteSet(T) /\ Cardinality(T) <= Cardinality(S)
    BY FS_Surjection, Zenon
<1>. QED
    BY <1>1, <1>2, <1>3, ZenonT(40) DEF FiniteFacts

\* The invariant holds in every reachable state.
THEOREM Invariance == Spec => []IInv
<1>1. Init => IInv
    BY InitIInv, Zenon
<1>2. IInv /\ [Next]_vars => IInv'
    BY NextIInv, FiniteFactsHold, Zenon
<1>. QED
    BY <1>1, <1>2, PTL DEF Spec

\* Every variable of the routing keeps its type, whatever is lost, cut, swept
\* or crashed.
THEOREM TypeCorrect == Spec => []TypeOK
<1>1. IInv => TypeOK
    BY ZenonT(40) DEF IInv
<1>. QED
    BY <1>1, Invariance, PTL

\* apply_edge, apply_snapshot and the digest's answers together: until an edge
\* is lost, overtaken or swept from under, whatever a node knows of an origin
\* is what the origin hosted at that seq.
THEOREM Exactness == Spec => []ExactUntilLoss
<1>1. IInv => ExactUntilLoss
  <2>. SUFFICES ASSUME IInv, ~lossy, NEW n \in Nodes, NEW o \in Nodes, remote[n][o] # None
                PROVE  /\ remote[n][o].seq + 1 \in DOMAIN hist[o]
                       /\ remote[n][o].set = hist[o][remote[n][o].seq + 1]
    BY Zenon DEF ExactUntilLoss
  <2>1. IsPast(hist[o], remote[n][o].seq, remote[n][o].set)
    BY Zenon DEF IInv, Faithful, ViewFacts
  <2>2. remote[n][o].seq \in Nat
    BY DEF IInv, TypeOK, Entry
  <2>3. hist[o] \in Seq(SUBSET Targets)
    BY DEF IInv, HistFacts
  <2>. QED
    BY <2>1, <2>2, <2>3 DEF IsPast
<1>. QED
    BY <1>1, Invariance, PTL
=============================================================================
