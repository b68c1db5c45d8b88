---------------------------- MODULE RelayProofs ----------------------------
(***************************************************************************)
(* Proofs about Relay for any mesh, any rooms and users and any number of  *)
(* sends: no connection gets a message twice, none gets one that is not    *)
(* for it, and every miss is explained.                                    *)
(***************************************************************************)
EXTENDS Relay, TLAPS

\* The call or frame x, with the exclusions ex, carries what was sent as s.
Carries(x, ex, s) ==
    /\ x.kind = s.kind
    /\ s.kind = "socket" => /\ x.to = IdOf(s.to) /\ ex = <<>>
                            /\ x.to \notin Excepted(s.from, s.except)
    /\ s.kind # "socket" => x.to = s.to /\ ex = RelayExcepts(s.from, s.except)

\* The send s holds ids of other nodes in its list of others, and is
\* addressed to what its kind says.
WellSent(s) ==
    /\ \A id \in Range(s.except.others) : id.node # s.from
    /\ s.kind = "group" => s.to \in Targets
    /\ s.kind = "socket" => s.to \in ConnIds

SendFacts == \A k \in DOMAIN sends : WellSent(sends[k])

\* The node n is inside a send: nothing of it has left the node.
InCall(n, c, S, W, G) ==
    /\ c.msg \in DOMAIN S /\ S[c.msg].from = n
    /\ Carries(c, c.except, S[c.msg])
    /\ \A m \in Nodes : \A i \in DOMAIN W[m] : W[m][i].msg # c.msg
    /\ \A g \in G : g.msg = c.msg => g.conn.node = n
    /\ c.step = "peers" => c.kind # "socket"
    /\ c.step = "push" => IF c.kind = "socket" THEN c.peers = {c.to.node} /\ c.to.node # n
                          ELSE Nodes \ c.peers \subseteq S[c.msg].blind

CallFacts == \A n \in Nodes : call[n] # Idle => InCall(n, call[n], sends, wire[n], got)

\* The frame f from n to m: its message has not been at m.
InFlight(f, n, m, S, G) ==
    /\ n # m /\ f.msg \in DOMAIN S /\ S[f.msg].from = n
    /\ Carries(f, f.body.entries, S[f.msg]) /\ f.body = PutExcepts(f.body.entries)
    /\ f.kind = "socket" => f.to.node = m
    /\ \A g \in G : g.msg = f.msg => g.conn.node # m

\* No two frames of q are of one message.
Distinct(q) == \A i, j \in DOMAIN q : q[i].msg = q[j].msg => i = j

WireFacts ==
    \A n, m \in Nodes : /\ Distinct(wire[n][m])
                        /\ \A i \in DOMAIN wire[n][m] : InFlight(wire[n][m][i], n, m, sends, got)

FitsSend(s) == Len(s.except.own) + Len(s.except.others) < 2^CountBits

\* What the connection of g got of s was for it.
RightlyGot(g, s) ==
    FitsSend(s) => /\ g.intact
                   /\ IdOf(g.conn) \notin Excepted(s.from, s.except)
                   /\ s.kind = "socket" => IdOf(g.conn) = IdOf(s.to)

GotFacts == \A g \in got : g.msg \in DOMAIN sends /\ RightlyGot(g, sends[g.msg])

\* The connection c has got message k.
Has(G, k, c) == \E g \in G : g.msg = k /\ g.conn = c

\* Who is owed s was addressed by it, and still is.
Owed(c, s, mem) ==
    /\ IdOf(c) \notin Excepted(s.from, s.except)
    /\ s.kind = "socket" => IdOf(c) = IdOf(s.to)
    /\ s.kind = "group" => c.local \in mem[c.node][s.to]

DueFacts ==
    \A d \in due : /\ d.msg \in DOMAIN sends /\ d.conn \in Conns
                   /\ Owed(d.conn, sends[d.msg], member)
                   /\ d.conn.node = sends[d.msg].from => Has(got, d.msg, d.conn)

\* Message k of n is not on its way to m, and someone there waits for it in vain.
Misses(n, k, m) ==
    /\ sends[k].from = n /\ FitsSend(sends[k])
    /\ ~(call[n] # Idle /\ call[n].msg = k)
    /\ \A i \in DOMAIN wire[n][m] : wire[n][m][i].msg # k
    /\ m \notin sends[k].blind /\ <<k, m>> \notin cut
    /\ \E d \in due : d.msg = k /\ d.conn.node = m /\ ~Has(got, k, d.conn)

Missing(n) == {p \in (DOMAIN sends) \X Nodes : Misses(n, p[1], p[2])}

DropFacts == \A n \in Nodes : Cardinality(Missing(n)) <= drops[n]

NoSelfLink == \A n \in Nodes : {n, n} \notin links

\* The inductive invariant.
IInv ==
    /\ TypeOK /\ NoSelfLink /\ twice = {}
    /\ SendFacts /\ CallFacts /\ WireFacts /\ GotFacts /\ DueFacts /\ DropFacts

-----------------------------------------------------------------------------
(* Sequences, by position.                                                 *)

\* What Append does.
LEMMA AppendFacts ==
    ASSUME NEW S, NEW s \in Seq(S), NEW x \in S
    PROVE  /\ Append(s, x) \in Seq(S)
           /\ Len(s) \in Nat
           /\ Len(Append(s, x)) = Len(s) + 1
           /\ DOMAIN s = 1..Len(s)
           /\ DOMAIN Append(s, x) = 1..(Len(s) + 1)
           /\ \A i \in 1..Len(s) : Append(s, x)[i] = s[i]
           /\ Append(s, x)[Len(s) + 1] = x
    OBVIOUS

\* What concatenation does.
LEMMA ConcatFacts ==
    ASSUME NEW S, NEW s \in Seq(S), NEW t \in Seq(S)
    PROVE  /\ s \o t \in Seq(S)
           /\ Len(s \o t) = Len(s) + Len(t)
           /\ Range(s \o t) = Range(s) \cup Range(t)
<1>. DEFINE u == s \o t
<1>1. /\ u \in Seq(S) /\ Len(s) \in Nat /\ Len(t) \in Nat
      /\ DOMAIN s = 1..Len(s) /\ DOMAIN t = 1..Len(t)
      /\ Len(u) = Len(s) + Len(t) /\ DOMAIN u = 1..(Len(s) + Len(t))
      /\ \A i \in 1..Len(s) : u[i] = s[i]
    OBVIOUS
<1>2. \A i \in (Len(s) + 1)..(Len(s) + Len(t)) :
          i - Len(s) \in 1..Len(t) /\ u[i] = t[i - Len(s)]
    OBVIOUS
<1>. HIDE DEF u
<1>3. ASSUME NEW i \in 1..Len(t)
      PROVE  i + Len(s) \in 1..(Len(s) + Len(t)) /\ u[i + Len(s)] = t[i]
  <2>1. /\ i + Len(s) \in (Len(s) + 1)..(Len(s) + Len(t)) /\ (i + Len(s)) - Len(s) = i
        /\ i + Len(s) \in 1..(Len(s) + Len(t))
    BY <1>1
  <2>2. u[i + Len(s)] = t[(i + Len(s)) - Len(s)]
    BY <1>2, <2>1, Zenon
  <2>. QED
    BY <2>1, <2>2
<1>4. \A i \in DOMAIN s : i \in DOMAIN u
    BY <1>1
<1>5. \A i \in DOMAIN u : i \in DOMAIN s \/ i \in (Len(s) + 1)..(Len(s) + Len(t))
    BY <1>1
<1>6. Range(u) \subseteq Range(s) \cup Range(t)
    BY <1>1, <1>2, <1>5, Zenon DEF Range
<1>7. Range(s) \subseteq Range(u)
    BY <1>1, <1>4, Zenon DEF Range
<1>8. Range(t) \subseteq Range(u)
    BY <1>1, <1>3, Zenon DEF Range
<1>9. Range(u) = Range(s) \cup Range(t)
    BY <1>6, <1>7, <1>8, Zenon
<1>. QED
    BY <1>1, <1>9, Zenon DEF u

\* What Head and Tail do.
LEMMA TailFacts ==
    ASSUME NEW S, NEW s \in Seq(S), s # <<>>
    PROVE  /\ Tail(s) \in Seq(S)
           /\ Head(s) \in S /\ Head(s) = s[1]
           /\ Len(s) \in Nat \ {0}
           /\ DOMAIN s = 1..Len(s)
           /\ DOMAIN Tail(s) = 1..(Len(s) - 1)
           /\ \A i \in 1..(Len(s) - 1) : Tail(s)[i] = s[i + 1]
    OBVIOUS

\* A prefix.
LEMMA KeptFacts ==
    ASSUME NEW S, NEW s \in Seq(S), NEW k \in 0..Len(s)
    PROVE  /\ Kept(s, k) \in Seq(S)
           /\ DOMAIN s = 1..Len(s)
           /\ DOMAIN Kept(s, k) = 1..k
           /\ \A i \in 1..k : Kept(s, k)[i] = s[i]
    BY DEF Kept

-----------------------------------------------------------------------------
(* Ids, exclusions and the wire form.                                      *)

\* The fields of a connection and of its id.
LEMMA ConnFacts ==
    /\ \A n, l : Conn(n, l).node = n /\ Conn(n, l).local = l
    /\ \A n, l : IdOf(Conn(n, l)) = [node |-> n, local |-> l]
    /\ \A c : IdOf(c).node = c.node /\ IdOf(c).local = c.local
    BY DEF Conn, IdOf

\* The connections there are.
LEMMA ConnsFacts == \A c : c \in Conns <=> \E n \in Nodes : \E l \in live[n] : c = Conn(n, l)
<1>. TAKE c
<1>1. ASSUME c \in Conns PROVE \E n \in Nodes : \E l \in live[n] : c = Conn(n, l)
  <2>1. PICK T \in {{Conn(n, l) : l \in live[n]} : n \in Nodes} : c \in T
    BY <1>1, Zenon DEF Conns
  <2>2. PICK n \in Nodes : T = {Conn(n, l) : l \in live[n]}
    BY <2>1
  <2>. QED
    BY <2>1, <2>2
<1>2. ASSUME NEW n \in Nodes, NEW l \in live[n], c = Conn(n, l) PROVE c \in Conns
  <2>1. c \in {Conn(n, k) : k \in live[n]}
    BY <1>2
  <2>. QED
    BY <2>1 DEF Conns
<1>. QED
    BY <1>1, <1>2

\* What goes on the wire names exactly the excepted ids.
LEMMA RelayExceptsFacts ==
    ASSUME NEW n \in Nodes, NEW ex \in [own : Seq(Locals), others : Seq(Ids)]
    PROVE  /\ RelayExcepts(n, ex) \in Seq(Ids)
           /\ Len(RelayExcepts(n, ex)) = Len(ex.own) + Len(ex.others)
           /\ Range(RelayExcepts(n, ex)) = Excepted(n, ex)
<1>. DEFINE a == NodeExcepts(n, ex)
            b == ex.others
<1>1. /\ ex.own \in Seq(Locals) /\ b \in Seq(Ids) /\ DOMAIN ex.own = 1..Len(ex.own)
      /\ Len(ex.own) \in Nat /\ Len(b) \in Nat
    OBVIOUS
<1>2. /\ DOMAIN a = 1..Len(ex.own)
      /\ \A i \in 1..Len(ex.own) : a[i] = [node |-> n, local |-> ex.own[i]]
    BY <1>1 DEF NodeExcepts
<1>3. \A i \in 1..Len(ex.own) : [node |-> n, local |-> ex.own[i]] \in Ids
    BY <1>1 DEF Ids
<1>4. a \in [1..Len(ex.own) -> Ids]
    BY <1>1, <1>3 DEF NodeExcepts
<1>5. a \in Seq(Ids) /\ Len(a) = Len(ex.own)
  <2>. HIDE DEF a
  <2>. QED
    BY <1>1, <1>4
<1>6. Range(a) = {[node |-> n, local |-> l] : l \in Range(ex.own)}
    BY <1>1, <1>2, Zenon DEF Range
<1>7. a \o b \in Seq(Ids) /\ Len(a \o b) = Len(a) + Len(b) /\ Range(a \o b) = Range(a) \cup Range(b)
  <2>1. a \in Seq(Ids) /\ b \in Seq(Ids)
    BY <1>1, <1>5
  <2>. HIDE DEF a, b
  <2>. QED
    BY <2>1, ConcatFacts
<1>. QED
    BY <1>5, <1>6, <1>7, Zenon DEF RelayExcepts, RemoteExcept, Excepted

\* A list whose length fits its count arrives as it was sent.
LEMMA ArrivesWhole ==
    ASSUME NEW e \in Seq(Ids), Len(e) < 2^CountBits
    PROVE  PayloadIntact(PutExcepts(e)) /\ GetExcepts(PutExcepts(e)) = e
<1>1. 2^CountBits \in Nat \ {0}
    BY RelayAssumption, Zenon
<1>2. \A N \in Nat \ {0} : \A x \in Nat : x < N => x % N = x
    OBVIOUS
<1>3. Len(e) % 2^CountBits = Len(e)
    BY <1>1, <1>2
<1>4. PutExcepts(e).count = Len(e) /\ PutExcepts(e).entries = e
    BY <1>3 DEF PutExcepts
<1>5. SubSeq(e, 1, Len(e)) = e
    OBVIOUS
<1>. QED
    BY <1>4, <1>5, Zenon DEF PayloadIntact, GetExcepts

\* What is read from a frame is what fits the types.
LEMMA WireForm ==
    ASSUME NEW e \in Seq(Ids)
    PROVE  PutExcepts(e) \in [count : Nat, entries : Seq(Ids)] /\ PutExcepts(e).entries = e
<1>1. 2^CountBits \in Nat \ {0}
    BY RelayAssumption, Zenon
<1>2. \A N \in Nat \ {0} : \A x \in Nat : x % N \in Nat
    OBVIOUS
<1>3. Len(e) % 2^CountBits \in Nat
    BY <1>1, <1>2
<1>. QED
    BY <1>3 DEF PutExcepts

\* The receiver leaves out the excepted connections of its own, and no other.
LEMMA ExceptsForFacts ==
    ASSUME NEW n \in Nodes, NEW s \in Sends, FitsSend(s),
           NEW x, Carries(x, x.body.entries, s), x.body = PutExcepts(x.body.entries)
    PROVE  /\ PayloadIntact(x.body)
           /\ s.kind = "socket" => ExceptsFor(n, GetExcepts(x.body)) = {}
           /\ s.kind # "socket" =>
                \A l : l \in ExceptsFor(n, GetExcepts(x.body))
                         <=> [node |-> n, local |-> l] \in Excepted(s.from, s.except)
<1>. DEFINE e == x.body.entries
<1>1. /\ s.from \in Nodes /\ s.except \in [own : Seq(Locals), others : Seq(Ids)]
      /\ Len(s.except.own) \in Nat /\ Len(s.except.others) \in Nat
    BY DEF Sends
<1>2. CASE s.kind = "socket"
  <2>1. e = <<>>
    BY <1>2 DEF Carries
  <2>2. e \in Seq(Ids) /\ Len(e) = 0
    BY <2>1
  <2>3. Len(e) < 2^CountBits
    <3>1. 2^CountBits \in Nat \ {0}
      BY RelayAssumption, Zenon
    <3>. QED
      BY <2>2, <3>1
  <2>. HIDE DEF e
  <2>4. PayloadIntact(x.body) /\ GetExcepts(x.body) = e
    BY <2>2, <2>3, ArrivesWhole, Zenon DEF e
  <2>5. ExceptsFor(n, <<>>) = {}
    BY DEF ExceptsFor, Range
  <2>. QED
    BY <1>2, <2>1, <2>4, <2>5, Zenon
<1>3. CASE s.kind # "socket"
  <2>1. e = RelayExcepts(s.from, s.except)
    BY <1>3, Zenon DEF Carries
  <2>2. e \in Seq(Ids) /\ Range(e) = Excepted(s.from, s.except) /\ Len(e) < 2^CountBits
    BY <1>1, <2>1, RelayExceptsFacts, Zenon DEF FitsSend
  <2>. HIDE DEF e
  <2>3. PayloadIntact(x.body) /\ GetExcepts(x.body) = e
    BY <2>2, ArrivesWhole DEF e
  <2>4. \A id \in Range(e) : id \in Ids
    BY <2>2 DEF Range
  <2>5. \A id \in Ids : id = [node |-> id.node, local |-> id.local]
    BY DEF Ids
  <2>6. \A l : l \in ExceptsFor(n, e) <=> [node |-> n, local |-> l] \in Range(e)
    <3>. TAKE l
    <3>1. ASSUME l \in ExceptsFor(n, e) PROVE [node |-> n, local |-> l] \in Range(e)
      <4>1. PICK id \in Range(e) : id.node = n /\ l = id.local
        BY <3>1, Zenon DEF ExceptsFor
      <4>. QED
        BY <2>4, <2>5, <4>1
    <3>2. ASSUME [node |-> n, local |-> l] \in Range(e) PROVE l \in ExceptsFor(n, e)
      <4>1. [node |-> n, local |-> l].node = n /\ [node |-> n, local |-> l].local = l
        OBVIOUS
      <4>. QED
        BY <3>2, <4>1, Zenon DEF ExceptsFor
    <3>. QED
      BY <3>1, <3>2
  <2>. QED
    BY <1>3, <2>2, <2>3, <2>6, Zenon
<1>. QED
    BY <1>2, <1>3, Zenon

-----------------------------------------------------------------------------
(* What the actions do to the state, by field.                             *)

\* A fan-out on n of a message that has not been there.
LEMMA PushFacts ==
    ASSUME NEW n, NEW k, NEW kind, NEW to, NEW except, NEW intact,
           Push(n, k, kind, to, except, intact), twice = {},
           \A g \in got : g.msg = k => g.conn.node # n
    PROVE  /\ twice' = {}
           /\ got \subseteq got'
           /\ \A g \in got' : \/ g \in got
                              \/ /\ g.msg = k /\ g.intact = intact
                                 /\ \E l \in Recipients(n, kind, to) \ except : g.conn = Conn(n, l)
           /\ \A l \in Recipients(n, kind, to) \ except : Has(got', k, Conn(n, l))
<1>. DEFINE F(l) == [conn |-> Conn(n, l), msg |-> k, intact |-> intact]
            now == {F(l) : l \in Recipients(n, kind, to) \ except}
<1>1. /\ got' = got \cup now
      /\ twice' = twice \cup {d \in now : \E g \in got : g.conn = d.conn /\ g.msg = d.msg}
    BY DEF Push
<1>2. \A l : F(l).conn = Conn(n, l) /\ F(l).msg = k /\ F(l).intact = intact
    OBVIOUS
<1>3. \A l : F(l).conn.node = n
    BY <1>2, ConnFacts
<1>. HIDE DEF F
<1>4. \A d \in now : d.msg = k /\ d.conn.node = n /\ d.intact = intact
                     /\ \E l \in Recipients(n, kind, to) \ except : d.conn = Conn(n, l)
    BY <1>2, <1>3, Zenon
<1>5. \A l \in Recipients(n, kind, to) \ except : Has(got', k, Conn(n, l))
  <2>. SUFFICES ASSUME NEW l \in Recipients(n, kind, to) \ except PROVE Has(got', k, Conn(n, l))
    OBVIOUS
  <2>1. F(l) \in got'
    BY <1>1
  <2>. QED
    BY <1>2, <2>1, Zenon DEF Has
<1>. HIDE DEF now
<1>6. twice' = {}
    BY <1>1, <1>4, ZenonT(40)
<1>. QED
    BY <1>1, <1>4, <1>5, <1>6, Zenon

\* What is used of the theory of finite sets; FiniteFactsHold proves it.
FiniteFacts ==
    /\ IsFiniteSet({}) /\ Cardinality({}) = 0
    /\ \A S : IsFiniteSet(S) => Cardinality(S) \in Nat
    /\ \A S : \A T \in SUBSET S : IsFiniteSet(S) => IsFiniteSet(T) /\ Cardinality(T) <= Cardinality(S)
    /\ \A n \in Nat : IsFiniteSet(1..n)
    /\ \A S, T : IsFiniteSet(S) /\ IsFiniteSet(T) =>
          IsFiniteSet(S \X T) /\ Cardinality(S \X T) = Cardinality(S) * Cardinality(T)
    /\ \A S, T : IsFiniteSet(S) /\ IsFiniteSet(T) =>
          /\ IsFiniteSet(S \cup T) /\ IsFiniteSet(S \cap T)
          /\ Cardinality(S \cup T) = Cardinality(S) + Cardinality(T) - Cardinality(S \cap T)
    /\ \A x : IsFiniteSet({x}) /\ Cardinality({x}) = 1

\* The empty set has no elements.
LEMMA FinEmpty == ASSUME FiniteFacts
    PROVE  IsFiniteSet({}) /\ Cardinality({}) = 0
    BY Zenon DEF FiniteFacts

\* A finite set has a number of elements.
LEMMA FinCount == ASSUME FiniteFacts, NEW S, IsFiniteSet(S)
    PROVE  Cardinality(S) \in Nat
    BY Zenon DEF FiniteFacts

\* A part of a finite set is finite and no larger.
LEMMA FinSubset == ASSUME FiniteFacts, NEW S, IsFiniteSet(S), NEW T \in SUBSET S
    PROVE  IsFiniteSet(T) /\ Cardinality(T) <= Cardinality(S)
    BY Zenon DEF FiniteFacts

\* The numbers up to a bound are finitely many.
LEMMA FinInterval == ASSUME FiniteFacts, NEW n \in Nat
    PROVE  IsFiniteSet(1..n)
    BY Zenon DEF FiniteFacts

\* The pairs of two finite sets are counted by the product.
LEMMA FinProduct == ASSUME FiniteFacts, NEW S, IsFiniteSet(S), NEW T, IsFiniteSet(T)
    PROVE  IsFiniteSet(S \X T) /\ Cardinality(S \X T) = Cardinality(S) * Cardinality(T)
    BY Zenon DEF FiniteFacts

\* Two finite sets together, counted by inclusion and exclusion.
LEMMA FinUnion == ASSUME FiniteFacts, NEW S, IsFiniteSet(S), NEW T, IsFiniteSet(T)
    PROVE  /\ IsFiniteSet(S \cup T) /\ IsFiniteSet(S \cap T)
           /\ Cardinality(S \cup T) = Cardinality(S) + Cardinality(T) - Cardinality(S \cap T)
    BY Zenon DEF FiniteFacts

\* A singleton has one element.
LEMMA FinSingleton == ASSUME FiniteFacts, NEW x
    PROVE  IsFiniteSet({x}) /\ Cardinality({x}) = 1
    BY Zenon DEF FiniteFacts

\* The counts of misses are counts.
LEMMA MissingFinite ==
    ASSUME FiniteFacts, TypeOK, NEW n
    PROVE  IsFiniteSet(Missing(n)) /\ Cardinality(Missing(n)) \in Nat
<1>1. DOMAIN sends = 1..Len(sends) /\ Len(sends) \in Nat
    BY DEF TypeOK
<1>2. IsFiniteSet(1..Len(sends))
    BY <1>1, FinInterval
<1>3. IsFiniteSet((DOMAIN sends) \X Nodes)
    BY <1>1, <1>2, RelayAssumption, FinProduct, Zenon
<1>4. Missing(n) \subseteq (DOMAIN sends) \X Nodes
    BY Zenon DEF Missing
<1>. QED
    BY <1>3, <1>4, FinSubset, FinCount, Zenon

\* A step that adds no miss of n keeps its count covered.
LEMMA NoNewMiss ==
    ASSUME FiniteFacts, TypeOK, TypeOK', NEW n \in Nodes, Cardinality(Missing(n)) <= drops[n],
           drops'[n] = drops[n],
           \A k \in DOMAIN sends' : \A m \in Nodes :
               Misses(n, k, m)' => k \in DOMAIN sends /\ Misses(n, k, m)
    PROVE  Cardinality(Missing(n)') <= drops'[n]
<1>1. Missing(n)' \subseteq Missing(n)
  <2>1. Missing(n)' = {p \in (DOMAIN sends') \X Nodes : Misses(n, p[1], p[2])'}
    BY Zenon DEF Missing
  <2>. SUFFICES ASSUME NEW p \in Missing(n)' PROVE p \in Missing(n)
    OBVIOUS
  <2>2. p \in (DOMAIN sends') \X Nodes /\ Misses(n, p[1], p[2])'
    BY <2>1, Zenon
  <2>3. p[1] \in DOMAIN sends' /\ p[2] \in Nodes /\ p = <<p[1], p[2]>>
    BY <2>2
  <2>4. p[1] \in DOMAIN sends /\ Misses(n, p[1], p[2])
    BY <2>2, <2>3, Zenon
  <2>5. p \in (DOMAIN sends) \X Nodes
    BY <2>3, <2>4, Zenon
  <2>. QED
    BY <2>4, <2>5, Zenon DEF Missing
<1>2. IsFiniteSet(Missing(n)) /\ Cardinality(Missing(n)) \in Nat
    BY MissingFinite
<1>3. Cardinality(Missing(n)') <= Cardinality(Missing(n)) /\ Cardinality(Missing(n)') \in Nat
  <2>1. \A S, T : IsFiniteSet(T) /\ S \subseteq T => Cardinality(S) <= Cardinality(T) /\ Cardinality(S) \in Nat
    BY FinSubset, FinCount, Zenon
  <2>. QED
    BY <1>1, <1>2, <2>1, Zenon
<1>4. drops[n] \in Nat
    BY Zenon DEF TypeOK
<1>. QED
    BY <1>2, <1>3, <1>4

\* A connection of a process that goes on, and that stays in the registry.
LEMMA ConnStays ==
    ASSUME NEW n \in Nodes, NEW l \in live'[n], life'[n] = life[n]
    PROVE  Conn(n, l) \in Conns'
<1>1. Conn(n, l) = [node |-> n, local |-> l, life |-> life'[n]]
    BY DEF Conn
<1>2. Conns' = UNION {{[node |-> x, local |-> y, life |-> life'[x]] : y \in live'[x]} : x \in Nodes}
    BY DEF Conns, Conn
<1>. QED
    BY <1>1, <1>2

\* Those owed a message stay owed it while they and their targets stay.
LEMMA DueStays ==
    ASSUME IInv, UNCHANGED <<sends, got>>, due' \subseteq due,
           \A d \in due' : \A n \in Nodes : \A l \in live[n] : d.conn = Conn(n, l) =>
               /\ l \in live'[n] /\ life'[n] = life[n]
               /\ \A t \in Targets :
                    sends[d.msg].to = t /\ l \in member[n][t] => l \in member'[n][t]
    PROVE  DueFacts'
<1>. SUFFICES ASSUME NEW d \in due'
              PROVE  /\ d.msg \in DOMAIN sends /\ d.conn \in Conns'
                     /\ Owed(d.conn, sends[d.msg], member')
                     /\ d.conn.node = sends[d.msg].from => Has(got, d.msg, d.conn)
    BY Zenon DEF DueFacts
<1>1. /\ d.msg \in DOMAIN sends /\ d.conn \in Conns
      /\ Owed(d.conn, sends[d.msg], member)
      /\ d.conn.node = sends[d.msg].from => Has(got, d.msg, d.conn)
    BY Zenon DEF IInv, DueFacts
<1>2. PICK n \in Nodes : \E l \in live[n] : d.conn = Conn(n, l)
    BY <1>1, ConnsFacts, Zenon
<1>. PICK l \in live[n] : d.conn = Conn(n, l)
    BY <1>2, Zenon
<1>3. /\ l \in live'[n] /\ life'[n] = life[n]
      /\ \A t \in Targets : sends[d.msg].to = t /\ l \in member[n][t] => l \in member'[n][t]
    OBVIOUS
<1>4. d.conn \in Conns'
    BY <1>3, ConnStays, Zenon
<1>5. d.conn.node = n /\ d.conn.local = l
    BY ConnFacts
<1>6. sends[d.msg].kind = "group" => sends[d.msg].to \in Targets
    BY <1>1, Zenon DEF IInv, SendFacts, WellSent
<1>7. Owed(d.conn, sends[d.msg], member')
    BY <1>1, <1>3, <1>5, <1>6, Zenon DEF Owed
<1>. QED
    BY <1>1, <1>4, <1>7, Zenon

\* Queues lose only their ends, and of every frame that is gone the step says
\* that it was cut, or no one is left to miss it.
QueuesCut ==
    \A x, y \in Nodes : \E k \in 0..Len(wire[x][y]) :
        /\ wire'[x][y] = Kept(wire[x][y], k)
        /\ \/ \A i \in (k + 1)..Len(wire[x][y]) : <<wire[x][y][i].msg, y>> \in cut'
           \/ \A d \in due' : d.conn.node # y

\* A node goes on with what it does, or loses all it has sent.
NodesCut ==
    \A x \in Nodes :
        \/ call'[x] = call[x] /\ drops'[x] = drops[x]
        \/ call'[x] = Idle /\ \A j \in DOMAIN sends : \A y \in Nodes :
                                  sends[j].from = x => <<j, y>> \in cut'

\* A step that takes from the queues and tells keeps the rest of the invariant.
LEMMA Shrunk ==
    ASSUME FiniteFacts, IInv, TypeOK', NoSelfLink', DueFacts',
           UNCHANGED <<sends, got, twice>>, due' \subseteq due, cut \subseteq cut',
           QueuesCut, NodesCut
    PROVE  IInv'
<1>1. /\ SendFacts /\ CallFacts /\ WireFacts /\ GotFacts /\ DropFacts /\ TypeOK /\ twice = {}
    BY Zenon DEF IInv
<1>2. \A x, y \in Nodes : wire[x][y] \in Seq(Frames)
    BY <1>1 DEF TypeOK
<1>3. \A x, y \in Nodes : \A i \in DOMAIN wire'[x][y] :
          i \in DOMAIN wire[x][y] /\ wire'[x][y][i] = wire[x][y][i]
  <2>. TAKE x, y \in Nodes
  <2>1. PICK k \in 0..Len(wire[x][y]) : wire'[x][y] = Kept(wire[x][y], k)
    BY ZenonT(40) DEF QueuesCut
  <2>. DEFINE q == wire[x][y]
              p == wire'[x][y]
  <2>2. q \in Seq(Frames) /\ k \in 0..Len(q) /\ p = Kept(q, k)
    BY <1>2, <2>1
  <2>. HIDE DEF q, p
  <2>3. DOMAIN q = 1..Len(q) /\ DOMAIN p = 1..k /\ \A i \in 1..k : p[i] = q[i]
    BY <2>2, KeptFacts
  <2>4. \A i \in DOMAIN p : i \in DOMAIN q /\ p[i] = q[i]
    BY <2>2, <2>3
  <2>. QED
    BY <2>4, Zenon DEF p, q
<1>4. SendFacts' /\ GotFacts' /\ twice' = {}
    BY <1>1, Zenon DEF SendFacts, GotFacts
<1>5. CallFacts'
  <2>. SUFFICES ASSUME NEW x \in Nodes, call'[x] # Idle
                PROVE  InCall(x, call'[x], sends, wire'[x], got)
    BY Zenon DEF CallFacts
  <2>0. call'[x] = call[x]
    BY DEF NodesCut
  <2>1. call'[x] = call[x] /\ InCall(x, call[x], sends, wire[x], got)
    BY <1>1, <2>0, Zenon DEF CallFacts
  <2>3. \A y \in Nodes : \A i \in DOMAIN wire[x][y] : wire[x][y][i].msg # call[x].msg
    BY <2>1, Zenon DEF InCall
  <2>2. \A y \in Nodes : \A i \in DOMAIN wire'[x][y] : wire'[x][y][i].msg # call[x].msg
    BY <1>3, <2>3
  <2>. QED
    BY <2>1, <2>2, Zenon DEF InCall
<1>6. WireFacts'
  <2>. SUFFICES ASSUME NEW x \in Nodes, NEW y \in Nodes
                PROVE  /\ Distinct(wire'[x][y])
                       /\ \A i \in DOMAIN wire'[x][y] : InFlight(wire'[x][y][i], x, y, sends, got)
    BY Zenon DEF WireFacts
  <2>1. /\ Distinct(wire[x][y])
        /\ \A i \in DOMAIN wire[x][y] : InFlight(wire[x][y][i], x, y, sends, got)
    BY <1>1, Zenon DEF WireFacts
  <2>. QED
    BY <1>3, <2>1, Zenon DEF Distinct
<1>7. ASSUME NEW x \in Nodes, NEW k \in DOMAIN sends, NEW y \in Nodes, Misses(x, k, y)',
             call'[x] = call[x]
      PROVE  Misses(x, k, y)
  <2>1. /\ sends[k].from = x /\ FitsSend(sends[k])
        /\ ~(call[x] # Idle /\ call[x].msg = k)
        /\ \A i \in DOMAIN wire'[x][y] : wire'[x][y][i].msg # k
        /\ y \notin sends[k].blind /\ <<k, y>> \notin cut'
        /\ \E d \in due' : d.msg = k /\ d.conn.node = y /\ ~Has(got, k, d.conn)
    BY <1>7, Zenon DEF Misses
  <2>2. PICK j \in 0..Len(wire[x][y]) :
               /\ wire'[x][y] = Kept(wire[x][y], j)
               /\ \/ \A i \in (j + 1)..Len(wire[x][y]) : <<wire[x][y][i].msg, y>> \in cut'
                  \/ \A d \in due' : d.conn.node # y
    BY Zenon DEF QueuesCut
  <2>. DEFINE q == wire[x][y]
              p == wire'[x][y]
  <2>3. q \in Seq(Frames) /\ j \in 0..Len(q) /\ p = Kept(q, j)
    BY <1>2, <2>2, Zenon
  <2>4. \A i \in (j + 1)..Len(q) : <<q[i].msg, y>> \in cut'
    BY <2>1, <2>2, Zenon
  <2>. HIDE DEF q, p
  <2>5. DOMAIN q = 1..Len(q) /\ DOMAIN p = 1..j /\ \A i \in 1..j : p[i] = q[i]
    BY <2>3, KeptFacts, ZenonT(40)
  <2>6. \A i \in DOMAIN q : i \in (j + 1)..Len(q) \/ (i \in DOMAIN p /\ p[i] = q[i])
    BY <2>3, <2>5
  <2>7. \A i \in DOMAIN q : q[i].msg # k
    BY <2>1, <2>4, <2>6, Zenon DEF p
  <2>8. <<k, y>> \notin cut
    BY <2>1, Zenon
  <2>9. \E d \in due : d.msg = k /\ d.conn.node = y /\ ~Has(got, k, d.conn)
    BY <2>1, Zenon
  <2>. QED
    BY <2>1, <2>7, <2>8, <2>9, Zenon DEF Misses, q
<1>8. ASSUME NEW x \in Nodes PROVE Cardinality(Missing(x)') <= drops'[x]
  <2>1. CASE call'[x] = call[x] /\ drops'[x] = drops[x]
    <3>1. Cardinality(Missing(x)) <= drops[x]
      BY <1>1, Zenon DEF DropFacts
    <3>2. \A k \in DOMAIN sends' : \A y \in Nodes :
               Misses(x, k, y)' => k \in DOMAIN sends /\ Misses(x, k, y)
      BY <1>7, <2>1, Zenon
    <3>. QED
      BY <1>1, <2>1, <3>1, <3>2, NoNewMiss, Zenon
  <2>2. CASE \A j \in DOMAIN sends : \A y \in Nodes : sends[j].from = x => <<j, y>> \in cut'
    <3>1. \A k \in DOMAIN sends : \A y \in Nodes : ~Misses(x, k, y)'
      BY <2>2, Zenon DEF Misses
    <3>2. Missing(x)' = {p \in (DOMAIN sends) \X Nodes : Misses(x, p[1], p[2])'}
      BY Zenon DEF Missing
    <3>3. Missing(x)' = {}
      BY <3>1, <3>2, Zenon
    <3>4. Cardinality(Missing(x)') = 0
      BY <3>3, FinEmpty, Zenon
    <3>5. drops'[x] \in Nat
      BY DEF TypeOK
    <3>. QED
      BY <3>4, <3>5
  <2>. QED
    BY <2>1, <2>2, Zenon DEF NodesCut
<1>9. DropFacts'
    BY <1>8, Zenon DEF DropFacts
<1>. QED
    BY <1>4, <1>5, <1>6, <1>9, Zenon DEF IInv

-----------------------------------------------------------------------------
(* Types.                                                                  *)

\* The exclusions a Target may hold, by type; and those of others name others.
LEMMA ExceptListsFacts ==
    ASSUME TypeOK, NEW n \in Nodes, NEW ex \in ExceptLists(n)
    PROVE  /\ ex \in [own : Seq(Locals), others : Seq(Ids)]
           /\ \A id \in Range(ex.others) : id.node # n
<1>. DEFINE A == {c.local : c \in {c \in minted : c.node = n}}
            B == {IdOf(c) : c \in {c \in minted : c.node # n}}
<1>1. \A c \in minted : c.node \in Nodes /\ c.local \in Locals
    BY Zenon DEF TypeOK, ConnIds
<1>2. A \subseteq Locals
    BY <1>1, Zenon
<1>3. B \subseteq Ids /\ \A id \in B : id.node # n
    BY <1>1 DEF IdOf, Ids
<1>4. ex \in [own : Lists(A), others : Lists(B)]
    BY Zenon DEF ExceptLists
<1>. HIDE DEF A, B
<1>5. ASSUME NEW S, NEW q \in Lists(S) PROVE q \in Seq(S)
  <2>1. PICK T \in {[1..k -> S] : k \in 0..MaxExcept} : q \in T
    BY Zenon DEF Lists
  <2>2. PICK k \in 0..MaxExcept : T = [1..k -> S]
    BY <2>1
  <2>3. k \in Nat
    BY <2>2, RelayAssumption
  <2>. QED
    BY <2>1, <2>2, <2>3
<1>6. ex.own \in Seq(A) /\ ex.others \in Seq(B)
    BY <1>4, <1>5
<1>7. ex.own \in Seq(Locals) /\ ex.others \in Seq(Ids)
    BY <1>2, <1>3, <1>6
<1>8. \A id \in Range(ex.others) : id \in B
    BY <1>6 DEF Range
<1>9. ex = [own |-> ex.own, others |-> ex.others]
    BY <1>4
<1>. QED
    BY <1>3, <1>7, <1>8, <1>9, Zenon

\* Connections coming and going keep the types.
LEMMA ChurnType == ASSUME TypeOK, Churn PROVE TypeOK'
<1>0. UNCHANGED <<life, known, alive, links, wire, call, drops, sends>>
    BY Zenon DEF Churn, meshVars
<1>1. /\ life \in [Nodes -> Nat] /\ live \in [Nodes -> SUBSET Locals]
      /\ gen \in [Nodes -> [Slots -> Nat]] /\ member \in [Nodes -> [Targets -> SUBSET Locals]]
      /\ minted \subseteq ConnIds
    BY Zenon DEF TypeOK
<1>2. PICK n \in Nodes : \/ \E s \in Slots : Open(n, s)
                         \/ \E l \in live[n] : Close(n, l)
                         \/ \E l \in live[n], t \in Targets : Join(n, l, t) \/ Leave(n, l, t)
    BY Zenon DEF Churn
<1>. DEFINE Goal == /\ live' \in [Nodes -> SUBSET Locals] /\ gen' \in [Nodes -> [Slots -> Nat]]
                    /\ member' \in [Nodes -> [Targets -> SUBSET Locals]] /\ minted' \subseteq ConnIds
<1>3. ASSUME NEW s \in Slots, Open(n, s) PROVE Goal
  <2>1. gen[n][s] \in Nat /\ <<s, gen[n][s]>> \in Locals /\ life[n] \in Nat
    BY <1>1, Zenon DEF Locals
  <2>2. Conn(n, <<s, gen[n][s]>>) \in ConnIds
    BY <2>1, Zenon DEF Conn, ConnIds
  <2>3. live' \in [Nodes -> SUBSET Locals]
    BY <1>1, <1>3, <2>1, Zenon DEF Open
  <2>4. gen' \in [Nodes -> [Slots -> Nat]]
    BY <1>1, <1>3, <2>1 DEF Open
  <2>5. member' = member /\ minted' \subseteq ConnIds
    BY <1>1, <1>3, <2>2 DEF Open
  <2>. QED
    BY <1>1, <2>3, <2>4, <2>5, Zenon
<1>4. ASSUME NEW l \in live[n], Close(n, l) PROVE Goal
    BY <1>1, <1>4 DEF Close
<1>5. ASSUME NEW l \in live[n], NEW t \in Targets, Join(n, l, t) PROVE Goal
    BY <1>1, <1>5 DEF Join
<1>6. ASSUME NEW l \in live[n], NEW t \in Targets, Leave(n, l, t) PROVE Goal
    BY <1>1, <1>6 DEF Leave
<1>7. Goal
    BY <1>2, <1>3, <1>4, <1>5, <1>6, Zenon
<1>. QED
    BY <1>0, <1>7, Zenon DEF TypeOK

\* A send keeps the types.
LEMMA SendType ==
    ASSUME TypeOK, NEW n \in Nodes, NEW k \in Nat, NEW ex \in ExceptLists(n)
    PROVE  /\ \A t \in Targets : Sent(n, "group", t, ex) \in Sends
           /\ Sent(n, "all", Everyone, ex) \in Sends
           /\ \A c \in minted : Sent(n, "socket", c, ex) \in Sends /\ IdOf(c) \in Ids
           /\ RelayExcepts(n, ex) \in Seq(Ids)
<1>1. ex \in [own : Seq(Locals), others : Seq(Ids)]
    BY ExceptListsFacts
<1>2. RelayExcepts(n, ex) \in Seq(Ids)
    BY <1>1, RelayExceptsFacts, Zenon
<1>3. \A c \in minted : c \in ConnIds /\ IdOf(c) \in Ids
    BY Zenon DEF TypeOK, ConnIds, IdOf, Ids
<1>4. {} \in SUBSET Nodes
    OBVIOUS
<1>5. ASSUME NEW kind \in Kinds, NEW to \in Targets \cup {Everyone} \cup ConnIds
      PROVE  Sent(n, kind, to, ex) \in Sends
    BY <1>1, <1>4, Zenon DEF Sent, Sends
<1>6. "group" \in Kinds /\ "all" \in Kinds /\ "socket" \in Kinds
    BY DEF Kinds
<1>. QED
    BY <1>2, <1>3, <1>5, <1>6, Zenon

\* What a broken link leaves in the queues.
LEMMA CutWire ==
    ASSUME TypeOK, NoSelfLink, NEW n \in Nodes, NEW m \in Nodes, LinkDown(n, m)
    PROVE  /\ n # m
           /\ wire' \in [Nodes -> [Nodes -> Seq(Frames)]]
           /\ \E i \in 0 .. Len(wire[n][m]), j \in 0 .. Len(wire[m][n]) :
                /\ wire'[n][m] = Kept(wire[n][m], i) /\ wire'[m][n] = Kept(wire[m][n], j)
                /\ cut' = cut \cup Lost(wire[n][m], i, m) \cup Lost(wire[m][n], j, n)
           /\ \A x, y \in Nodes : <<x, y>> # <<n, m>> /\ <<x, y>> # <<m, n>>
                                     => wire'[x][y] = wire[x][y]
<1>1. n # m
    BY Zenon DEF NoSelfLink, LinkDown, Pair
<1>2. PICK i \in 0 .. Len(wire[n][m]), j \in 0 .. Len(wire[m][n]) :
        /\ wire' = [wire EXCEPT ![n][m] = Kept(@, i), ![m][n] = Kept(@, j)]
        /\ cut' = cut \cup Lost(wire[n][m], i, m) \cup Lost(wire[m][n], j, n)
    BY Zenon DEF LinkDown
<1>3. wire \in [Nodes -> [Nodes -> Seq(Frames)]]
    BY DEF TypeOK
<1>. DEFINE a == Kept(wire[n][m], i)
            b == Kept(wire[m][n], j)
<1>4. a \in Seq(Frames) /\ b \in Seq(Frames)
  <2>1. wire[n][m] \in Seq(Frames) /\ wire[m][n] \in Seq(Frames)
    BY <1>3, Zenon
  <2>. QED
    BY <2>1, KeptFacts, Zenon
<1>5. wire' = [wire EXCEPT ![n] = [wire[n] EXCEPT ![m] = a], ![m] = [wire[m] EXCEPT ![n] = b]]
    BY <1>1, <1>2, <1>3, Zenon
<1>. HIDE DEF a, b
<1>6. /\ wire'[n] = [wire[n] EXCEPT ![m] = a] /\ wire'[m] = [wire[m] EXCEPT ![n] = b]
      /\ \A x \in Nodes : x # n /\ x # m => wire'[x] = wire[x]
      /\ wire' \in [Nodes -> [Nodes -> Seq(Frames)]]
    BY <1>1, <1>3, <1>4, <1>5, Zenon
<1>7. wire'[n][m] = a /\ wire'[m][n] = b
    BY <1>3, <1>6, ZenonT(40)
<1>8. \A x, y \in Nodes : <<x, y>> # <<n, m>> /\ <<x, y>> # <<m, n>>
                             => wire'[x][y] = wire[x][y]
    BY <1>3, <1>6, ZenonT(40)
<1>. QED
    BY <1>1, <1>2, <1>6, <1>7, <1>8, Zenon DEF a, b

\* The other steps keep the types.
LEMMA MeshType ==
    ASSUME TypeOK, NoSelfLink, NEW n \in Nodes, NEW m \in Nodes,
           Restart(n) \/ Learn(n, m) \/ LinkDown(n, m) \/ LinkUp(n, m) \/ Revive(n, m)
    PROVE  TypeOK'
<1>1. CASE Restart(n)
    BY <1>1, SMTT(30) DEF TypeOK, Restart, Idle
<1>2. CASE Learn(n, m)
  <2>1. Hosted(m) \subseteq Targets
    BY DEF Hosted
  <2>. QED
    BY <1>2, <2>1, Zenon DEF TypeOK, Learn, connVars, histVars
<1>3. CASE LinkDown(n, m)
  <2>1. wire' \in [Nodes -> [Nodes -> Seq(Frames)]]
    BY <1>3, CutWire, Zenon
  <2>2. UNCHANGED <<life, live, gen, member, known, call, drops, minted, sends>>
    BY <1>3, Zenon DEF LinkDown, connVars
  <2>3. alive' \in [Nodes -> SUBSET Nodes] /\ links' \subseteq SUBSET Nodes
    BY <1>3, Zenon DEF TypeOK, LinkDown
  <2>. QED
    BY <2>1, <2>2, <2>3, Zenon DEF TypeOK
<1>4. CASE LinkUp(n, m)
    BY <1>4, Zenon DEF TypeOK, LinkUp, connVars, histVars, Pair
<1>5. CASE Revive(n, m)
    BY <1>5 DEF TypeOK, Revive, connVars, histVars
<1>. QED
    BY <1>1, <1>2, <1>3, <1>4, <1>5

-----------------------------------------------------------------------------
(* The steps around the data plane.                                        *)

\* Unchanged queues are cut nowhere.
LEMMA NothingCut ==
    ASSUME TypeOK, UNCHANGED <<wire, call, drops>>
    PROVE  QueuesCut /\ NodesCut
<1>1. ASSUME NEW x \in Nodes, NEW y \in Nodes
      PROVE  \E k \in 0..Len(wire[x][y]) :
                /\ wire'[x][y] = Kept(wire[x][y], k)
                /\ \/ \A i \in (k + 1)..Len(wire[x][y]) : <<wire[x][y][i].msg, y>> \in cut'
                   \/ \A d \in due' : d.conn.node # y
  <2>. DEFINE q == wire[x][y]
  <2>1. q \in Seq(Frames) /\ wire'[x][y] = q
    BY SMTT(30) DEF TypeOK
  <2>. HIDE DEF q
  <2>2. Len(q) \in 0..Len(q) /\ q = Kept(q, Len(q)) /\ (Len(q) + 1)..Len(q) = {}
    BY <2>1 DEF Kept
  <2>3. \A i \in (Len(q) + 1)..Len(q) : <<q[i].msg, y>> \in cut'
    BY <2>2, Zenon
  <2>. QED
    BY <2>1, <2>2, <2>3, Zenon DEF q
<1>. QED
    BY <1>1, Zenon DEF QueuesCut, NodesCut

\* Connections coming and going.
LEMMA ChurnStep == ASSUME FiniteFacts, IInv, Churn PROVE IInv'
<1>0. TypeOK /\ NoSelfLink
    BY Zenon DEF IInv
<1>1. TypeOK'
    BY <1>0, ChurnType, Zenon
<1>2. UNCHANGED <<life, links, wire, call, drops, sends, got, twice, cut>>
    BY Zenon DEF Churn, meshVars
<1>3. /\ live \in [Nodes -> SUBSET Locals] /\ member \in [Nodes -> [Targets -> SUBSET Locals]]
    BY <1>0, Zenon DEF TypeOK
<1>4. PICK n \in Nodes : \/ \E s \in Slots : Open(n, s)
                         \/ \E l \in live[n] : Close(n, l)
                         \/ \E l \in live[n], t \in Targets : Join(n, l, t) \/ Leave(n, l, t)
    BY Zenon DEF Churn
<1>. DEFINE Stays(d, x, y) ==
                d.conn = Conn(x, y) =>
                    /\ y \in live'[x]
                    /\ \A t \in Targets : sends[d.msg].to = t /\ y \in member[x][t] => y \in member'[x][t]
            Goal == due' \subseteq due /\ \A d \in due' : \A x \in Nodes : \A y \in live[x] : Stays(d, x, y)
<1>5. ASSUME NEW s \in Slots, Open(n, s) PROVE Goal
    BY <1>3, <1>5, Zenon DEF Open
<1>6. ASSUME NEW l \in live[n], Close(n, l) PROVE Goal
  <2>1. /\ due' = {d \in due : d.conn # Conn(n, l)}
        /\ live' = [live EXCEPT ![n] = @ \ {l}]
        /\ member' = [member EXCEPT ![n] = [t \in Targets |-> @[t] \ {l}]]
    BY <1>6, Zenon DEF Close, Left
  <2>2. ASSUME NEW d \in due', NEW x \in Nodes, NEW y \in live[x] PROVE Stays(d, x, y)
    <3>1. CASE x = n /\ y = l
      BY <2>1, <3>1, Zenon
    <3>2. CASE x = n /\ y # l
      BY <1>3, <2>1, <3>2, Zenon
    <3>3. CASE x # n
      BY <1>3, <2>1, <3>3, Zenon
    <3>. QED
      BY <3>1, <3>2, <3>3, Zenon
  <2>3. due' \subseteq due
    BY <2>1, Zenon
  <2>. QED
    BY <2>2, <2>3, Zenon
<1>7. ASSUME NEW l \in live[n], NEW t \in Targets, Join(n, l, t) PROVE Goal
    BY <1>3, <1>7, Zenon DEF Join
<1>8. ASSUME NEW l \in live[n], NEW t \in Targets, Leave(n, l, t) PROVE Goal
  <2>1. /\ due' = {d \in due : ~(d.conn = Conn(n, l) /\ sends[d.msg].to = t)}
        /\ live' = live
        /\ member' = [member EXCEPT ![n][t] = @ \ {l}]
    BY <1>8, Zenon DEF Leave
  <2>2. ASSUME NEW d \in due', NEW x \in Nodes, NEW y \in live[x], d.conn = Conn(x, y),
               NEW u \in Targets, sends[d.msg].to = u, y \in member[x][u]
        PROVE  y \in member'[x][u]
    <3>1. ~(x = n /\ u = t /\ y = l)
      BY <2>1, <2>2, Zenon
    <3>2. member'[x][u] = IF x = n /\ u = t THEN member[n][t] \ {l} ELSE member[x][u]
      BY <1>3, <2>1, Zenon
    <3>. QED
      BY <2>2, <3>1, <3>2, Zenon
  <2>3. due' \subseteq due
    BY <2>1, Zenon
  <2>. QED
    BY <2>1, <2>2, <2>3, Zenon
<1>9. Goal
    BY <1>4, <1>5, <1>6, <1>7, <1>8, Zenon
<1>10. DueFacts'
    BY <1>2, <1>9, DueStays, Zenon
<1>11. QueuesCut /\ NodesCut
    BY <1>0, <1>2, NothingCut, Zenon
<1>12. NoSelfLink'
    BY <1>0, <1>2, Zenon DEF NoSelfLink
<1>13. due' \subseteq due /\ cut \subseteq cut'
    BY <1>2, <1>9, Zenon
<1>. QED
    BY <1>1, <1>2, <1>10, <1>11, <1>12, <1>13, Shrunk, Zenon

\* Interest that is learned, a link that comes up and a peer that is believed
\* alive again touch nothing that is on its way.
LEMMA QuietStep ==
    ASSUME FiniteFacts, IInv, NEW n \in Nodes, NEW m \in Nodes, Learn(n, m) \/ LinkUp(n, m) \/ Revive(n, m)
    PROVE  IInv'
<1>0. TypeOK /\ NoSelfLink
    BY Zenon DEF IInv
<1>1. TypeOK'
    BY <1>0, MeshType, Zenon
<1>2. UNCHANGED <<life, live, member, wire, call, drops, sends, got, twice, due, cut>>
    BY Zenon DEF Learn, LinkUp, Revive, connVars, histVars
<1>3. NoSelfLink'
  <2>1. CASE LinkUp(n, m)
    <3>1. links' = links \cup {{n, m}} /\ n # m
      BY <2>1, Zenon DEF LinkUp, Pair
    <3>. QED
      BY <1>0, <3>1 DEF NoSelfLink
  <2>2. CASE Learn(n, m) \/ Revive(n, m)
    <3>1. links' = links
      BY <2>2, Zenon DEF Learn, Revive
    <3>. QED
      BY <1>0, <3>1, Zenon DEF NoSelfLink
  <2>. QED
    BY <2>1, <2>2, Zenon
<1>4. DueFacts'
    BY <1>2, DueStays, Zenon
<1>5. QueuesCut /\ NodesCut
    BY <1>0, <1>2, NothingCut, Zenon
<1>6. due' \subseteq due /\ cut \subseteq cut'
    BY <1>2, Zenon
<1>. QED
    BY <1>1, <1>2, <1>3, <1>4, <1>5, <1>6, Shrunk, Zenon

\* A broken link: what it takes is what the history records as cut.
LEMMA LinkDownStep ==
    ASSUME FiniteFacts, IInv, NEW n \in Nodes, NEW m \in Nodes, LinkDown(n, m)
    PROVE  IInv'
<1>0. TypeOK /\ NoSelfLink
    BY Zenon DEF IInv
<1>1. TypeOK'
    BY <1>0, MeshType, Zenon
<1>2. UNCHANGED <<life, live, member, call, drops, sends, got, twice, due>>
    BY Zenon DEF LinkDown, connVars
<1>3. NoSelfLink'
  <2>1. links' \subseteq links
    BY Zenon DEF LinkDown
  <2>. QED
    BY <1>0, <2>1, Zenon DEF NoSelfLink
<1>4. DueFacts'
    BY <1>2, DueStays, Zenon
<1>5. /\ n # m
      /\ \E i \in 0 .. Len(wire[n][m]), j \in 0 .. Len(wire[m][n]) :
           /\ wire'[n][m] = Kept(wire[n][m], i) /\ wire'[m][n] = Kept(wire[m][n], j)
           /\ cut' = cut \cup Lost(wire[n][m], i, m) \cup Lost(wire[m][n], j, n)
      /\ \A x, y \in Nodes : <<x, y>> # <<n, m>> /\ <<x, y>> # <<m, n>>
                                => wire'[x][y] = wire[x][y]
    BY <1>0, CutWire, ZenonT(40)
<1>6. PICK i \in 0 .. Len(wire[n][m]), j \in 0 .. Len(wire[m][n]) :
        /\ wire'[n][m] = Kept(wire[n][m], i) /\ wire'[m][n] = Kept(wire[m][n], j)
        /\ cut' = cut \cup Lost(wire[n][m], i, m) \cup Lost(wire[m][n], j, n)
    BY <1>5, Zenon
<1>7. QueuesCut
  <2>. SUFFICES ASSUME NEW x \in Nodes, NEW y \in Nodes
                PROVE  \E k \in 0..Len(wire[x][y]) :
                          /\ wire'[x][y] = Kept(wire[x][y], k)
                          /\ \A h \in (k + 1)..Len(wire[x][y]) : <<wire[x][y][h].msg, y>> \in cut'
    BY Zenon DEF QueuesCut
  <2>1. CASE x = n /\ y = m
    <3>1. \A h \in (i + 1)..Len(wire[n][m]) : <<wire[n][m][h].msg, m>> \in Lost(wire[n][m], i, m)
      BY Zenon DEF Lost
    <3>2. \A h \in (i + 1)..Len(wire[n][m]) : <<wire[n][m][h].msg, m>> \in cut'
      BY <1>6, <3>1, Zenon
    <3>. QED
      BY <1>6, <2>1, <3>2, Zenon
  <2>2. CASE x = m /\ y = n
    <3>1. \A h \in (j + 1)..Len(wire[m][n]) : <<wire[m][n][h].msg, n>> \in Lost(wire[m][n], j, n)
      BY Zenon DEF Lost
    <3>2. \A h \in (j + 1)..Len(wire[m][n]) : <<wire[m][n][h].msg, n>> \in cut'
      BY <1>6, <3>1, Zenon
    <3>. QED
      BY <1>6, <2>2, <3>2, Zenon
  <2>3. CASE ~(x = n /\ y = m) /\ ~(x = m /\ y = n)
    <3>. DEFINE q == wire[x][y]
    <3>1. q \in Seq(Frames)
      BY <1>0 DEF TypeOK
    <3>2. wire'[x][y] = q
      BY <1>5, <2>3, Zenon
    <3>. HIDE DEF q
    <3>3. Len(q) \in 0..Len(q) /\ q = Kept(q, Len(q)) /\ (Len(q) + 1)..Len(q) = {}
      BY <3>1 DEF Kept
    <3>4. \A h \in (Len(q) + 1)..Len(q) : <<q[h].msg, y>> \in cut'
      BY <3>3, Zenon
    <3>. QED
      BY <3>2, <3>3, <3>4, Zenon DEF q
  <2>. QED
    BY <2>1, <2>2, <2>3, Zenon
<1>8. NodesCut
    BY <1>2, Zenon DEF NodesCut
<1>9. due' \subseteq due /\ cut \subseteq cut'
    BY <1>2, <1>6, Zenon
<1>. QED
    BY <1>1, <1>2, <1>3, <1>4, <1>7, <1>8, <1>9, Shrunk, Zenon

\* A process that is replaced: what it had sent is cut, and those it served are
\* owed nothing any more.
LEMMA RestartStep ==
    ASSUME FiniteFacts, IInv, NEW n \in Nodes, Restart(n)
    PROVE  IInv'
<1>0. TypeOK /\ NoSelfLink
    BY Zenon DEF IInv
<1>1. TypeOK'
    BY <1>0, MeshType, ZenonT(40)
<1>2. /\ UNCHANGED <<sends, got, twice>>
      /\ due' = {d \in due : d.conn \notin {c \in Conns : c.node = n}}
      /\ cut' = cut \cup {<<i, m>> : i \in {i \in DOMAIN sends : sends[i].from = n}, m \in Nodes}
      /\ wire' = [m \in Nodes |-> [p \in Nodes |-> IF n \in {m, p} THEN <<>> ELSE wire[m][p]]]
      /\ call' = [call EXCEPT ![n] = Idle] /\ drops' = [drops EXCEPT ![n] = 0]
      /\ links' = {p \in links : n \notin p}
      /\ life' = [life EXCEPT ![n] = @ + 1] /\ live' = [live EXCEPT ![n] = {}]
      /\ member' = [member EXCEPT ![n] = [t \in Targets |-> {}]]
    BY DEF Restart, Left
<1>3. /\ life \in [Nodes -> Nat] /\ live \in [Nodes -> SUBSET Locals]
      /\ member \in [Nodes -> [Targets -> SUBSET Locals]]
      /\ call \in [Nodes -> Calls \cup {Idle}] /\ drops \in [Nodes -> Nat]
    BY <1>0, Zenon DEF TypeOK
<1>4. NoSelfLink'
    BY <1>0, <1>2, Zenon DEF NoSelfLink
<1>5. \A d \in due' : d \in due /\ d.conn \in Conns /\ d.conn.node # n
  <2>1. \A d \in due : d.conn \in Conns
    BY ZenonT(40) DEF IInv, DueFacts
  <2>. QED
    BY <1>2, <2>1, Zenon
<1>6. due' \subseteq due /\ cut \subseteq cut'
    BY <1>2
<1>7. \A x \in Nodes : x # n => live'[x] = live[x] /\ life'[x] = life[x] /\ member'[x] = member[x]
                                 /\ call'[x] = call[x] /\ drops'[x] = drops[x]
    BY <1>2, <1>3, Zenon
<1>8. DueFacts'
  <2>1. \A d \in due' : \A x \in Nodes : \A y \in live[x] : d.conn = Conn(x, y) =>
               /\ y \in live'[x] /\ life'[x] = life[x]
               /\ \A t \in Targets :
                    sends[d.msg].to = t /\ y \in member[x][t] => y \in member'[x][t]
    BY <1>5, <1>7, ConnFacts
  <2>. QED
    BY <1>2, <1>6, <2>1, DueStays, ZenonT(40)
<1>9. \A j \in DOMAIN sends : \A y \in Nodes : sends[j].from = n => <<j, y>> \in cut'
    BY <1>2
<1>10. NodesCut
  <2>1. call'[n] = Idle
    BY <1>2, <1>3, Zenon
  <2>. QED
    BY <1>7, <1>9, <2>1, Zenon DEF NodesCut
<1>11. QueuesCut
  <2>. SUFFICES ASSUME NEW x \in Nodes, NEW y \in Nodes
                PROVE  \E k \in 0..Len(wire[x][y]) :
                          /\ wire'[x][y] = Kept(wire[x][y], k)
                          /\ \/ \A i \in (k + 1)..Len(wire[x][y]) : <<wire[x][y][i].msg, y>> \in cut'
                             \/ \A d \in due' : d.conn.node # y
    BY Zenon DEF QueuesCut
  <2>. DEFINE q == wire[x][y]
  <2>0. q \in Seq(Frames)
    BY <1>0 DEF TypeOK
  <2>1. CASE x # n /\ y # n
    <3>2. wire'[x][y] = q
      BY <1>2, <2>1, Zenon
    <3>. HIDE DEF q
    <3>3. Len(q) \in 0..Len(q) /\ q = Kept(q, Len(q)) /\ (Len(q) + 1)..Len(q) = {}
      BY <2>0 DEF Kept
    <3>4. \A h \in (Len(q) + 1)..Len(q) : <<q[h].msg, y>> \in cut'
      BY <3>3, Zenon
    <3>. QED
      BY <3>2, <3>3, <3>4, Zenon DEF q
  <2>2. CASE x = n \/ y = n
    <3>1. wire'[x][y] = <<>>
      BY <1>2, <2>2, Zenon
    <3>2. CASE y = n
      <4>1. \A d \in due' : d.conn.node # y
        BY <1>5, <3>2, Zenon
      <4>. HIDE DEF q
      <4>2. 0 \in 0..Len(q) /\ Kept(q, 0) = <<>>
        BY <2>0 DEF Kept
      <4>. QED
        BY <3>1, <4>1, <4>2, Zenon DEF q
    <3>3. CASE x = n
      <4>1. \A i \in DOMAIN q : q[i].msg \in DOMAIN sends /\ sends[q[i].msg].from = n
        <5>1. \A i \in DOMAIN wire[n][y] : InFlight(wire[n][y][i], n, y, sends, got)
          BY Zenon DEF IInv, WireFacts
        <5>2. \A i \in DOMAIN wire[n][y] : wire[n][y][i].msg \in DOMAIN sends
                                           /\ sends[wire[n][y][i].msg].from = n
          BY <5>1, Zenon DEF InFlight
        <5>. QED
          BY <3>3, <5>2, Zenon
      <4>. HIDE DEF q
      <4>2. 0 \in 0..Len(q) /\ Kept(q, 0) = <<>> /\ (0 + 1)..Len(q) = DOMAIN q
        BY <2>0 DEF Kept
      <4>3. \A i \in (0 + 1)..Len(q) : <<q[i].msg, y>> \in cut'
        BY <1>9, <4>1, <4>2, Zenon
      <4>. QED
        BY <3>1, <4>2, <4>3, Zenon DEF q
    <3>. QED
      BY <2>2, <3>2, <3>3, Zenon
  <2>. QED
    BY <2>1, <2>2, Zenon
<1>. QED
    BY <1>1, <1>2, <1>4, <1>6, <1>8, <1>10, <1>11, Shrunk, Zenon

-----------------------------------------------------------------------------
(* A send.                                                                 *)

\* What a send s of n, as message k, does to the mailboxes of n ...
NewGot(k, n, s) ==
    /\ got \subseteq got'
    /\ \A g \in got' : g \in got \/ (g.msg = k /\ g.conn.node = n /\ RightlyGot(g, s))

\* ... whom it is owed to ...
NewDue(k, n, s) ==
    \A d \in due' : \/ d \in due
                    \/ /\ d.msg = k /\ d.conn \in Conns /\ Owed(d.conn, s, member)
                       /\ d.conn.node = n => Has(got', k, d.conn)

\* ... and what it leaves to do.
NewCall(k, n, s) ==
    \/ call' = call /\ \A d \in due' : d \in due \/ d.conn.node = n
    \/ \E c \in Calls :
         /\ call' = [call EXCEPT ![n] = c]
         /\ c.msg = k /\ Carries(c, c.except, s)
         /\ c.step = "peers" => c.kind # "socket"
         /\ c.step = "push" => c.kind = "socket" /\ c.peers = {c.to.node} /\ c.to.node # n

\* A send that does this keeps the invariant.
LEMMA NewSend ==
    ASSUME FiniteFacts, IInv, TypeOK', NEW n \in Nodes, NEW s \in Sends, NEW k,
           call[n] = Idle, k = Len(sends) + 1, sends' = Append(sends, s),
           WellSent(s), s.from = n, twice' = {},
           UNCHANGED <<wire, drops, cut, live, life, member, links>>,
           NewGot(k, n, s), NewDue(k, n, s), NewCall(k, n, s)
    PROVE  IInv'
<1>0. /\ TypeOK /\ NoSelfLink /\ twice = {} /\ SendFacts /\ CallFacts /\ WireFacts /\ GotFacts
      /\ DueFacts /\ DropFacts
    BY Zenon DEF IInv
<1>1. sends \in Seq(Sends)
    BY <1>0, Zenon DEF TypeOK
<1>2. /\ DOMAIN sends = 1..Len(sends) /\ DOMAIN sends' = 1..(Len(sends) + 1) /\ Len(sends) \in Nat
      /\ \A j \in 1..Len(sends) : sends'[j] = sends[j]
      /\ sends'[k] = s
    BY <1>1, AppendFacts
<1>3. /\ k \notin DOMAIN sends /\ k \in DOMAIN sends'
      /\ \A j \in DOMAIN sends : j \in DOMAIN sends' /\ sends'[j] = sends[j] /\ j # k
      /\ \A j \in DOMAIN sends' : j \in DOMAIN sends \/ j = k
      /\ sends'[k] = s
    BY <1>2
<1>4. \A g \in got' : g.msg # k => g \in got
    BY Zenon DEF NewGot
<1>5. SendFacts'
    BY <1>0, <1>3, Zenon DEF SendFacts
<1>6. GotFacts'
    BY <1>0, <1>3, Zenon DEF GotFacts, NewGot
<1>7. NoSelfLink'
    BY <1>0, Zenon DEF NoSelfLink
<1>8. \A x, y \in Nodes : \A i \in DOMAIN wire[x][y] : wire[x][y][i].msg \in DOMAIN sends
    BY <1>0, Zenon DEF WireFacts, InFlight
<1>9. WireFacts'
  <2>. SUFFICES ASSUME NEW x \in Nodes, NEW y \in Nodes
                PROVE  /\ Distinct(wire[x][y])
                       /\ \A i \in DOMAIN wire[x][y] : InFlight(wire[x][y][i], x, y, sends', got')
    BY Zenon DEF WireFacts
  <2>1. Distinct(wire[x][y])
    BY <1>0, Zenon DEF WireFacts
  <2>2. ASSUME NEW i \in DOMAIN wire[x][y]
        PROVE  InFlight(wire[x][y][i], x, y, sends', got')
    <3>. DEFINE f == wire[x][y][i]
    <3>1. InFlight(f, x, y, sends, got)
      BY <1>0, <2>2, Zenon DEF WireFacts
    <3>2. f.msg \in DOMAIN sends
      BY <1>8, <2>2, Zenon
    <3>. HIDE DEF f
    <3>3. /\ f.msg \in DOMAIN sends' /\ sends'[f.msg] = sends[f.msg]
          /\ \A g \in got' : g.msg = f.msg => g \in got
      BY <1>3, <1>4, <3>2, Zenon
    <3>4. InFlight(f, x, y, sends', got')
      BY <3>1, <3>3, Zenon DEF InFlight
    <3>. QED
      BY <3>4, Zenon DEF f
  <2>. QED
    BY <2>1, <2>2, Zenon
<1>10. CallFacts'
  <2>. SUFFICES ASSUME NEW x \in Nodes, call'[x] # Idle
                PROVE  InCall(x, call'[x], sends', wire[x], got')
    BY Zenon DEF CallFacts
  <2>0. call \in [Nodes -> Calls \cup {Idle}]
    BY <1>0, Zenon DEF TypeOK
  <2>1. CASE call'[x] = call[x]
    <3>. DEFINE c == call[x]
    <3>1. InCall(x, c, sends, wire[x], got)
      BY <1>0, <2>1, Zenon DEF CallFacts
    <3>. HIDE DEF c
    <3>2. c.msg \in DOMAIN sends
      BY <3>1, Zenon DEF InCall
    <3>3. /\ c.msg \in DOMAIN sends' /\ sends'[c.msg] = sends[c.msg]
          /\ \A g \in got' : g.msg = c.msg => g \in got
      BY <1>3, <1>4, <3>2, Zenon
    <3>4. InCall(x, c, sends', wire[x], got')
      BY <3>1, <3>3, Zenon DEF InCall
    <3>. QED
      BY <2>1, <3>4, Zenon DEF c
  <2>2. CASE call'[x] # call[x]
    <3>1. PICK c \in Calls :
             /\ call' = [call EXCEPT ![n] = c]
             /\ c.msg = k /\ Carries(c, c.except, s)
             /\ c.step = "peers" => c.kind # "socket"
             /\ c.step = "push" => c.kind = "socket" /\ c.peers = {c.to.node} /\ c.to.node # n
      BY <2>2, Zenon DEF NewCall
    <3>2. x = n /\ call'[x] = c
      BY <2>0, <2>2, <3>1, Zenon
    <3>3. \A m \in Nodes : \A i \in DOMAIN wire[n][m] : wire[n][m][i].msg # k
      BY <1>3, <1>8, Zenon
    <3>4. \A g \in got' : g.msg = k => g.conn.node = n
      BY <1>0, <1>3, Zenon DEF NewGot, GotFacts
    <3>5. InCall(n, c, sends', wire[n], got')
      BY <1>3, <3>1, <3>3, <3>4, ZenonT(40) DEF InCall
    <3>. QED
      BY <3>2, <3>5, Zenon
  <2>. QED
    BY <2>1, <2>2, Zenon
<1>11. \A j, c : Has(got, j, c) => Has(got', j, c)
    BY Zenon DEF NewGot, Has
<1>12. DueFacts'
  <2>1. Conns' = Conns
    BY DEF Conns, Conn
  <2>. SUFFICES ASSUME NEW d \in due'
                PROVE  /\ d.msg \in DOMAIN sends' /\ d.conn \in Conns
                       /\ Owed(d.conn, sends'[d.msg], member)
                       /\ d.conn.node = sends'[d.msg].from => Has(got', d.msg, d.conn)
    BY <2>1, Zenon DEF DueFacts
  <2>2. CASE d \in due
    BY <1>0, <1>3, <1>11, <2>2, Zenon DEF DueFacts
  <2>3. CASE d \notin due
    <3>1. /\ d.msg = k /\ d.conn \in Conns /\ Owed(d.conn, s, member)
          /\ d.conn.node = n => Has(got', k, d.conn)
      BY <2>3, Zenon DEF NewDue
    <3>2. sends'[d.msg] = s /\ d.msg \in DOMAIN sends'
      BY <1>3, <3>1, Zenon
    <3>. QED
      BY <3>1, <3>2, Zenon
  <2>. QED
    BY <2>2, <2>3, Zenon
<1>13. ASSUME NEW x \in Nodes, NEW j \in DOMAIN sends', NEW y \in Nodes, Misses(x, j, y)'
       PROVE  j \in DOMAIN sends /\ Misses(x, j, y)
  <2>1. /\ sends'[j].from = x /\ FitsSend(sends'[j])
        /\ ~(call'[x] # Idle /\ call'[x].msg = j)
        /\ \A i \in DOMAIN wire[x][y] : wire[x][y][i].msg # j
        /\ y \notin sends'[j].blind /\ <<j, y>> \notin cut
        /\ \E d \in due' : d.msg = j /\ d.conn.node = y /\ ~Has(got', j, d.conn)
    BY <1>13, Zenon DEF Misses
  <2>2. PICK d \in due' : d.msg = j /\ d.conn.node = y /\ ~Has(got', j, d.conn)
    BY <2>1, Zenon
  <2>0. call \in [Nodes -> Calls \cup {Idle}]
    BY <1>0, Zenon DEF TypeOK
  <2>3. j # k
    <3>. SUFFICES ASSUME j = k PROVE FALSE
      OBVIOUS
    <3>1. d \notin due
      BY <1>0, <1>3, <2>2, Zenon DEF DueFacts
    <3>2. d.conn.node # n
      BY <2>2, <3>1, Zenon DEF NewDue
    <3>3. PICK c \in Calls : call' = [call EXCEPT ![n] = c] /\ c.msg = k
      BY <3>1, <3>2, Zenon DEF NewCall
    <3>4. x = n
      BY <1>3, <2>1, Zenon
    <3>5. call'[x] = c /\ c # Idle
      <4>1. c # Idle
        BY DEF Calls, Idle
      <4>. QED
        BY <2>0, <3>3, <3>4, <4>1, ZenonT(40)
    <3>. QED
      BY <2>1, <3>3, <3>5, ZenonT(40)
  <2>4. j \in DOMAIN sends /\ sends'[j] = sends[j]
    BY <1>3, <2>3, Zenon
  <2>5. d \in due
    BY <2>2, <2>3, Zenon DEF NewDue
  <2>6. ~(call[x] # Idle /\ call[x].msg = j)
    <3>1. CASE x = n
      BY <3>1, Zenon
    <3>2. CASE x # n
      <4>1. call'[x] = call[x]
        <5>1. CASE call' = call
          BY <5>1, Zenon
        <5>2. CASE \E c \in Calls : call' = [call EXCEPT ![n] = c]
          BY <2>0, <3>2, <5>2, Zenon
        <5>. QED
          BY <5>1, <5>2, Zenon DEF NewCall
      <4>. QED
        BY <2>1, <4>1, Zenon
    <3>. QED
      BY <3>1, <3>2, Zenon
  <2>7. ~Has(got, j, d.conn)
    BY <1>11, <2>2, Zenon
  <2>8. Misses(x, j, y)
    BY <2>1, <2>2, <2>4, <2>5, <2>6, <2>7, Zenon DEF Misses
  <2>. QED
    BY <2>4, <2>8, Zenon
<1>14. DropFacts'
  <2>. SUFFICES ASSUME NEW x \in Nodes PROVE Cardinality(Missing(x)') <= drops'[x]
    BY DEF DropFacts
  <2>1. Cardinality(Missing(x)) <= drops[x] /\ drops'[x] = drops[x]
    BY <1>0, Zenon DEF DropFacts
  <2>2. \A j \in DOMAIN sends' : \A y \in Nodes :
            Misses(x, j, y)' => j \in DOMAIN sends /\ Misses(x, j, y)
    BY <1>13, Zenon
  <2>. QED
    BY <1>0, <2>1, <2>2, NoNewMiss, ZenonT(40)
<1>. QED
    BY <1>5, <1>6, <1>7, <1>9, <1>10, <1>12, <1>14, Zenon DEF IInv

\* No connection has got what is not sent yet.
LEMMA NotYetGot ==
    ASSUME IInv PROVE  \A g \in got : g.msg # Len(sends) + 1
<1>1. sends \in Seq(Sends)
    BY Zenon DEF IInv, TypeOK
<1>2. \A g \in got : g.msg \in DOMAIN sends
    BY Zenon DEF IInv, GotFacts
<1>. QED
    BY <1>1, <1>2

\* Which connections of its own node a send leaves out.
LEMMA OwnExcepted ==
    ASSUME NEW n, NEW ex, \A id \in Range(ex.others) : id.node # n
    PROVE  \A l : [node |-> n, local |-> l] \in Excepted(n, ex) <=> l \in LocalExcept(ex)
<1>1. \A l : [node |-> n, local |-> l].node = n
    OBVIOUS
<1>2. \A l, h : [node |-> n, local |-> l] = [node |-> n, local |-> h] => l = h
    OBVIOUS
<1>. QED
    BY <1>1, <1>2, Zenon DEF Excepted, LocalExcept

\* The verbs behind toRoom, toUser and broadcast.
LEMMA SendGroupStep ==
    ASSUME FiniteFacts, IInv, NEW n \in Nodes, NEW ex \in ExceptLists(n), NEW kind, NEW to,
           (kind = "group" /\ to \in Targets) \/ (kind = "all" /\ to = Everyone),
           call[n] = Idle, SendGroup(n, Len(sends) + 1, kind, to, ex),
           UNCHANGED <<minted, connVars, meshVars, wire, drops, cut>>
    PROVE  IInv'
<1>. DEFINE k == Len(sends) + 1
            s == Sent(n, kind, to, ex)
            c == [step |-> "peers", msg |-> k, kind |-> kind, to |-> to,
                  except |-> RelayExcepts(n, ex)]
<1>0. TypeOK /\ twice = {}
    BY Zenon DEF IInv
<1>1. /\ Push(n, k, kind, to, LocalExcept(ex), TRUE)
      /\ call' = [call EXCEPT ![n] = c]
      /\ sends' = Append(sends, s)
      /\ due' = due \cup Meant(n, k, kind, to, ex)
    BY Zenon DEF SendGroup, Broadcast
<1>2. /\ ex \in [own : Seq(Locals), others : Seq(Ids)]
      /\ \A id \in Range(ex.others) : id.node # n
    BY <1>0, ExceptListsFacts
<1>3. UNCHANGED <<minted, live, gen, member, life, known, alive, links, wire, drops, cut>>
    BY DEF connVars, meshVars
<1>4. sends \in Seq(Sends) /\ k \in Nat /\ call \in [Nodes -> Calls \cup {Idle}]
    BY <1>0 DEF TypeOK
<1>5. s \in Sends /\ RelayExcepts(n, ex) \in Seq(Ids)
    BY <1>0, <1>4, SendType, Zenon
<1>6. /\ s.from = n /\ s.kind = kind /\ s.to = to /\ s.except = ex
    BY Zenon DEF Sent
<1>7. c \in Calls
  <2>1. kind \in Kinds /\ to \in Addressees
    BY Zenon DEF Kinds, Addressees
  <2>. QED
    BY <1>4, <1>5, <2>1, Zenon DEF Calls
<1>8. /\ c.step = "peers" /\ c.msg = k /\ c.kind = kind /\ c.to = to
      /\ c.except = RelayExcepts(n, ex) /\ kind # "socket"
    OBVIOUS
<1>. HIDE DEF s, c
<1>9. TypeOK'
  <2>1. sends' \in Seq(Sends)
    BY <1>1, <1>4, <1>5
  <2>2. call' \in [Nodes -> Calls \cup {Idle}]
    BY <1>1, <1>4, <1>7, Zenon
  <2>. QED
    BY <1>0, <1>3, <2>1, <2>2, Zenon DEF TypeOK
<1>10. WellSent(s)
    BY <1>2, <1>6, <1>8, Zenon DEF WellSent
<1>11. /\ twice' = {}
       /\ got \subseteq got'
       /\ \A g \in got' : \/ g \in got
                          \/ /\ g.msg = k /\ g.intact = TRUE
                             /\ \E l \in Recipients(n, kind, to) \ LocalExcept(ex) : g.conn = Conn(n, l)
       /\ \A l \in Recipients(n, kind, to) \ LocalExcept(ex) : Has(got', k, Conn(n, l))
  <2>1. \A g \in got : g.msg = k => g.conn.node # n
    BY NotYetGot, Zenon
  <2>. HIDE DEF k
  <2>. QED
    BY <1>0, <1>1, <2>1, PushFacts, Zenon
<1>12. \A l : [node |-> n, local |-> l] \in Excepted(n, ex) <=> l \in LocalExcept(ex)
    BY <1>2, OwnExcepted, Zenon
<1>13. NewGot(k, n, s)
  <2>1. ASSUME NEW g \in got', g \notin got
        PROVE  g.msg = k /\ g.conn.node = n /\ RightlyGot(g, s)
    <3>1. PICK l \in Recipients(n, kind, to) \ LocalExcept(ex) :
              g.conn = Conn(n, l) /\ g.msg = k /\ g.intact = TRUE
      BY <1>11, <2>1, ZenonT(40)
    <3>2. g.conn.node = n /\ IdOf(g.conn) = [node |-> n, local |-> l]
      BY <3>1, ConnFacts
    <3>3. IdOf(g.conn) \notin Excepted(s.from, s.except)
      BY <1>6, <1>12, <3>1, <3>2, Zenon
    <3>. QED
      BY <1>6, <1>8, <3>1, <3>2, <3>3, Zenon DEF RightlyGot
  <2>. QED
    BY <1>11, <2>1, Zenon DEF NewGot
<1>14. NewDue(k, n, s)
  <2>. SUFFICES ASSUME NEW d \in due', d \notin due
                PROVE  /\ d.msg = k /\ d.conn \in Conns /\ Owed(d.conn, s, member)
                       /\ d.conn.node = n => Has(got', k, d.conn)
    BY Zenon DEF NewDue
  <2>1. PICK e \in Conns :
           /\ d = [msg |-> k, conn |-> e]
           /\ IdOf(e) \notin Excepted(n, ex)
           /\ kind = "group" => e.local \in member[e.node][to]
    BY <1>1, Zenon DEF Meant
  <2>2. d.msg = k /\ d.conn = e
    BY <2>1, Zenon
  <2>3. Owed(e, s, member)
    BY <1>6, <1>8, <2>1, Zenon DEF Owed
  <2>4. ASSUME e.node = n PROVE Has(got', k, e)
    <3>1. PICK x \in Nodes : \E l \in live[x] : e = Conn(x, l)
      BY <2>1, ConnsFacts, Zenon
    <3>2. PICK l \in live[x] : e = Conn(x, l)
      BY <3>1, ZenonT(40)
    <3>3. x = n /\ e.local = l /\ IdOf(e) = [node |-> n, local |-> l]
      BY <2>4, <3>2, ConnFacts, SMTT(30)
    <3>4. l \notin LocalExcept(ex)
      BY <1>12, <2>1, <3>3
    <3>5. l \in Recipients(n, kind, to)
      BY <2>1, <2>4, <3>2, <3>3 DEF Recipients
    <3>. QED
      BY <1>11, <3>2, <3>3, <3>4, <3>5, Zenon
  <2>. QED
    BY <2>1, <2>2, <2>3, <2>4, Zenon
<1>15. Carries(c, c.except, s)
    BY <1>6, <1>8, Zenon DEF Carries
<1>16. NewCall(k, n, s)
    BY <1>1, <1>7, <1>8, <1>15, Zenon DEF NewCall
<1>17. UNCHANGED <<wire, drops, cut, live, life, member, links>> /\ k = Len(sends) + 1
    BY <1>3
<1>. HIDE DEF k
<1>. QED
    BY <1>1, <1>5, <1>6, <1>9, <1>10, <1>11, <1>13, <1>14, <1>16, <1>17, NewSend, ZenonT(40)

\* toSocket: to an excepted id, to a connection of this node, or to another node.
LEMMA SendSocketStep ==
    ASSUME FiniteFacts, IInv, NEW n \in Nodes, NEW ex \in ExceptLists(n), NEW v \in minted,
           call[n] = Idle, SendSocket(n, Len(sends) + 1, v, ex),
           UNCHANGED <<minted, connVars, meshVars, wire, drops, cut>>
    PROVE  IInv'
<1>. DEFINE k == Len(sends) + 1
            to == IdOf(v)
            s == Sent(n, "socket", v, ex)
            c == [step |-> "push", msg |-> k, kind |-> "socket",
                  to |-> to, except |-> <<>>, peers |-> {to.node}]
<1>0. TypeOK /\ twice = {}
    BY Zenon DEF IInv
<1>1. /\ sends' = Append(sends, s)
      /\ due' = due \cup Meant(n, k, "socket", to, ex)
      /\ \/ SelfExcepted(n, to, ex) /\ UNCHANGED <<got, twice, call>>
         \/ /\ ~SelfExcepted(n, to, ex) /\ to.node = n
            /\ Push(n, k, "socket", to, {}, TRUE) /\ UNCHANGED call
         \/ /\ ~SelfExcepted(n, to, ex) /\ to.node # n
            /\ call' = [call EXCEPT ![n] = c] /\ UNCHANGED <<got, twice>>
    BY Zenon DEF SendSocket, SendNode
<1>2. /\ ex \in [own : Seq(Locals), others : Seq(Ids)]
      /\ \A id \in Range(ex.others) : id.node # n
    BY <1>0, ExceptListsFacts, Zenon
<1>3. UNCHANGED <<minted, live, gen, member, life, known, alive, links, wire, drops, cut>>
    BY Zenon DEF connVars, meshVars
<1>4. /\ sends \in Seq(Sends) /\ k \in Nat /\ call \in [Nodes -> Calls \cup {Idle}]
      /\ v \in ConnIds
    BY <1>0 DEF TypeOK
<1>5. s \in Sends /\ to \in Ids
    BY <1>0, <1>4, SendType, Zenon
<1>6. /\ s.from = n /\ s.kind = "socket" /\ s.to = v /\ s.except = ex
    BY Zenon DEF Sent
<1>7. to.node \in Nodes /\ to = [node |-> to.node, local |-> to.local]
    BY <1>5, Zenon DEF Ids
<1>8. c \in Calls
  <2>1. "socket" \in Kinds /\ to \in Addressees /\ <<>> \in Seq(Ids) /\ {to.node} \subseteq Nodes
    BY <1>5, <1>7, SMTT(30) DEF Kinds, Addressees
  <2>. HIDE DEF to, k
  <2>. QED
    BY <1>4, <2>1, Zenon DEF Calls
<1>9. /\ c.step = "push" /\ c.msg = k /\ c.kind = "socket" /\ c.to = to
      /\ c.except = <<>> /\ c.peers = {to.node}
    OBVIOUS
<1>. HIDE DEF s, c, to
<1>10. TypeOK'
  <2>1. sends' \in Seq(Sends)
    BY <1>1, <1>4, <1>5
  <2>2. call' \in [Nodes -> Calls \cup {Idle}]
    BY <1>1, <1>4, <1>8, ZenonT(40)
  <2>. QED
    BY <1>0, <1>3, <2>1, <2>2, ZenonT(40) DEF TypeOK
<1>11. WellSent(s)
    BY <1>2, <1>4, <1>6 DEF WellSent
<1>12. \A l : [node |-> n, local |-> l] \in Excepted(n, ex) <=> l \in LocalExcept(ex)
    BY <1>2, OwnExcepted, Zenon
<1>13. SelfExcepted(n, to, ex) <=> to \in Excepted(n, ex)
  <2>1. CASE to.node = n
    BY <1>7, <1>12, <2>1, Zenon DEF SelfExcepted, LocalExcept
  <2>2. CASE to.node # n
    <3>1. \A l : [node |-> n, local |-> l] # to
      BY <2>2
    <3>. QED
      BY <2>2, <3>1, Zenon DEF SelfExcepted, Excepted
  <2>. QED
    BY <2>1, <2>2, Zenon
<1>14. \A d \in due' : d \in due \/
          /\ d.msg = k /\ d.conn \in Conns /\ Owed(d.conn, s, member)
          /\ IdOf(d.conn) = to /\ to \notin Excepted(n, ex)
  <2>. SUFFICES ASSUME NEW d \in due', d \notin due
                PROVE  /\ d.msg = k /\ d.conn \in Conns /\ Owed(d.conn, s, member)
                       /\ IdOf(d.conn) = to /\ to \notin Excepted(n, ex)
    OBVIOUS
  <2>1. PICK e \in Conns :
           /\ d = [msg |-> k, conn |-> e]
           /\ IdOf(e) \notin Excepted(n, ex)
           /\ IdOf(e) = to
    BY <1>1, Zenon DEF Meant
  <2>2. d.msg = k /\ d.conn = e
    BY <2>1, Zenon
  <2>3. Owed(e, s, member)
    <3>1. IdOf(s.to) = to
      BY <1>6, Zenon DEF to
    <3>. QED
      BY <1>6, <2>1, <3>1, Zenon DEF Owed
  <2>. QED
    BY <2>1, <2>2, <2>3, Zenon
<1>15. UNCHANGED <<wire, drops, cut, live, life, member, links>> /\ k = Len(sends) + 1
    BY <1>3, Zenon
<1>16. SUFFICES twice' = {} /\ NewGot(k, n, s) /\ NewDue(k, n, s) /\ NewCall(k, n, s)
  <2>. HIDE DEF k
  <2>. QED
    BY <1>1, <1>5, <1>6, <1>10, <1>11, <1>15, NewSend, Zenon
<1>17. CASE SelfExcepted(n, to, ex)
  <2>1. UNCHANGED <<got, twice, call>>
    BY <1>1, <1>17, Zenon
  <2>2. \A d \in due' : d \in due
    BY <1>13, <1>14, <1>17, Zenon
  <2>. QED
    BY <1>0, <2>1, <2>2, Zenon DEF NewGot, NewDue, NewCall
<1>18. CASE ~SelfExcepted(n, to, ex) /\ to.node = n
  <2>0. Push(n, k, "socket", to, {}, TRUE) /\ UNCHANGED call
    BY <1>1, <1>18, Zenon
  <2>1. /\ twice' = {}
        /\ got \subseteq got'
        /\ \A g \in got' : \/ g \in got
                           \/ /\ g.msg = k /\ g.intact = TRUE
                              /\ \E l \in Recipients(n, "socket", to) \ {} : g.conn = Conn(n, l)
        /\ \A l \in Recipients(n, "socket", to) \ {} : Has(got', k, Conn(n, l))
    <3>1. \A g \in got : g.msg = k => g.conn.node # n
      BY NotYetGot, Zenon
    <3>. HIDE DEF k
    <3>. QED
      BY <1>0, <2>0, <3>1, PushFacts, Zenon
  <2>2. Recipients(n, "socket", to) = {to.local} \cap live[n]
    BY DEF Recipients
  <2>3. NewGot(k, n, s)
    <3>1. ASSUME NEW g \in got', g \notin got
          PROVE  g.msg = k /\ g.conn.node = n /\ RightlyGot(g, s)
      <4>1. g.conn = Conn(n, to.local) /\ g.msg = k /\ g.intact = TRUE
        BY <2>1, <2>2, <3>1, Zenon
      <4>2. g.conn.node = n /\ IdOf(g.conn) = to
        BY <1>7, <1>18, <4>1, ConnFacts
      <4>3. IdOf(g.conn) \notin Excepted(s.from, s.except) /\ IdOf(s.to) = to
        BY <1>6, <1>13, <1>18, <4>2, Zenon DEF to
      <4>. QED
        BY <4>1, <4>2, <4>3, Zenon DEF RightlyGot
    <3>. QED
      BY <2>1, <3>1, Zenon DEF NewGot
  <2>4. ASSUME NEW d \in due', d \notin due PROVE d.conn.node = n /\ Has(got', k, d.conn)
    <3>0. d.conn \in Conns /\ IdOf(d.conn) = to
      BY <1>14, <2>4, Zenon
    <3>1. PICK x \in Nodes : \E l \in live[x] : d.conn = Conn(x, l)
      BY <3>0, ConnsFacts, Zenon
    <3>2. PICK l \in live[x] : d.conn = Conn(x, l)
      BY <3>1, ZenonT(40)
    <3>3. x = n /\ l = to.local /\ d.conn.node = n
      BY <1>18, <3>0, <3>2, ConnFacts
    <3>. QED
      BY <2>1, <2>2, <3>2, <3>3, Zenon
  <2>5. NewDue(k, n, s)
    BY <1>14, <2>4, Zenon DEF NewDue
  <2>6. NewCall(k, n, s)
    BY <2>0, <2>4, Zenon DEF NewCall
  <2>. QED
    BY <2>1, <2>3, <2>5, <2>6, Zenon
<1>19. CASE ~SelfExcepted(n, to, ex) /\ to.node # n
  <2>0. call' = [call EXCEPT ![n] = c] /\ UNCHANGED <<got, twice>>
    BY <1>1, <1>19, Zenon
  <2>1. NewGot(k, n, s)
    BY <2>0 DEF NewGot
  <2>2. NewDue(k, n, s)
    <3>1. ASSUME NEW d \in due', d \notin due PROVE d.conn.node # n
      <4>1. IdOf(d.conn) = to
        BY <1>14, <3>1, Zenon
      <4>2. d.conn.node = to.node
        BY <4>1, ConnFacts, Zenon
      <4>. QED
        BY <1>19, <4>2, Zenon
    <3>. QED
      BY <1>14, <3>1, Zenon DEF NewDue
  <2>3. Carries(c, c.except, s)
    <3>1. IdOf(s.to) = to
      BY <1>6, Zenon DEF to
    <3>2. to \notin Excepted(s.from, s.except)
      BY <1>6, <1>13, <1>19, Zenon
    <3>. QED
      BY <1>6, <1>9, <3>1, <3>2, Zenon DEF Carries
  <2>4. NewCall(k, n, s)
    <3>1. /\ c \in Calls /\ call' = [call EXCEPT ![n] = c] /\ c.msg = k /\ Carries(c, c.except, s)
          /\ c.step = "peers" => c.kind # "socket"
          /\ c.step = "push" => c.kind = "socket" /\ c.peers = {c.to.node} /\ c.to.node # n
      BY <1>8, <1>9, <1>19, <2>0, <2>3, Zenon
    <3>. QED
      BY <3>1, Zenon DEF NewCall
  <2>. QED
    BY <1>0, <2>0, <2>1, <2>2, <2>4
<1>. QED
    BY <1>17, <1>18, <1>19, Zenon

\* Every send keeps the invariant.
LEMMA SendStep == ASSUME FiniteFacts, IInv, NEW n \in Nodes, Send(n) PROVE IInv'
<1>1. call[n] = Idle /\ UNCHANGED <<minted, connVars, meshVars, wire, drops, cut>>
    BY DEF Send
<1>2. PICK ex \in ExceptLists(n) :
         \/ \E t \in Targets : SendGroup(n, Len(sends) + 1, "group", t, ex)
         \/ SendGroup(n, Len(sends) + 1, "all", Everyone, ex)
         \/ \E c \in minted : SendSocket(n, Len(sends) + 1, c, ex)
    BY Zenon DEF Send
<1>3. CASE \E t \in Targets : SendGroup(n, Len(sends) + 1, "group", t, ex)
    BY <1>1, <1>3, SendGroupStep, Zenon
<1>4. CASE SendGroup(n, Len(sends) + 1, "all", Everyone, ex)
    BY <1>1, <1>4, SendGroupStep, Zenon
<1>5. CASE \E c \in minted : SendSocket(n, Len(sends) + 1, c, ex)
    BY <1>1, <1>5, SendSocketStep, Zenon
<1>. QED
    BY <1>2, <1>3, <1>4, <1>5, Zenon

-----------------------------------------------------------------------------
(* The relay.                                                              *)

\* A node inside a send, by the step it is at.
LEMMA CallTypes ==
    ASSUME TypeOK, NEW n \in Nodes
    PROVE  /\ call[n].step = "peers" =>
                /\ call[n] # Idle
                /\ call[n] \in [step : {"peers"}, msg : Nat, kind : Kinds, to : Addressees,
                                except : Seq(Ids)]
           /\ call[n].step = "push" =>
                /\ call[n] # Idle
                /\ call[n] \in [step : {"push"}, msg : Nat, kind : Kinds, to : Addressees,
                                except : Seq(Ids), peers : SUBSET Nodes]
<1>1. call[n] \in Calls \cup {Idle}
    BY Zenon DEF TypeOK
<1>2. Idle.step = "idle"
    BY DEF Idle
<1>. QED
    BY <1>1, <1>2, Zenon DEF Calls

\* The routing decision: whoever it passes over is recorded.
LEMMA RouteStep == ASSUME FiniteFacts, IInv, NEW n \in Nodes, Route(n) PROVE IInv'
<1>. DEFINE c == call[n]
            k == c.msg
            peers == RelayPeers(n, c)
            blind == IF c.kind = "all" THEN Nodes \ Linked(n)
                     ELSE {m \in Nodes : m \notin alive[n] \/ c.to \notin known[n][m]}
            b == [step |-> "push", msg |-> k, kind |-> c.kind, to |-> c.to,
                  except |-> c.except, peers |-> peers]
<1>0. /\ TypeOK /\ NoSelfLink /\ twice = {} /\ SendFacts /\ CallFacts /\ WireFacts /\ GotFacts
      /\ DueFacts /\ DropFacts
    BY Zenon DEF IInv
<1>1. /\ c.step = "peers"
      /\ call' = [call EXCEPT ![n] = IF peers = {} THEN Idle ELSE b]
      /\ sends' = [sends EXCEPT ![k].blind = blind]
      /\ UNCHANGED <<live, gen, member, life, known, alive, links, wire, drops, minted, got,
                     twice, due, cut>>
    BY Zenon DEF Route, connVars, meshVars
<1>2. /\ c # Idle
      /\ c \in [step : {"peers"}, msg : Nat, kind : Kinds, to : Addressees, except : Seq(Ids)]
    BY <1>0, <1>1, CallTypes, Zenon
<1>3. InCall(n, c, sends, wire[n], got)
    BY <1>0, <1>2, Zenon DEF CallFacts
<1>4. /\ sends \in Seq(Sends) /\ call \in [Nodes -> Calls \cup {Idle}]
      /\ alive[n] \subseteq Nodes
    BY <1>0, Zenon DEF TypeOK
<1>5. /\ k \in DOMAIN sends /\ sends[k].from = n /\ Carries(c, c.except, sends[k])
      /\ c.kind # "socket"
    BY <1>1, <1>3, Zenon DEF InCall
<1>6. peers \subseteq Nodes /\ blind \subseteq Nodes /\ Nodes \ peers \subseteq blind
    BY <1>4, Zenon DEF RelayPeers, Linked, InterestedPeers
<1>7. b \in Calls
  <2>. HIDE DEF peers
  <2>. QED
    BY <1>2, <1>6, ZenonT(40) DEF Calls
<1>8. /\ b.step = "push" /\ b.msg = k /\ b.kind = c.kind /\ b.to = c.to /\ b.except = c.except
      /\ b.peers = peers
    OBVIOUS
<1>. HIDE DEF b, peers, blind
<1>9. /\ DOMAIN sends' = DOMAIN sends /\ sends' \in Seq(Sends)
      /\ \A j \in DOMAIN sends : /\ sends'[j].from = sends[j].from /\ sends'[j].kind = sends[j].kind
                                 /\ sends'[j].to = sends[j].to /\ sends'[j].except = sends[j].except
      /\ \A j \in DOMAIN sends : j # k => sends'[j] = sends[j]
      /\ sends'[k].blind = blind
  <2>. HIDE DEF k
  <2>1. k \in DOMAIN sends /\ sends' = [sends EXCEPT ![k].blind = blind]
    BY <1>1, <1>5, Zenon
  <2>2. \A j \in DOMAIN sends : sends[j] \in Sends
    BY <1>4
  <2>3. sends' = [sends EXCEPT ![k] = [sends[k] EXCEPT !.blind = blind]]
    BY <1>4, <2>1
  <2>. DEFINE e == [sends[k] EXCEPT !.blind = blind]
  <2>4. /\ e \in Sends /\ e.blind = blind /\ e.from = sends[k].from /\ e.kind = sends[k].kind
        /\ e.to = sends[k].to /\ e.except = sends[k].except
    BY <1>6, <2>1, <2>2, Zenon DEF Sends
  <2>. HIDE DEF e
  <2>5. /\ DOMAIN sends' = DOMAIN sends /\ sends'[k] = e
        /\ \A j \in DOMAIN sends : j # k => sends'[j] = sends[j]
    BY <1>4, <2>1, <2>3 DEF e
  <2>6. sends' \in Seq(Sends)
    BY <1>4, <2>1, <2>3, <2>4 DEF e
  <2>7. \A j \in DOMAIN sends : /\ sends'[j].from = sends[j].from /\ sends'[j].kind = sends[j].kind
                                /\ sends'[j].to = sends[j].to /\ sends'[j].except = sends[j].except
    BY <2>4, <2>5, Zenon
  <2>. QED
    BY <2>4, <2>5, <2>6, <2>7, Zenon
<1>10. /\ \A j \in DOMAIN sends : WellSent(sends[j]) => WellSent(sends'[j])
       /\ \A j \in DOMAIN sends : FitsSend(sends'[j]) <=> FitsSend(sends[j])
       /\ \A j \in DOMAIN sends : \A x, e : Carries(x, e, sends[j]) => Carries(x, e, sends'[j])
       /\ \A j \in DOMAIN sends : \A g : RightlyGot(g, sends[j]) => RightlyGot(g, sends'[j])
       /\ \A j \in DOMAIN sends : \A e : Owed(e, sends[j], member) => Owed(e, sends'[j], member)
  <2>. SUFFICES ASSUME NEW j \in DOMAIN sends
                PROVE  /\ WellSent(sends[j]) => WellSent(sends'[j])
                       /\ FitsSend(sends'[j]) <=> FitsSend(sends[j])
                       /\ \A x, e : Carries(x, e, sends[j]) => Carries(x, e, sends'[j])
                       /\ \A g : RightlyGot(g, sends[j]) => RightlyGot(g, sends'[j])
                       /\ \A e : Owed(e, sends[j], member) => Owed(e, sends'[j], member)
    OBVIOUS
  <2>1. /\ sends'[j].from = sends[j].from /\ sends'[j].kind = sends[j].kind
        /\ sends'[j].to = sends[j].to /\ sends'[j].except = sends[j].except
    BY <1>9, Zenon
  <2>2. FitsSend(sends'[j]) <=> FitsSend(sends[j])
    BY <2>1, Zenon DEF FitsSend
  <2>3. WellSent(sends[j]) => WellSent(sends'[j])
    BY <2>1, Zenon DEF WellSent
  <2>4. \A x, e : Carries(x, e, sends[j]) => Carries(x, e, sends'[j])
    BY <2>1, Zenon DEF Carries
  <2>5. \A g : RightlyGot(g, sends[j]) => RightlyGot(g, sends'[j])
    BY <2>1, <2>2, Zenon DEF RightlyGot
  <2>6. \A e : Owed(e, sends[j], member) => Owed(e, sends'[j], member)
    BY <2>1, Zenon DEF Owed
  <2>. QED
    BY <2>2, <2>3, <2>4, <2>5, <2>6, ZenonT(40)
<1>11. TypeOK'
  <2>1. call' \in [Nodes -> Calls \cup {Idle}]
    BY <1>1, <1>4, <1>7, Zenon
  <2>. HIDE DEF c, k
  <2>. QED
    BY <1>0, <1>1, <1>9, <2>1, Zenon DEF TypeOK
<1>12. NoSelfLink' /\ twice' = {}
    BY <1>0, <1>1, Zenon DEF NoSelfLink
<1>. HIDE DEF k, c
<1>13. SendFacts' /\ GotFacts'
    BY <1>0, <1>1, <1>9, <1>10, Zenon DEF SendFacts, GotFacts
<1>14. DueFacts'
  <2>1. Conns' = Conns
    BY <1>1 DEF Conns, Conn
  <2>. SUFFICES ASSUME NEW d \in due
                PROVE  /\ d.msg \in DOMAIN sends' /\ d.conn \in Conns
                       /\ Owed(d.conn, sends'[d.msg], member)
                       /\ d.conn.node = sends'[d.msg].from => Has(got, d.msg, d.conn)
    BY <1>1, <2>1, Zenon DEF DueFacts
  <2>2. /\ d.msg \in DOMAIN sends /\ d.conn \in Conns
        /\ Owed(d.conn, sends[d.msg], member)
        /\ d.conn.node = sends[d.msg].from => Has(got, d.msg, d.conn)
    BY <1>0, Zenon DEF DueFacts
  <2>. QED
    BY <1>9, <1>10, <2>2, Zenon
<1>15. WireFacts'
  <2>. SUFFICES ASSUME NEW x \in Nodes, NEW y \in Nodes
                PROVE  /\ Distinct(wire[x][y])
                       /\ \A i \in DOMAIN wire[x][y] : InFlight(wire[x][y][i], x, y, sends', got)
    BY <1>1, Zenon DEF WireFacts
  <2>1. /\ Distinct(wire[x][y])
        /\ \A i \in DOMAIN wire[x][y] : InFlight(wire[x][y][i], x, y, sends, got)
    BY <1>0, Zenon DEF WireFacts
  <2>2. ASSUME NEW f, InFlight(f, x, y, sends, got) PROVE InFlight(f, x, y, sends', got)
    <3>1. f.msg \in DOMAIN sends /\ sends[f.msg].from = x /\ Carries(f, f.body.entries, sends[f.msg])
      BY <2>2, Zenon DEF InFlight
    <3>2. f.msg \in DOMAIN sends' /\ sends'[f.msg].from = x /\ Carries(f, f.body.entries, sends'[f.msg])
      BY <1>9, <1>10, <3>1, Zenon
    <3>. QED
      BY <2>2, <3>2, Zenon DEF InFlight
  <2>. QED
    BY <2>1, <2>2, Zenon
<1>16. ASSUME NEW x \in Nodes, x # n PROVE call'[x] = call[x]
    BY <1>1, <1>4, <1>16, Zenon
<1>17. call'[n] = (IF peers = {} THEN Idle ELSE b)
    BY <1>1, <1>4, Zenon
<1>18. CallFacts'
  <2>. SUFFICES ASSUME NEW x \in Nodes, call'[x] # Idle
                PROVE  InCall(x, call'[x], sends', wire[x], got)
    BY <1>1, Zenon DEF CallFacts
  <2>1. CASE x = n
    <3>1. call'[x] = b
      BY <1>17, <2>1, Zenon
    <3>2. Carries(b, b.except, sends[k])
      BY <1>5, <1>8, Zenon DEF Carries
    <3>3. /\ \A m \in Nodes : \A i \in DOMAIN wire[n][m] : wire[n][m][i].msg # k
          /\ \A g \in got : g.msg = k => g.conn.node = n
      BY <1>3, Zenon DEF InCall, k
    <3>4. /\ k \in DOMAIN sends' /\ sends'[k].from = n /\ Carries(b, b.except, sends'[k])
      BY <1>5, <1>9, <1>10, <3>2, Zenon
    <3>5. InCall(n, b, sends', wire[n], got)
      BY <1>5, <1>6, <1>8, <1>9, <3>3, <3>4, Zenon DEF InCall
    <3>. QED
      BY <2>1, <3>1, <3>5, Zenon
  <2>2. CASE x # n
    <3>. DEFINE e == call[x]
    <3>1. e # Idle /\ call'[x] = e
      BY <1>16, <2>2, Zenon
    <3>2. InCall(x, e, sends, wire[x], got)
      BY <1>0, <3>1, Zenon DEF CallFacts
    <3>. HIDE DEF e
    <3>3. e.msg \in DOMAIN sends /\ sends[e.msg].from = x
      BY <3>2, Zenon DEF InCall
    <3>4. e.msg \in DOMAIN sends' /\ sends'[e.msg] = sends[e.msg]
      BY <1>5, <1>9, <2>2, <3>3, Zenon
    <3>5. InCall(x, e, sends', wire[x], got)
      BY <3>2, <3>4, Zenon DEF InCall
    <3>. QED
      BY <3>1, <3>5, Zenon
  <2>. QED
    BY <2>1, <2>2, Zenon
<1>19. ASSUME NEW x \in Nodes, NEW j \in DOMAIN sends', NEW y \in Nodes, Misses(x, j, y)'
       PROVE  j \in DOMAIN sends /\ Misses(x, j, y)
  <2>1. /\ sends'[j].from = x /\ FitsSend(sends'[j])
        /\ ~(call'[x] # Idle /\ call'[x].msg = j)
        /\ \A i \in DOMAIN wire[x][y] : wire[x][y][i].msg # j
        /\ y \notin sends'[j].blind /\ <<j, y>> \notin cut
        /\ \E d \in due : d.msg = j /\ d.conn.node = y /\ ~Has(got, j, d.conn)
    BY <1>1, <1>19, Zenon DEF Misses
  <2>2. j \in DOMAIN sends /\ sends[j].from = x /\ FitsSend(sends[j])
    BY <1>9, <1>10, <2>1, Zenon
  <2>3. j # k
    <3>. SUFFICES ASSUME j = k PROVE FALSE
      OBVIOUS
    <3>1. x = n /\ y \notin blind
      BY <1>5, <1>9, <2>1, Zenon
    <3>2. peers # {}
      BY <1>6, <3>1, Zenon
    <3>3. call'[x] = b /\ b # Idle
      <4>1. b # Idle
        BY <1>8 DEF Idle
      <4>. QED
        BY <1>17, <3>1, <3>2, <4>1, Zenon
    <3>. QED
      BY <1>8, <2>1, <3>3, Zenon
  <2>4. sends'[j] = sends[j]
    BY <1>9, <2>2, <2>3, Zenon
  <2>5. ~(call[x] # Idle /\ call[x].msg = j)
    <3>1. CASE x = n
      BY <2>3, <3>1, Zenon DEF k, c
    <3>2. CASE x # n
      BY <1>16, <2>1, <3>2, Zenon
    <3>. QED
      BY <3>1, <3>2, Zenon
  <2>6. Misses(x, j, y)
    BY <2>1, <2>2, <2>4, <2>5, Zenon DEF Misses
  <2>. QED
    BY <2>2, <2>6, Zenon
<1>20. DropFacts'
  <2>. SUFFICES ASSUME NEW x \in Nodes PROVE Cardinality(Missing(x)') <= drops'[x]
    BY DEF DropFacts
  <2>1. Cardinality(Missing(x)) <= drops[x] /\ drops'[x] = drops[x]
    BY <1>0, <1>1, Zenon DEF DropFacts
  <2>2. \A j \in DOMAIN sends' : \A y \in Nodes :
            Misses(x, j, y)' => j \in DOMAIN sends /\ Misses(x, j, y)
    BY <1>19, Zenon
  <2>. QED
    BY <1>0, <1>11, <2>1, <2>2, NoNewMiss, ZenonT(40)
<1>. QED
    BY <1>11, <1>12, <1>13, <1>14, <1>15, <1>18, <1>20, Zenon DEF IInv

\* One frame to all peers: whoever does not take it is counted.
LEMMA RelayStep == ASSUME FiniteFacts, IInv, NEW n \in Nodes, Relay(n) PROVE IInv'
<1>. DEFINE c == call[n]
            k == c.msg
            takes == Takes(n, c.peers)
            refused == c.peers \ takes
            f == Frame(c)
<1>0. /\ TypeOK /\ NoSelfLink /\ twice = {} /\ SendFacts /\ CallFacts /\ WireFacts /\ GotFacts
      /\ DueFacts /\ DropFacts
    BY Zenon DEF IInv
<1>1. /\ c.step = "push"
      /\ wire' = [wire EXCEPT ![n] = [m \in Nodes |->
               IF m \in takes THEN Append(wire[n][m], f) ELSE wire[n][m]]]
      /\ drops' = [drops EXCEPT ![n] = @ + Cardinality(refused)]
      /\ call' = [call EXCEPT ![n] = Idle]
      /\ UNCHANGED <<live, gen, member, life, known, alive, links, minted, sends, got,
                     twice, due, cut>>
    BY <1>0, Zenon DEF Relay, DoRelay, connVars, meshVars, histVars, TypeOK
<1>2. /\ c # Idle
      /\ c \in [step : {"push"}, msg : Nat, kind : Kinds, to : Addressees,
                except : Seq(Ids), peers : SUBSET Nodes]
    BY <1>0, <1>1, CallTypes, Zenon
<1>3. InCall(n, c, sends, wire[n], got)
    BY <1>0, <1>2, Zenon DEF CallFacts
<1>4. /\ wire \in [Nodes -> [Nodes -> Seq(Frames)]] /\ call \in [Nodes -> Calls \cup {Idle}]
      /\ drops \in [Nodes -> Nat]
    BY <1>0, Zenon DEF TypeOK
<1>5. /\ k \in DOMAIN sends /\ sends[k].from = n /\ Carries(c, c.except, sends[k])
      /\ \A m \in Nodes : \A i \in DOMAIN wire[n][m] : wire[n][m][i].msg # k
      /\ \A g \in got : g.msg = k => g.conn.node = n
      /\ IF c.kind = "socket" THEN c.peers = {c.to.node} /\ c.to.node # n
         ELSE Nodes \ c.peers \subseteq sends[k].blind
    BY <1>1, <1>3, Zenon DEF InCall
<1>6. /\ takes \subseteq c.peers /\ takes \subseteq Nodes /\ n \notin takes /\ refused \subseteq Nodes
    BY <1>2, Zenon DEF Takes, Linked
<1>7. f \in Frames /\ f.msg = k /\ f.kind = c.kind /\ f.to = c.to
      /\ f.body = PutExcepts(c.except) /\ f.body.entries = c.except
  <2>1. PutExcepts(c.except) \in [count : Nat, entries : Seq(Ids)] /\ PutExcepts(c.except).entries = c.except
    BY <1>2, WireForm, Zenon
  <2>2. f.msg = k /\ f.kind = c.kind /\ f.to = c.to /\ f.body = PutExcepts(c.except)
    BY Zenon DEF Frame
  <2>3. f \in Frames
    BY <1>2, <2>1, Zenon DEF Frame, Frames
  <2>. QED
    BY <2>1, <2>2, <2>3, Zenon
<1>. HIDE DEF takes, f, refused
<1>8. /\ \A x \in Nodes : x # n => wire'[x] = wire[x] /\ call'[x] = call[x] /\ drops'[x] = drops[x]
      /\ call'[n] = Idle /\ drops'[n] = drops[n] + Cardinality(refused)
      /\ \A m \in Nodes : m \in takes => wire'[n][m] = Append(wire[n][m], f)
      /\ \A m \in Nodes : m \notin takes => wire'[n][m] = wire[n][m]
    BY <1>1, <1>4, Zenon
<1>9. IsFiniteSet(refused) /\ Cardinality(refused) \in Nat
  <2>1. IsFiniteSet(Nodes)
    BY RelayAssumption, Zenon
  <2>. QED
    BY <1>6, <2>1, FinSubset, FinCount, Zenon
<1>. HIDE DEF c, k
<1>10. \A m \in Nodes : m \in takes =>
          /\ wire'[n][m] \in Seq(Frames)
          /\ \A i \in DOMAIN wire[n][m] : i \in DOMAIN wire'[n][m] /\ wire'[n][m][i] = wire[n][m][i]
          /\ \A i \in DOMAIN wire'[n][m] : (i \in DOMAIN wire[n][m] /\ wire'[n][m][i] = wire[n][m][i])
                                           \/ (i = Len(wire[n][m]) + 1 /\ wire'[n][m][i] = f)
          /\ \E i \in DOMAIN wire'[n][m] : wire'[n][m][i] = f
  <2>. SUFFICES ASSUME NEW m \in Nodes, m \in takes
                PROVE  LET q == wire[n][m]
                           p == wire'[n][m]
                       IN  /\ p \in Seq(Frames)
                           /\ \A i \in DOMAIN q : i \in DOMAIN p /\ p[i] = q[i]
                           /\ \A i \in DOMAIN p : (i \in DOMAIN q /\ p[i] = q[i])
                                                  \/ (i = Len(q) + 1 /\ p[i] = f)
                           /\ \E i \in DOMAIN p : p[i] = f
    BY Zenon
  <2>. DEFINE q == wire[n][m]
              p == wire'[n][m]
  <2>1. q \in Seq(Frames) /\ p = Append(q, f)
    BY <1>4, <1>8, Zenon
  <2>. HIDE DEF p, q
  <2>2. /\ p \in Seq(Frames) /\ Len(q) \in Nat /\ DOMAIN q = 1..Len(q) /\ DOMAIN p = 1..(Len(q) + 1)
        /\ \A i \in 1..Len(q) : p[i] = q[i]
        /\ p[Len(q) + 1] = f
    BY <1>7, <2>1, AppendFacts
  <2>3. /\ p \in Seq(Frames)
        /\ \A i \in DOMAIN q : i \in DOMAIN p /\ p[i] = q[i]
        /\ \A i \in DOMAIN p : (i \in DOMAIN q /\ p[i] = q[i]) \/ (i = Len(q) + 1 /\ p[i] = f)
        /\ Len(q) + 1 \in DOMAIN p /\ p[Len(q) + 1] = f
    BY <2>2
  <2>. QED
    BY <2>3, Zenon DEF p, q
<1>11. TypeOK'
  <2>1. wire' \in [Nodes -> [Nodes -> Seq(Frames)]]
    BY <1>1, <1>4, <1>7, SMTT(30)
  <2>2. call' \in [Nodes -> Calls \cup {Idle}] /\ drops' \in [Nodes -> Nat]
    BY <1>1, <1>4, <1>9
  <2>. QED
    BY <1>0, <1>1, <2>1, <2>2, ZenonT(40) DEF TypeOK
<1>12. NoSelfLink' /\ twice' = {} /\ SendFacts' /\ GotFacts'
  <2>1. NoSelfLink'
    BY <1>0, <1>1 DEF NoSelfLink
  <2>. QED
    BY <1>0, <1>1, <2>1, ZenonT(40) DEF SendFacts, GotFacts
<1>13. DueFacts'
  <2>1. Conns' = Conns
    BY <1>1 DEF Conns, Conn
  <2>. QED
    BY <1>0, <1>1, <2>1, ZenonT(40) DEF DueFacts
<1>14. CallFacts'
  <2>. SUFFICES ASSUME NEW x \in Nodes, call'[x] # Idle
                PROVE  InCall(x, call'[x], sends, wire'[x], got)
    BY <1>1, Zenon DEF CallFacts
  <2>1. x # n /\ call'[x] = call[x] /\ wire'[x] = wire[x]
    BY <1>8, Zenon
  <2>. QED
    BY <1>0, <2>1, Zenon DEF CallFacts
<1>15. WireFacts'
  <2>. SUFFICES ASSUME NEW x \in Nodes, NEW y \in Nodes
                PROVE  /\ Distinct(wire'[x][y])
                       /\ \A i \in DOMAIN wire'[x][y] : InFlight(wire'[x][y][i], x, y, sends, got)
    BY <1>1, Zenon DEF WireFacts
  <2>0. /\ Distinct(wire[x][y])
        /\ \A i \in DOMAIN wire[x][y] : InFlight(wire[x][y][i], x, y, sends, got)
    BY <1>0, Zenon DEF WireFacts
  <2>1. CASE x # n \/ y \notin takes
    <3>1. wire'[x][y] = wire[x][y]
      BY <1>8, <2>1, Zenon
    <3>. QED
      BY <2>0, <3>1, Zenon
  <2>2. CASE x = n /\ y \in takes
    <3>1. InFlight(f, n, y, sends, got)
      <4>1. Carries(f, f.body.entries, sends[k])
        BY <1>5, <1>7, Zenon DEF Carries
      <4>2. f.kind = "socket" => f.to.node = y
        BY <1>5, <1>6, <1>7, <2>2, ZenonT(40)
      <4>3. n # y /\ \A g \in got : g.msg = f.msg => g.conn.node # y
        BY <1>5, <1>6, <1>7, <2>2, Zenon
      <4>. QED
        BY <1>5, <1>7, <4>1, <4>2, <4>3, Zenon DEF InFlight
    <3>2. Distinct(wire'[n][y])
      <4>. SUFFICES ASSUME NEW i \in DOMAIN wire'[n][y], NEW j \in DOMAIN wire'[n][y],
                           wire'[n][y][i].msg = wire'[n][y][j].msg
                    PROVE  i = j
        BY Zenon DEF Distinct
      <4>1. \A h \in DOMAIN wire[n][y] : wire[n][y][h].msg # f.msg
        BY <1>5, <1>7, Zenon
      <4>2. /\ (i \in DOMAIN wire[n][y] /\ wire'[n][y][i] = wire[n][y][i])
               \/ (i = Len(wire[n][y]) + 1 /\ wire'[n][y][i] = f)
            /\ (j \in DOMAIN wire[n][y] /\ wire'[n][y][j] = wire[n][y][j])
               \/ (j = Len(wire[n][y]) + 1 /\ wire'[n][y][j] = f)
        BY <1>10, <2>2, Zenon
      <4>. QED
        BY <2>0, <2>2, <4>1, <4>2, Zenon DEF Distinct
    <3>3. \A i \in DOMAIN wire'[n][y] : InFlight(wire'[n][y][i], n, y, sends, got)
      BY <1>10, <2>0, <2>2, <3>1, ZenonT(40)
    <3>. QED
      BY <2>2, <3>2, <3>3, Zenon
  <2>. QED
    BY <2>1, <2>2, Zenon
<1>16. ASSUME NEW x \in Nodes, NEW j \in DOMAIN sends, NEW y \in Nodes, Misses(x, j, y)',
              ~(x = n /\ j = k /\ y \in refused)
       PROVE  Misses(x, j, y)
  <2>1. /\ sends[j].from = x /\ FitsSend(sends[j])
        /\ ~(call'[x] # Idle /\ call'[x].msg = j)
        /\ \A i \in DOMAIN wire'[x][y] : wire'[x][y][i].msg # j
        /\ y \notin sends[j].blind /\ <<j, y>> \notin cut
        /\ \E d \in due : d.msg = j /\ d.conn.node = y /\ ~Has(got, j, d.conn)
    BY <1>1, <1>16, Zenon DEF Misses
  <2>2. ~(x = n /\ j = k)
    <3>. SUFFICES ASSUME x = n, j = k PROVE FALSE
      BY Zenon
    <3>1. y \notin takes
      BY <1>7, <1>10, <2>1
    <3>2. y \notin c.peers
      BY <1>16, <3>1, Zenon DEF refused
    <3>3. c.kind = "socket" /\ c.peers = {c.to.node}
      BY <1>5, <2>1, <3>2, Zenon
    <3>4. PICK d \in due : d.msg = k /\ d.conn.node = y
      BY <2>1, Zenon
    <3>5. Owed(d.conn, sends[k], member)
      BY <1>0, <3>4, Zenon DEF DueFacts
    <3>6. sends[k].kind = "socket" /\ c.to = IdOf(sends[k].to)
      BY <1>5, <3>3, Zenon DEF Carries
    <3>7. IdOf(d.conn) = c.to
      BY <3>5, <3>6, Zenon DEF Owed
    <3>8. c.to.node = y
      BY <3>4, <3>7, ConnFacts, Zenon
    <3>. QED
      BY <3>2, <3>3, <3>8, Zenon
  <2>3. ~(call[x] # Idle /\ call[x].msg = j)
    <3>1. CASE x = n
      BY <2>2, <3>1, Zenon DEF k, c
    <3>2. CASE x # n
      BY <1>8, <2>1, <3>2, Zenon
    <3>. QED
      BY <3>1, <3>2, Zenon
  <2>4. \A i \in DOMAIN wire[x][y] : wire[x][y][i].msg # j
    <3>1. CASE x = n /\ y \in takes
      <4>1. \A i \in DOMAIN wire[n][y] : i \in DOMAIN wire'[n][y] /\ wire'[n][y][i] = wire[n][y][i]
        BY <1>10, <3>1, Zenon
      <4>2. \A i \in DOMAIN wire'[n][y] : wire'[n][y][i].msg # j
        BY <2>1, <3>1, Zenon
      <4>. QED
        BY <3>1, <4>1, <4>2, Zenon
    <3>2. CASE x # n \/ y \notin takes
      <4>1. wire'[x][y] = wire[x][y]
        BY <1>8, <3>2, Zenon
      <4>. QED
        BY <2>1, <4>1, Zenon
    <3>. QED
      BY <3>1, <3>2, Zenon
  <2>. QED
    BY <2>1, <2>3, <2>4, Zenon DEF Misses
<1>17. DropFacts'
  <2>. SUFFICES ASSUME NEW x \in Nodes PROVE Cardinality(Missing(x)') <= drops'[x]
    BY DEF DropFacts
  <2>0. Cardinality(Missing(x)) <= drops[x]
    BY <1>0, Zenon DEF DropFacts
  <2>1. CASE x # n
    <3>1. drops'[x] = drops[x]
      BY <1>8, <2>1, Zenon
    <3>2. \A j \in DOMAIN sends' : \A y \in Nodes :
              Misses(x, j, y)' => j \in DOMAIN sends /\ Misses(x, j, y)
      BY <1>1, <1>16, <2>1, Zenon
    <3>. QED
      BY <1>0, <1>11, <2>0, <3>1, <3>2, NoNewMiss, Zenon
  <2>2. CASE x = n
    <3>. DEFINE A == Missing(n)
                B == {k} \X refused
                M == Missing(n)'
    <3>1. M \subseteq A \cup B
      <4>1. M = {p \in (DOMAIN sends) \X Nodes : Misses(n, p[1], p[2])'}
        BY <1>1, Zenon DEF Missing
      <4>. SUFFICES ASSUME NEW p \in M, p \notin B PROVE p \in A
        OBVIOUS
      <4>2. p \in (DOMAIN sends) \X Nodes /\ Misses(n, p[1], p[2])'
        BY <4>1, Zenon
      <4>3. p[1] \in DOMAIN sends /\ p[2] \in Nodes /\ p = <<p[1], p[2]>>
        BY <4>2
      <4>4. ~(p[1] = k /\ p[2] \in refused)
        BY <4>3, Zenon
      <4>5. Misses(n, p[1], p[2])
        BY <1>16, <4>2, <4>3, <4>4, Zenon
      <4>. QED
        BY <4>2, <4>5, Zenon DEF Missing
    <3>2. IsFiniteSet(A) /\ Cardinality(A) \in Nat
      BY <1>0, MissingFinite, Zenon
    <3>3. IsFiniteSet(B) /\ Cardinality(B) = Cardinality(refused)
      <4>1. IsFiniteSet({k}) /\ Cardinality({k}) = 1
        BY FinSingleton, Zenon
      <4>2. IsFiniteSet(B) /\ Cardinality(B) = Cardinality({k}) * Cardinality(refused)
        BY <1>9, <4>1, FinProduct, Zenon
      <4>3. 1 * Cardinality(refused) = Cardinality(refused)
        BY <1>9
      <4>. QED
        BY <4>1, <4>2, <4>3, Zenon
    <3>. HIDE DEF A, B, M
    <3>4. Cardinality(M) \in Nat /\ Cardinality(M) <= Cardinality(A) + Cardinality(B)
      <4>1. IsFiniteSet(A \cup B) /\ IsFiniteSet(A \cap B)
            /\ Cardinality(A \cup B) = Cardinality(A) + Cardinality(B) - Cardinality(A \cap B)
        BY <3>2, <3>3, FinUnion, Zenon
      <4>2. Cardinality(A \cap B) \in Nat /\ Cardinality(A \cup B) \in Nat
        BY <4>1, FinCount, Zenon
      <4>3. IsFiniteSet(M) /\ Cardinality(M) <= Cardinality(A \cup B)
        BY <3>1, <4>1, FinSubset, Zenon
      <4>4. Cardinality(M) \in Nat
        BY <4>3, FinCount, Zenon
      <4>. QED
        BY <1>9, <3>2, <3>3, <4>1, <4>2, <4>3, <4>4
    <3>5. drops[n] \in Nat /\ drops'[n] = drops[n] + Cardinality(refused) /\ Cardinality(A) <= drops[n]
      BY <1>4, <1>8, <2>0, <2>2, ZenonT(40) DEF A
    <3>6. Cardinality(M) <= drops'[n]
      BY <1>9, <3>2, <3>3, <3>4, <3>5
    <3>. QED
      BY <2>2, <3>6, Zenon DEF M
  <2>. QED
    BY <2>1, <2>2, Zenon
<1>. QED
    BY <1>11, <1>12, <1>13, <1>14, <1>15, <1>17, ZenonT(40) DEF IInv

\* What a frame of s does when it is fanned out on n: it reaches those owed it,
\* and no one it is not for.
LEMMA FannedOut ==
    ASSUME TypeOK, NEW n \in Nodes, NEW s \in Sends, NEW f, FitsSend(s),
           Carries(f, f.body.entries, s), f.body = PutExcepts(f.body.entries),
           f.kind = "socket" => f.to.node = n,
           s.kind = "socket" => s.to \in ConnIds
    PROVE  /\ PayloadIntact(f.body)
           /\ \A l \in Recipients(n, f.kind, f.to) \ ExceptsFor(n, GetExcepts(f.body)) :
                /\ IdOf(Conn(n, l)) \notin Excepted(s.from, s.except)
                /\ s.kind = "socket" => IdOf(Conn(n, l)) = IdOf(s.to)
           /\ \A l \in live[n] : Owed(Conn(n, l), s, member) =>
                l \in Recipients(n, f.kind, f.to) \ ExceptsFor(n, GetExcepts(f.body))
<1>. DEFINE E == ExceptsFor(n, GetExcepts(f.body))
<1>1. /\ PayloadIntact(f.body)
      /\ s.kind = "socket" => E = {}
      /\ s.kind # "socket" => \A l : l \in E <=> [node |-> n, local |-> l] \in Excepted(s.from, s.except)
    BY ExceptsForFacts, Zenon
<1>. HIDE DEF E
<1>2. \A l : IdOf(Conn(n, l)) = [node |-> n, local |-> l] /\ Conn(n, l).node = n /\ Conn(n, l).local = l
    BY ConnFacts, Zenon
<1>3. CASE s.kind = "socket"
  <2>1. f.kind = "socket" /\ f.to = IdOf(s.to) /\ f.to \notin Excepted(s.from, s.except)
    BY <1>3, Zenon DEF Carries
  <2>2. f.to = [node |-> n, local |-> f.to.local]
    BY <1>3, <2>1, Zenon DEF IdOf
  <2>3. Recipients(n, f.kind, f.to) = {f.to.local} \cap live[n]
    BY <2>1, Zenon DEF Recipients
  <2>4. \A l \in Recipients(n, f.kind, f.to) \ E : IdOf(Conn(n, l)) = f.to
    BY <1>2, <2>2, <2>3, Zenon
  <2>5. ASSUME NEW l \in live[n], Owed(Conn(n, l), s, member) PROVE l \in Recipients(n, f.kind, f.to) \ E
    <3>1. IdOf(Conn(n, l)) = f.to
      BY <1>3, <2>1, <2>5, ZenonT(40) DEF Owed
    <3>2. l = f.to.local
      BY <1>2, <3>1
    <3>. QED
      BY <1>1, <1>3, <2>3, <3>2, Zenon
  <2>. QED
    BY <1>1, <2>1, <2>4, <2>5, Zenon DEF E
<1>4. CASE s.kind # "socket"
  <2>1. f.kind = s.kind /\ f.to = s.to
    BY <1>4, Zenon DEF Carries
  <2>2. \A l : l \in E <=> IdOf(Conn(n, l)) \in Excepted(s.from, s.except)
    BY <1>1, <1>2, <1>4, Zenon
  <2>3. s.kind = "group" \/ s.kind = "all"
    BY <1>4, Zenon DEF Sends, Kinds
  <2>4. ASSUME NEW l \in live[n], Owed(Conn(n, l), s, member) PROVE l \in Recipients(n, f.kind, f.to) \ E
    <3>1. l \notin E
      BY <2>2, <2>4, Zenon DEF Owed
    <3>2. CASE s.kind = "group"
      <4>1. l \in member[n][f.to]
        BY <1>2, <2>1, <2>4, <3>2, Zenon DEF Owed
      <4>. QED
        BY <2>1, <3>1, <3>2, <4>1, Zenon DEF Recipients
    <3>3. CASE s.kind = "all"
      BY <2>1, <3>1, <3>3, Zenon DEF Recipients
    <3>. QED
      BY <2>3, <3>2, <3>3, Zenon
  <2>. QED
    BY <1>1, <1>4, <2>2, <2>4, Zenon DEF E
<1>. QED
    BY <1>3, <1>4, Zenon

\* A relay that arrives.
LEMMA OnInboundStep ==
    ASSUME FiniteFacts, IInv, NEW m \in Nodes, NEW n \in Nodes, OnInbound(m, n) PROVE IInv'
<1>. DEFINE f == Head(wire[m][n])
            q == wire[m][n]
            k == f.msg
            E == ExceptsFor(n, GetExcepts(f.body))
            R == Recipients(n, f.kind, f.to)
<1>0. /\ TypeOK /\ NoSelfLink /\ twice = {} /\ SendFacts /\ CallFacts /\ WireFacts /\ GotFacts
      /\ DueFacts /\ DropFacts
    BY Zenon DEF IInv
<1>1. /\ q # <<>>
      /\ Push(n, k, f.kind, f.to, E, PayloadIntact(f.body))
      /\ wire' = [wire EXCEPT ![m][n] = Tail(@)]
      /\ UNCHANGED <<live, gen, member, life, known, alive, links, call, drops, minted, sends,
                     due, cut>>
    BY Zenon DEF OnInbound, Deliver, connVars, meshVars
<1>2. wire \in [Nodes -> [Nodes -> Seq(Frames)]] /\ sends \in Seq(Sends)
    BY <1>0, Zenon DEF TypeOK
<1>3. q \in Seq(Frames)
    BY <1>2, Zenon
<1>4. /\ Tail(q) \in Seq(Frames) /\ f = q[1] /\ Len(q) \in Nat \ {0} /\ DOMAIN q = 1..Len(q)
      /\ DOMAIN Tail(q) = 1..(Len(q) - 1) /\ \A i \in 1..(Len(q) - 1) : Tail(q)[i] = q[i + 1]
  <2>. HIDE DEF q
  <2>. QED
    BY <1>1, <1>3, TailFacts, Zenon DEF q
<1>5. /\ wire'[m][n] = Tail(q)
      /\ \A x, y \in Nodes : ~(x = m /\ y = n) => wire'[x][y] = wire[x][y]
      /\ wire' \in [Nodes -> [Nodes -> Seq(Frames)]]
    BY <1>1, <1>2, <1>4, Zenon
<1>6. /\ Distinct(q) /\ \A i \in DOMAIN q : InFlight(q[i], m, n, sends, got)
    BY <1>0, ZenonT(40) DEF WireFacts
<1>. HIDE DEF q
<1>7. 1 \in DOMAIN q /\ InFlight(f, m, n, sends, got)
    BY <1>4, <1>6
<1>. HIDE DEF f
<1>8. /\ m # n /\ k \in DOMAIN sends /\ sends[k].from = m
      /\ Carries(f, f.body.entries, sends[k]) /\ f.body = PutExcepts(f.body.entries)
      /\ f.kind = "socket" => f.to.node = n
      /\ \A g \in got : g.msg = k => g.conn.node # n
    BY <1>7, ZenonT(40) DEF InFlight
<1>9. sends[k] \in Sends /\ (sends[k].kind = "socket" => sends[k].to \in ConnIds)
  <2>1. WellSent(sends[k])
    BY <1>0, <1>8, Zenon DEF SendFacts
  <2>. QED
    BY <1>2, <1>8, <2>1 DEF WellSent
<1>. HIDE DEF k
<1>10. FitsSend(sends[k]) =>
           /\ PayloadIntact(f.body)
           /\ \A l \in R \ E :
                /\ IdOf(Conn(n, l)) \notin Excepted(sends[k].from, sends[k].except)
                /\ sends[k].kind = "socket" => IdOf(Conn(n, l)) = IdOf(sends[k].to)
           /\ \A l \in live[n] : Owed(Conn(n, l), sends[k], member) => l \in R \ E
    BY <1>0, <1>8, <1>9, FannedOut, ZenonT(40)
<1>. HIDE DEF R, E
<1>11. /\ twice' = {} /\ got \subseteq got'
       /\ \A g \in got' : \/ g \in got
                          \/ /\ g.msg = k /\ g.intact = PayloadIntact(f.body)
                             /\ \E l \in R \ E : g.conn = Conn(n, l)
       /\ \A l \in R \ E : Has(got', k, Conn(n, l))
    BY <1>0, <1>1, <1>8, PushFacts, SMTT(30) DEF R
<1>12. \A g \in got' : g \in got \/ (g.msg = k /\ g.conn.node = n)
    BY <1>11, ConnFacts
<1>13. \A i \in DOMAIN Tail(q) : i + 1 \in DOMAIN q /\ i + 1 # 1 /\ i \in Nat /\ Tail(q)[i] = q[i + 1]
    BY <1>4
<1>14. \A i \in DOMAIN q : i = 1 \/ \E j \in DOMAIN Tail(q) : Tail(q)[j] = q[i]
  <2>. SUFFICES ASSUME NEW i \in DOMAIN q, i # 1 PROVE i - 1 \in DOMAIN Tail(q) /\ Tail(q)[i - 1] = q[i]
    OBVIOUS
  <2>1. i - 1 \in 1..(Len(q) - 1) /\ (i - 1) + 1 = i
    BY <1>4
  <2>. QED
    BY <1>4, <2>1
<1>15. TypeOK'
    BY <1>0, <1>1, <1>5, Zenon DEF TypeOK
<1>16. NoSelfLink' /\ SendFacts'
  <2>1. NoSelfLink'
    BY <1>0, <1>1, Zenon DEF NoSelfLink
  <2>. QED
    BY <1>0, <1>1, <2>1, Zenon DEF SendFacts
<1>17. GotFacts'
  <2>. SUFFICES ASSUME NEW g \in got' PROVE g.msg \in DOMAIN sends /\ RightlyGot(g, sends[g.msg])
    BY <1>1, Zenon DEF GotFacts
  <2>1. CASE g \in got
    BY <1>0, <2>1, Zenon DEF GotFacts
  <2>2. CASE g \notin got
    <3>1. PICK l \in R \ E : g.conn = Conn(n, l) /\ g.msg = k /\ g.intact = PayloadIntact(f.body)
      BY <1>11, <2>2, Zenon
    <3>2. RightlyGot(g, sends[k])
      BY <1>10, <3>1, Zenon DEF RightlyGot
    <3>. QED
      BY <1>8, <3>1, <3>2, Zenon
  <2>. QED
    BY <2>1, <2>2, Zenon
<1>18. \A j, c : Has(got, j, c) => Has(got', j, c)
    BY <1>11, Zenon DEF Has
<1>19. DueFacts'
  <2>1. Conns' = Conns
    BY <1>1 DEF Conns, Conn
  <2>. SUFFICES ASSUME NEW d \in due
                PROVE  /\ d.msg \in DOMAIN sends /\ d.conn \in Conns
                       /\ Owed(d.conn, sends[d.msg], member)
                       /\ d.conn.node = sends[d.msg].from => Has(got', d.msg, d.conn)
    BY <1>1, <2>1, Zenon DEF DueFacts
  <2>. QED
    BY <1>0, <1>18, ZenonT(40) DEF DueFacts
<1>20. CallFacts'
  <2>. SUFFICES ASSUME NEW x \in Nodes, call[x] # Idle
                PROVE  InCall(x, call[x], sends, wire'[x], got')
    BY <1>1, Zenon DEF CallFacts
  <2>. DEFINE c == call[x]
  <2>1. InCall(x, c, sends, wire[x], got)
    BY <1>0, Zenon DEF CallFacts
  <2>. HIDE DEF c
  <2>2. /\ c.msg \in DOMAIN sends /\ sends[c.msg].from = x
        /\ \A y \in Nodes : \A i \in DOMAIN wire[x][y] : wire[x][y][i].msg # c.msg
        /\ \A g \in got : g.msg = c.msg => g.conn.node = x
    BY <2>1, Zenon DEF InCall
  <2>3. c.msg # k
    <3>. SUFFICES ASSUME c.msg = k PROVE FALSE
      OBVIOUS
    <3>1. x = m
      BY <1>8, <2>2, Zenon
    <3>2. q[1].msg # c.msg
      BY <1>7, <2>2, <3>1, Zenon DEF q
    <3>. QED
      BY <1>4, <3>2, Zenon DEF k
  <2>4. \A g \in got' : g.msg = c.msg => g.conn.node = x
    BY <1>12, <2>2, <2>3, Zenon
  <2>5. \A y \in Nodes : \A i \in DOMAIN wire'[x][y] : wire'[x][y][i].msg # c.msg
    <3>. SUFFICES ASSUME NEW y \in Nodes, NEW i \in DOMAIN wire'[x][y]
                  PROVE  wire'[x][y][i].msg # c.msg
      OBVIOUS
    <3>0. \A j \in DOMAIN wire[x][y] : wire[x][y][j].msg # c.msg
      BY <2>2, Zenon
    <3>1. CASE x = m /\ y = n
      <4>1. \A j \in DOMAIN q : q[j].msg # c.msg
        BY <3>0, <3>1, Zenon DEF q
      <4>2. wire'[x][y] = Tail(q)
        BY <1>5, <3>1, Zenon
      <4>3. i + 1 \in DOMAIN q /\ Tail(q)[i] = q[i + 1]
        BY <1>13, <4>2, Zenon
      <4>. QED
        BY <4>1, <4>2, <4>3, Zenon
    <3>2. CASE ~(x = m /\ y = n)
      <4>1. wire'[x][y] = wire[x][y]
        BY <1>5, <3>2, Zenon
      <4>. QED
        BY <3>0, <4>1, Zenon
    <3>. QED
      BY <3>1, <3>2, ZenonT(40)
  <2>6. InCall(x, c, sends, wire'[x], got')
    BY <2>1, <2>4, <2>5, Zenon DEF InCall
  <2>. QED
    BY <2>6, Zenon DEF c
<1>21. WireFacts'
  <2>. SUFFICES ASSUME NEW x \in Nodes, NEW y \in Nodes
                PROVE  /\ Distinct(wire'[x][y])
                       /\ \A i \in DOMAIN wire'[x][y] : InFlight(wire'[x][y][i], x, y, sends, got')
    BY <1>1, Zenon DEF WireFacts
  <2>0. /\ Distinct(wire[x][y])
        /\ \A i \in DOMAIN wire[x][y] : InFlight(wire[x][y][i], x, y, sends, got)
    BY <1>0, Zenon DEF WireFacts
  <2>1. ASSUME NEW h, InFlight(h, x, y, sends, got), ~(x = m /\ y = n /\ h.msg = k)
        PROVE  InFlight(h, x, y, sends, got')
    <3>1. sends[h.msg].from = x /\ \A g \in got : g.msg = h.msg => g.conn.node # y
      BY <2>1, Zenon DEF InFlight
    <3>2. \A g \in got' : g.msg = h.msg => g.conn.node # y
      BY <1>8, <1>12, <2>1, <3>1, Zenon
    <3>. QED
      BY <2>1, <3>2, Zenon DEF InFlight
  <2>2. CASE x = m /\ y = n
    <3>1. wire'[x][y] = Tail(q)
      BY <1>5, <2>2, Zenon
    <3>2. Distinct(Tail(q))
      <4>. SUFFICES ASSUME NEW i \in DOMAIN Tail(q), NEW j \in DOMAIN Tail(q),
                           Tail(q)[i].msg = Tail(q)[j].msg
                    PROVE  i = j
        BY Zenon DEF Distinct
      <4>1. i + 1 = j + 1
        <5>1. i + 1 \in DOMAIN q /\ j + 1 \in DOMAIN q /\ q[i + 1].msg = q[j + 1].msg
          BY <1>13, Zenon
        <5>. QED
          BY <1>6, <5>1, Zenon DEF Distinct
      <4>2. i \in Nat /\ j \in Nat
        BY <1>13, Zenon
      <4>. QED
        BY <4>1, <4>2
    <3>3. \A i \in DOMAIN Tail(q) : InFlight(Tail(q)[i], x, y, sends, got')
      <4>. SUFFICES ASSUME NEW i \in DOMAIN Tail(q) PROVE InFlight(Tail(q)[i], x, y, sends, got')
        OBVIOUS
      <4>1. i + 1 \in DOMAIN q /\ i + 1 # 1 /\ Tail(q)[i] = q[i + 1]
        BY <1>13, Zenon
      <4>2. q[i + 1].msg # k
        BY <1>4, <1>6, <1>7, <4>1, Zenon DEF Distinct, k
      <4>3. InFlight(q[i + 1], x, y, sends, got)
        BY <1>6, <2>2, <4>1, Zenon
      <4>. QED
        BY <2>1, <4>1, <4>2, <4>3, ZenonT(40)
    <3>. QED
      BY <3>1, <3>2, <3>3, Zenon
  <2>3. CASE ~(x = m /\ y = n)
    <3>1. wire'[x][y] = wire[x][y]
      BY <1>5, <2>3, Zenon
    <3>. QED
      BY <2>0, <2>1, <2>3, <3>1, Zenon
  <2>. QED
    BY <2>2, <2>3, Zenon
<1>22. ASSUME NEW x \in Nodes, NEW j \in DOMAIN sends, NEW y \in Nodes, Misses(x, j, y)'
       PROVE  Misses(x, j, y)
  <2>1. /\ sends[j].from = x /\ FitsSend(sends[j])
        /\ ~(call[x] # Idle /\ call[x].msg = j)
        /\ \A i \in DOMAIN wire'[x][y] : wire'[x][y][i].msg # j
        /\ y \notin sends[j].blind /\ <<j, y>> \notin cut
        /\ \E d \in due : d.msg = j /\ d.conn.node = y /\ ~Has(got', j, d.conn)
    BY <1>1, <1>22, Zenon DEF Misses
  <2>2. PICK d \in due : d.msg = j /\ d.conn.node = y /\ ~Has(got', j, d.conn)
    BY <2>1, Zenon
  <2>3. ~(x = m /\ y = n /\ j = k)
    <3>. SUFFICES ASSUME x = m, y = n, j = k PROVE FALSE
      OBVIOUS
    <3>1. d.conn \in Conns /\ Owed(d.conn, sends[k], member)
      BY <1>0, <2>2, Zenon DEF DueFacts
    <3>2. PICK z \in Nodes : \E l \in live[z] : d.conn = Conn(z, l)
      BY <3>1, ConnsFacts, Zenon
    <3>3. PICK l \in live[z] : d.conn = Conn(z, l)
      BY <3>2, Zenon
    <3>4. z = n
      BY <2>2, <3>3, ConnFacts, ZenonT(40)
    <3>5. l \in R \ E
      BY <1>10, <2>1, <3>1, <3>3, <3>4, Zenon
    <3>. QED
      BY <1>11, <2>2, <3>3, <3>4, <3>5, ZenonT(40)
  <2>4. \A i \in DOMAIN wire[x][y] : wire[x][y][i].msg # j
    <3>1. CASE x = m /\ y = n
      <4>0. wire'[x][y] = Tail(q)
        BY <1>5, <3>1, Zenon
      <4>1. \A i \in DOMAIN Tail(q) : Tail(q)[i].msg # j
        BY <2>1, <4>0, Zenon
      <4>2. q[1].msg # j
        BY <1>4, <2>3, <3>1, Zenon DEF k
      <4>3. \A i \in DOMAIN q : q[i].msg # j
        BY <1>14, <4>1, <4>2, Zenon
      <4>. QED
        BY <3>1, <4>3, Zenon DEF q
    <3>2. CASE ~(x = m /\ y = n)
      <4>1. wire'[x][y] = wire[x][y]
        BY <1>5, <3>2, Zenon
      <4>. QED
        BY <2>1, <4>1, Zenon
    <3>. QED
      BY <3>1, <3>2, Zenon
  <2>5. ~Has(got, j, d.conn)
    BY <1>18, <2>2, Zenon
  <2>. QED
    BY <2>1, <2>2, <2>4, <2>5, Zenon DEF Misses
<1>23. DropFacts'
  <2>. SUFFICES ASSUME NEW x \in Nodes PROVE Cardinality(Missing(x)') <= drops'[x]
    BY DEF DropFacts
  <2>1. Cardinality(Missing(x)) <= drops[x] /\ drops'[x] = drops[x]
    BY <1>0, <1>1, Zenon DEF DropFacts
  <2>2. \A j \in DOMAIN sends' : \A y \in Nodes :
            Misses(x, j, y)' => j \in DOMAIN sends /\ Misses(x, j, y)
    BY <1>1, <1>22, Zenon
  <2>. QED
    BY <1>0, <1>15, <2>1, <2>2, NoNewMiss, Zenon
<1>. QED
    BY <1>11, <1>15, <1>16, <1>17, <1>19, <1>20, <1>21, <1>23, ZenonT(40) DEF IInv

-----------------------------------------------------------------------------
(* The theorems.                                                           *)

\* A mesh at rest.
LEMMA InitIInv == ASSUME FiniteFacts, Init PROVE IInv
<1>1. TypeOK
  <2>1. /\ life \in [Nodes -> Nat] /\ drops \in [Nodes -> Nat] /\ gen \in [Nodes -> [Slots -> Nat]]
        /\ alive \in [Nodes -> SUBSET Nodes] /\ call \in [Nodes -> Calls \cup {Idle}]
    BY Zenon DEF Init
  <2>2. Slots \X {0} \subseteq Locals
    BY DEF Locals
  <2>3. live \in [Nodes -> SUBSET Locals] /\ member \in [Nodes -> [Targets -> SUBSET Locals]]
    BY <2>2, Zenon DEF Init
  <2>4. \A m \in Nodes : Hosted(m) \subseteq Targets
    BY Zenon DEF Hosted
  <2>5. known \in [Nodes -> [Nodes -> SUBSET Targets]]
    <3>1. known = [n \in Nodes |-> [m \in Nodes |-> IF m = n THEN {} ELSE Hosted(m)]]
      BY Zenon DEF Init
    <3>2. \A n, m \in Nodes : (IF m = n THEN {} ELSE Hosted(m)) \in SUBSET Targets
      BY <2>4, Zenon
    <3>. QED
      BY <3>1, <3>2, Zenon
  <2>6. links \subseteq SUBSET Nodes
    <3>1. links \subseteq {Pair(n, m) : n, m \in Nodes}
      BY DEF Init
    <3>2. \A n, m \in Nodes : Pair(n, m) \in SUBSET Nodes
      BY Zenon DEF Pair
    <3>. QED
      BY <3>1, <3>2
  <2>7. wire \in [Nodes -> [Nodes -> Seq(Frames)]] /\ sends \in Seq(Sends)
    BY DEF Init
  <2>8. minted \subseteq ConnIds
    <3>. SUFFICES ASSUME NEW c \in Conns PROVE c \in ConnIds
      BY DEF Init
    <3>1. PICK n \in Nodes : \E l \in live[n] : c = Conn(n, l)
      BY ConnsFacts, Zenon
    <3>2. PICK l \in live[n] : c = Conn(n, l)
      BY <3>1, Zenon
    <3>3. l \in Locals /\ life[n] \in Nat
      BY <2>1, <2>3, Zenon
    <3>. QED
      BY <3>2, <3>3, Zenon DEF Conn, ConnIds
  <2>. QED
    BY <2>1, <2>3, <2>5, <2>6, <2>7, <2>8, Zenon DEF TypeOK
<1>2. /\ wire = [n \in Nodes |-> [m \in Nodes |-> <<>>]] /\ call = [n \in Nodes |-> Idle]
      /\ drops = [n \in Nodes |-> 0]
      /\ sends = <<>> /\ got = {} /\ twice = {} /\ due = {}
    BY Zenon DEF Init
<1>3. NoSelfLink
  <2>1. \A n \in Nodes : {n} \notin links
    BY SMTT(30) DEF Init
  <2>2. \A n : {n, n} = {n}
    OBVIOUS
  <2>. QED
    BY <2>1, <2>2, Zenon DEF NoSelfLink
<1>4. SendFacts /\ GotFacts /\ DueFacts
    BY <1>2 DEF SendFacts, GotFacts, DueFacts
<1>5. CallFacts
    BY <1>2, Zenon DEF CallFacts
<1>6. WireFacts
  <2>1. \A n, m \in Nodes : DOMAIN wire[n][m] = {}
    BY <1>2
  <2>. QED
    BY <2>1, Zenon DEF WireFacts, Distinct
<1>7. DropFacts
  <2>. SUFFICES ASSUME NEW n \in Nodes PROVE Cardinality(Missing(n)) <= drops[n]
    BY Zenon DEF DropFacts
  <2>1. DOMAIN sends = {}
    BY <1>2
  <2>2. Missing(n) = {}
    BY <2>1, Zenon DEF Missing
  <2>. QED
    BY <1>2, <2>2, FinEmpty
<1>. QED
    BY <1>1, <1>2, <1>3, <1>4, <1>5, <1>6, <1>7, Zenon DEF IInv

\* Every step.
LEMMA NextIInv == ASSUME FiniteFacts, IInv, [Next]_vars PROVE IInv'
<1>1. CASE Churn
    BY <1>1, ChurnStep, Zenon
<1>2. ASSUME NEW n \in Senders, Send(n) PROVE IInv'
  <2>1. n \in Nodes
    BY RelayAssumption, Zenon
  <2>. QED
    BY <1>2, <2>1, SendStep, Zenon
<1>3. ASSUME NEW n \in Nodes, Route(n) \/ Relay(n) \/ Restart(n) PROVE IInv'
    BY <1>3, RouteStep, RelayStep, RestartStep, Zenon
<1>4. ASSUME NEW n \in Nodes, NEW m \in Nodes, OnInbound(m, n) PROVE IInv'
    BY <1>4, OnInboundStep, Zenon
<1>5. ASSUME NEW n \in Nodes, NEW m \in Nodes, LinkDown(n, m) PROVE IInv'
    BY <1>5, LinkDownStep, Zenon
<1>6. ASSUME NEW n \in Nodes, NEW m \in Nodes, Learn(n, m) \/ LinkUp(n, m) \/ Revive(n, m) PROVE IInv'
    BY <1>6, QuietStep, Zenon
<1>7. CASE UNCHANGED vars
  <2>1. UNCHANGED <<life, live, gen, member, known, alive, links, wire, call, drops, minted,
                    sends, got, twice, due, cut>>
    BY <1>7, Zenon DEF vars, connVars, meshVars, histVars
  <2>2. TypeOK' /\ NoSelfLink'
    BY <2>1, Zenon DEF IInv, TypeOK, NoSelfLink
  <2>3. DueFacts'
    BY <2>1, DueStays, Zenon
  <2>4. TypeOK
    BY Zenon DEF IInv
  <2>5. QueuesCut /\ NodesCut
    BY <2>1, <2>4, NothingCut, Zenon
  <2>6. due' \subseteq due /\ cut \subseteq cut'
    BY <2>1, Zenon
  <2>. QED
    BY <2>1, <2>2, <2>3, <2>5, <2>6, Shrunk, Zenon
<1>. QED
    BY <1>1, <1>2, <1>3, <1>4, <1>5, <1>6, <1>7, Zenon DEF Next

INSTANCE FiniteSetTheorems

\* The facts about finite sets hold.
LEMMA FiniteFactsHold == FiniteFacts
<1>1. IsFiniteSet({}) /\ Cardinality({}) = 0
    BY FS_EmptySet, Zenon
<1>2. \A S : IsFiniteSet(S) => Cardinality(S) \in Nat
    BY FS_CardinalityType, Zenon
<1>3. \A S : \A T \in SUBSET S : IsFiniteSet(S) => IsFiniteSet(T) /\ Cardinality(T) <= Cardinality(S)
    BY FS_Subset, Zenon
<1>4. \A n \in Nat : IsFiniteSet(1..n)
    BY FS_Interval
<1>5. \A S, T : IsFiniteSet(S) /\ IsFiniteSet(T) =>
           IsFiniteSet(S \X T) /\ Cardinality(S \X T) = Cardinality(S) * Cardinality(T)
    BY FS_Product, Zenon
<1>6. \A S, T : IsFiniteSet(S) /\ IsFiniteSet(T) =>
           /\ IsFiniteSet(S \cup T) /\ IsFiniteSet(S \cap T)
           /\ Cardinality(S \cup T) = Cardinality(S) + Cardinality(T) - Cardinality(S \cap T)
    BY FS_Union, FS_Intersection, ZenonT(40)
<1>7. \A x : IsFiniteSet({x}) /\ Cardinality({x}) = 1
    BY FS_Singleton, Zenon
<1>. QED
    BY <1>1, <1>2, <1>3, <1>4, <1>5, <1>6, <1>7, ZenonT(40) DEF FiniteFacts

\* What is sent, called for, on the wire and owed fits together, always.
THEOREM Invariance == Spec => []IInv
<1>1. Init => IInv
    BY FiniteFactsHold, InitIInv
<1>2. IInv /\ [Next]_vars => IInv'
    BY FiniteFactsHold, NextIInv
<1>. QED
    BY <1>1, <1>2, PTL DEF Spec

\* The registries, tables, queues and calls of every node keep their types.
THEOREM TypeCorrect == Spec => []TypeOK
<1>1. IInv => TypeOK
    BY ZenonT(40) DEF IInv
<1>. QED
    BY <1>1, Invariance, PTL

\* No connection is handed a message twice, however many nodes and links: a
\* relay is fanned out where it arrives and goes no further.
THEOREM NoDuplicate == Spec => []OnceEach
<1>1. IInv => OnceEach
    BY Zenon DEF IInv, OnceEach
<1>. QED
    BY <1>1, Invariance, PTL

\* What a connection gets was addressed to it, was not excepted for it and has
\* the payload that was sent.
THEOREM Addressed == Spec => []OnlyTheAddressed
<1>1. ASSUME IInv PROVE OnlyTheAddressed
  <2>. SUFFICES ASSUME NEW g \in got, Fits(g.msg)
                PROVE  /\ g.intact
                       /\ IdOf(g.conn) \notin Excepted(sends[g.msg].from, sends[g.msg].except)
                       /\ sends[g.msg].kind = "socket" => IdOf(g.conn) = IdOf(sends[g.msg].to)
    BY Zenon DEF OnlyTheAddressed
  <2>1. RightlyGot(g, sends[g.msg])
    BY <1>1, Zenon DEF IInv, GotFacts
  <2>2. FitsSend(sends[g.msg])
    BY ZenonT(40) DEF Fits, FitsSend
  <2>. QED
    BY <2>1, <2>2, Zenon DEF RightlyGot
<1>. QED
    BY <1>1, Invariance, PTL

\* Whoever stayed and misses a message for good is on a node the sender had
\* reason to pass over, lost it with a link or a process, or was counted.
THEOREM Explained == Spec => []MissesExplained
<1>1. ASSUME IInv PROVE MissesExplained
  <2>. SUFFICES ASSUME NEW n \in Nodes PROVE Cardinality(Unexplained(n)) <= drops[n]
    BY DEF MissesExplained
  <2>0. TypeOK /\ drops[n] \in Nat
    BY <1>1, Zenon DEF IInv, TypeOK
  <2>1. Unexplained(n) \subseteq Missing(n)
    <3>. SUFFICES ASSUME NEW p \in Unexplained(n) PROVE p \in Missing(n)
      OBVIOUS
    <3>. DEFINE k == p[1]
                m == p[2]
    <3>1. /\ p \in (DOMAIN sends) \X Nodes
          /\ sends[k].from = n /\ Fits(k) /\ ~UnderWay(k)
          /\ m \notin sends[k].blind /\ <<k, m>> \notin cut
          /\ \E d \in due : d.msg = k /\ d.conn.node = m
                            /\ \A g \in got : ~(g.msg = k /\ g.conn = d.conn)
      BY Zenon DEF Unexplained
    <3>2. m \in Nodes
      BY <3>1, Zenon
    <3>. HIDE DEF k, m
    <3>3. FitsSend(sends[k])
      BY <3>1, Zenon DEF Fits, FitsSend
    <3>4. /\ ~(call[n] # Idle /\ call[n].msg = k)
          /\ \A i \in DOMAIN wire[n][m] : wire[n][m][i].msg # k
      BY <3>1, <3>2, Zenon DEF UnderWay
    <3>5. \E d \in due : d.msg = k /\ d.conn.node = m /\ ~Has(got, k, d.conn)
      BY <3>1, Zenon DEF Has
    <3>6. Misses(n, k, m)
      BY <3>1, <3>3, <3>4, <3>5, ZenonT(40) DEF Misses
    <3>. QED
      BY <3>1, <3>6, ZenonT(40) DEF Missing, k, m
  <2>2. IsFiniteSet(Missing(n)) /\ Cardinality(Missing(n)) \in Nat
    BY <2>0, FiniteFactsHold, MissingFinite, ZenonT(40)
  <2>3. Cardinality(Unexplained(n)) <= Cardinality(Missing(n)) /\ Cardinality(Unexplained(n)) \in Nat
    <3>1. \A S, T : IsFiniteSet(T) /\ S \subseteq T => Cardinality(S) <= Cardinality(T) /\ Cardinality(S) \in Nat
      BY FS_Subset, FS_CardinalityType, Zenon
    <3>. QED
      BY <2>1, <2>2, <3>1, ZenonT(40)
  <2>4. Cardinality(Missing(n)) <= drops[n]
    BY <1>1, Zenon DEF IInv, DropFacts
  <2>. QED
    BY <2>0, <2>2, <2>3, <2>4, SMTT(30)
<1>. QED
    BY <1>1, Invariance, PTL
=============================================================================
