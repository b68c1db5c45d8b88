------------------------- MODULE ConnectionMembershipProofs -------------------------
(***************************************************************************)
(* Proofs about one connection and about the cluster's member tables.      *)
(* Connection: for every set of callers, every capacity of the mailbox and *)
(* of the control queue, and every number of pushes, closes and            *)
(* disturbances, no frame is lost or reordered while nobody has closed,    *)
(* and the close code reported is the first closer's. Membership: for      *)
(* every set of nodes and every fault, no table holds an incarnation its   *)
(* subject never had, and a verdict of death needs a refutation to go. The *)
(* two share no state: a theorem speaks of one specification.              *)
(***************************************************************************)
EXTENDS Connection, Membership, TLAPS

-----------------------------------------------------------------------------
(* Membership: merge, refutation, suspicion and expiry over links that     *)
(* lose frames and nodes that crash and restart.                           *)

(* The updates that claim no incarnation their subject never had, and the  *)
(* frames that carry only such updates.                                    *)
Known == {u \in Update : u.inc <= top[u.id]}

KnownFrame ==
    [kind : {"sync"}, reply : BOOLEAN, updates : SUBSET Known]
      \cup [kind : {"gossip"}, updates : SUBSET Known]
      \cup [kind : {"digest"}, incs : [Nodes -> Nat]]

Tables ==
    /\ up \subseteq Nodes
    /\ inc \in [Nodes -> Nat] /\ top \in [Nodes -> Nat]
    /\ view \in [Nodes -> [Nodes -> Entry \cup {Unknown}]]
    /\ gossip \in [Nodes -> [Nodes -> Nat]]
    /\ \A n, p \in Nodes : gossip[n][p] > 0 => p \in Listed(n)
    /\ \A n \in Nodes : inc[n] <= top[n] /\ 1 <= top[n]
    /\ NoForgedIncarnation

Frames == chan \in [Nodes -> [Nodes -> Seq(KnownFrame)]]

MembershipIInv == Tables /\ Frames

-----------------------------------------------------------------------------
(* The initial state of module Membership satisfies the invariant.         *)
LEMMA InitInv == MembershipInit => MembershipIInv
<1> SUFFICES ASSUME MembershipInit PROVE MembershipIInv
    OBVIOUS
<1>1. Tables
  BY SMT DEF MembershipInit, Tables, NoForgedIncarnation, Entry, States, Alive, Listed
<1>2. Frames
  BY SMT DEF MembershipInit, Frames
<1> QED BY <1>1, <1>2 DEF MembershipIInv

FactsKnown ==
    \A n \in Nodes : FullState(n) \subseteq Known /\ DigestOf(n) \in [Nodes -> Nat]

(* What a node says of a member, from its own incarnation or its table     *)
(* (full_state, build_digest), claims no incarnation the member never had. *)
LEMMA FactsAreKnown == Tables => FactsKnown
<1> SUFFICES ASSUME Tables, NEW n \in Nodes
             PROVE  FullState(n) \subseteq Known /\ DigestOf(n) \in [Nodes -> Nat]
    BY DEF FactsKnown
<1>1. ASSUME NEW p \in Listed(n) PROVE Fact(n, p) \in Known
  <2>1. p \in Nodes
    BY DEF Listed
  <2>2. CASE p = n
    BY <2>1, <2>2, Zenon DEF Tables, Fact, Alive, Known, Update, States
  <2>3. CASE p # n
    <3>1. view[n][p] \in Entry /\ view[n][p].inc <= top[p]
      BY <1>1, <2>1, <2>3, SMT DEF Tables, Listed, NoForgedIncarnation
    <3> QED BY <2>1, <2>3, <3>1, Zenon DEF Fact, Known, Update, Entry, Tables
  <2> QED BY <2>2, <2>3
<1>2. FullState(n) \subseteq Known
  BY <1>1, Zenon DEF FullState
<1>3. DigestOf(n) \in [Nodes -> Nat]
  BY <1>1, SMT DEF DigestOf, Known, Update, Listed
<1> QED BY <1>2, <1>3

(* As incarnations only rise, what was a known update stays one, also on   *)
(* the way.                                                                *)
LEMMA KnownGrows ==
    ASSUME top' \in [Nodes -> Nat], top \in [Nodes -> Nat],
           \A p \in Nodes : top[p] <= top'[p]
    PROVE  /\ Known \subseteq Known'
           /\ \A s \in Seq(KnownFrame) : s \in Seq(KnownFrame')
<1>1. Known \subseteq Known'
  BY SMT DEF Known, Update
<1>2. KnownFrame \subseteq KnownFrame'
  BY <1>1, SMT DEF KnownFrame
<1>3. \A s \in Seq(KnownFrame) : s \in Seq(KnownFrame')
  BY <1>2, SMT
<1> QED BY <1>1, <1>3, Zenon

-----------------------------------------------------------------------------
(* Steps of a table.                                                       *)

(* SetTable keeps the tables sound when the new entries are.               *)
LEMMA SetTableSound ==
    ASSUME Tables, NEW n \in Nodes, NEW e \in [Nodes -> Entry \cup {Unknown}], NEW i \in Nat,
           \A p \in Nodes : e[p] # Unknown => e[p].inc <= top[p],
           \A p \in Nodes : view[n][p] # Unknown => e[p] # Unknown,
           SetTable(n, e, i), up' = up
    PROVE  Tables' /\ \A p \in Nodes : top[p] <= top'[p]
<1>1. /\ view' = [view EXCEPT ![n] = e]
      /\ inc' = [inc EXCEPT ![n] = i]
      /\ top' = [top EXCEPT ![n] = IF i > @ THEN i ELSE @]
      /\ gossip' = [gossip EXCEPT ![n] = [p \in Nodes |->
                     IF e[p] # view[n][p] \/ (p = n /\ i # inc[n]) THEN Retransmit ELSE @[p]]]
  BY Zenon DEF SetTable
<1>2. top' \in [Nodes -> Nat] /\ \A p \in Nodes : top[p] <= top'[p] /\ 1 <= top'[p]
  BY <1>1, SMT DEF Tables
<1>3. inc' \in [Nodes -> Nat] /\ \A m \in Nodes : inc'[m] <= top'[m]
  BY <1>1, SMT DEF Tables
<1>4. view' \in [Nodes -> [Nodes -> Entry \cup {Unknown}]]
  BY <1>1, Zenon DEF Tables
<1>5. ASSUME NEW m \in Nodes, NEW p \in Nodes, view'[m][p] # Unknown
      PROVE  view'[m][p].inc <= top'[p]
  <2>1. \/ view'[m][p] = e[p]
        \/ view'[m][p] = view[m][p]
    BY <1>1, Zenon DEF Tables
  <2>2. view'[m][p].inc <= top[p] /\ view'[m][p].inc \in Nat
    BY <1>4, <1>5, <2>1, SMT DEF Tables, NoForgedIncarnation, Entry
  <2> QED BY <1>2, <2>2, SMT DEF Tables
<1>6. gossip' \in [Nodes -> [Nodes -> Nat]]
  BY <1>1, MembershipAssumption, SMT DEF Tables
<1>7. ASSUME NEW m \in Nodes, NEW p \in Nodes, gossip'[m][p] > 0
      PROVE  p \in Listed(m)'
  <2>1. CASE m = n
    <3>1. view'[n][p] = e[p]
      BY <1>1, Zenon DEF Tables
    <3>2. \/ e[p] # view[n][p] \/ p = n
          \/ gossip[n][p] > 0
      BY <1>1, <1>7, <2>1, Zenon DEF Tables
    <3> QED BY <2>1, <3>1, <3>2, Zenon DEF Tables, Listed
  <2>2. CASE m # n
    BY <1>1, <1>7, <2>2, Zenon DEF Tables, Listed
  <2> QED BY <2>1, <2>2, Zenon
<1> QED BY <1>2, <1>3, <1>4, <1>5, <1>6, <1>7, Zenon DEF Tables, NoForgedIncarnation

(* SetTable keeps the verdicts when the new entries do.                    *)
LEMMA SetTableKeeps ==
    ASSUME Tables, NEW n \in Nodes, NEW e \in [Nodes -> Entry \cup {Unknown}], NEW i,
           \A p \in Nodes : view[n][p] # Unknown =>
             /\ e[p] # Unknown /\ e[p].inc >= view[n][p].inc
             /\ view[n][p].state = "Dead" /\ e[p].inc = view[n][p].inc => e[p].state = "Dead",
           SetTable(n, e, i)
    PROVE  KeepsVerdicts
<1>1. view' = [view EXCEPT ![n] = e]
  BY Zenon DEF SetTable
<1>2. ASSUME NEW m \in Nodes, NEW p \in Nodes, view[m][p] # Unknown
      PROVE  /\ view'[m][p] # Unknown
             /\ view'[m][p].inc >= view[m][p].inc
             /\ view[m][p].state = "Dead" /\ view'[m][p].inc = view[m][p].inc
                  => view'[m][p].state = "Dead"
  <2>1. CASE m = n
    BY <1>1, <1>2, <2>1, Zenon DEF Tables
  <2>2. CASE m # n
    BY <1>1, <1>2, <2>2, SMT DEF Tables, Entry
  <2> QED BY <2>1, <2>2, Zenon
<1> QED BY <1>2, Zenon DEF KeepsVerdicts, Tables

(* suspect, note_direct_ack and expire_suspects change the state of an     *)
(* entry and not its incarnation.                                          *)
LEMMA SetEntryStep ==
    ASSUME Tables, NEW n \in Nodes, NEW p \in Nodes, NEW s \in States,
           view[n][p] # Unknown, view[n][p].state = "Dead" => s = "Dead",
           SetEntry(n, p, s), up' = up
    PROVE  Tables' /\ KeepsVerdicts /\ \A q \in Nodes : top[q] <= top'[q]
<1> DEFINE e == [view[n] EXCEPT ![p] = [state |-> s, inc |-> @.inc]]
<1>1. view[n] \in [Nodes -> Entry \cup {Unknown}] /\ view[n][p] \in Entry /\ inc[n] \in Nat
  BY SMT DEF Tables
<1>2. e \in [Nodes -> Entry \cup {Unknown}]
  BY <1>1, Zenon DEF Entry
<1>3. [state |-> s, inc |-> view[n][p].inc] \in Entry
  BY <1>1, Zenon DEF Entry
<1>4. [state |-> s, inc |-> view[n][p].inc] # Unknown
  BY <1>3, MembershipAssumption, Zenon DEF Entry, States
<1>5. \A q \in Nodes : e[q] = IF q = p THEN [state |-> s, inc |-> view[n][p].inc] ELSE view[n][q]
  BY <1>1, Zenon
<1>6. \A q \in Nodes : e[q] # Unknown => e[q].inc <= top[q]
  BY <1>5, Zenon DEF Tables, NoForgedIncarnation
<1>7. \A q \in Nodes : view[n][q] # Unknown =>
        /\ e[q] # Unknown /\ e[q].inc >= view[n][q].inc
        /\ view[n][q].state = "Dead" /\ e[q].inc = view[n][q].inc => e[q].state = "Dead"
  BY <1>1, <1>4, <1>5, SMT DEF Entry
<1>8. SetTable(n, e, inc[n])
  BY Zenon DEF SetEntry
<1> HIDE DEF e
<1>9. Tables' /\ \A q \in Nodes : top[q] <= top'[q]
  BY <1>1, <1>2, <1>6, <1>7, <1>8, SetTableSound, Zenon
<1>10. KeepsVerdicts
  BY <1>2, <1>7, <1>8, SetTableKeeps, Zenon
<1> QED BY <1>9, <1>10, Zenon

(* No state outranks Dead (precedence).                                    *)
LEMMA DeadIsWorst == \A s \in States : ~(Precedence[s] > Precedence["Dead"])
<1>1. Precedence["Dead"] = 2
  BY DEF Precedence, States
<1>2. Precedence["Alive"] = 0 /\ Precedence["Suspect"] = 1
  BY Zenon DEF Precedence, States
<1> QED BY <1>1, <1>2, SMT DEF States

(* merge of a frame with known updates, for each member and for ourselves. *)
LEMMA MergeStep ==
    ASSUME Tables, NEW n \in Nodes, NEW updates \in SUBSET Known,
           SetTable(n, [p \in Nodes |-> MergedEntry(n, p, updates)], MergedInc(n, updates)),
           up' = up
    PROVE  Tables' /\ KeepsVerdicts /\ \A q \in Nodes : top[q] <= top'[q]
<1> DEFINE e == [p \in Nodes |-> MergedEntry(n, p, updates)]
<1>1. view[n] \in [Nodes -> Entry \cup {Unknown}] /\ inc[n] \in Nat
  BY SMT DEF Tables
<1>2. ASSUME NEW p \in Nodes
      PROVE  \/ MergedEntry(n, p, updates) = view[n][p]
             \/ \E u \in Known : /\ u.id = p /\ Accepts(view[n][p], u)
                                 /\ MergedEntry(n, p, updates) = [state |-> u.state, inc |-> u.inc]
  <2> DEFINE news == {u \in updates : u.id = p /\ p # n /\ Accepts(view[n][p], u)}
             new == CHOOSE u \in news : TRUE
  <2>1. news # {} => new \in news
    OBVIOUS
  <2>2. MergedEntry(n, p, updates) =
          IF news = {} THEN view[n][p] ELSE [state |-> new.state, inc |-> new.inc]
    BY Zenon DEF MergedEntry
  <2> QED BY <2>1, <2>2, Zenon
<1>3. ASSUME NEW u \in Known
      PROVE  /\ [state |-> u.state, inc |-> u.inc] \in Entry
             /\ [state |-> u.state, inc |-> u.inc] # Unknown
             /\ u.inc <= top[u.id] /\ u.inc \in Nat /\ u.state \in States
  <2>1. u \in Update /\ u.inc <= top[u.id]
    BY Zenon DEF Known
  <2>2. [state |-> u.state, inc |-> u.inc] \in Entry
    BY <2>1, Zenon DEF Update, Entry
  <2>3. [state |-> u.state, inc |-> u.inc] # Unknown
    BY <2>2, MembershipAssumption, Zenon DEF Entry, States
  <2> QED BY <2>1, <2>2, <2>3, Zenon DEF Update
<1>4. \A p \in Nodes : e[p] = MergedEntry(n, p, updates)
  OBVIOUS
<1>5. SetTable(n, e, MergedInc(n, updates))
  OBVIOUS
<1>6. DOMAIN e = Nodes /\ e = [p \in Nodes |-> e[p]]
  OBVIOUS
<1> HIDE DEF e
<1>13. ASSUME NEW p \in Nodes
       PROVE  \/ e[p] = view[n][p]
              \/ \E u \in Known : /\ u.id = p /\ Accepts(view[n][p], u)
                                  /\ e[p] = [state |-> u.state, inc |-> u.inc]
  BY <1>2, <1>4, SMTT(30)
<1>7. e \in [Nodes -> Entry \cup {Unknown}]
  <2>1. \A p \in Nodes : e[p] \in Entry \cup {Unknown}
    BY <1>1, <1>2, <1>3, <1>4
  <2> QED BY <1>6, <2>1, Zenon
<1>8. ASSUME NEW p \in Nodes, e[p] # Unknown
      PROVE  e[p].inc <= top[p]
  <2>1. CASE e[p] = view[n][p]
    BY <1>8, <2>1 DEF Tables, NoForgedIncarnation
  <2>2. CASE \E u \in Known : u.id = p /\ e[p] = [state |-> u.state, inc |-> u.inc]
    <3>1. PICK u \in Known : u.id = p /\ e[p] = [state |-> u.state, inc |-> u.inc]
      BY <2>2
    <3> QED BY <1>3, <3>1
  <2> QED BY <1>13, <2>1, <2>2, Zenon
<1>9. ASSUME NEW p \in Nodes, view[n][p] # Unknown
      PROVE  /\ e[p] # Unknown /\ e[p].inc >= view[n][p].inc
             /\ view[n][p].state = "Dead" /\ e[p].inc = view[n][p].inc => e[p].state = "Dead"
  <2>1. view[n][p] \in Entry
    BY <1>1, <1>9, Zenon
  <2>2. CASE e[p] = view[n][p]
    BY <1>9, <2>1, <2>2, SMT DEF Entry
  <2>3. CASE \E u \in Known : /\ u.id = p /\ Accepts(view[n][p], u)
                              /\ e[p] = [state |-> u.state, inc |-> u.inc]
    <3>1. PICK u \in Known : /\ Accepts(view[n][p], u)
                             /\ e[p] = [state |-> u.state, inc |-> u.inc]
      BY <2>3, Zenon
    <3>2. e[p].inc = u.inc /\ e[p].state = u.state
      BY <3>1
    <3>3. \/ u.inc > view[n][p].inc
          \/ u.inc = view[n][p].inc /\ Precedence[u.state] > Precedence[view[n][p].state]
      BY <1>9, <3>1, Zenon DEF Accepts
    <3>4. ~(Precedence[u.state] > Precedence["Dead"])
      BY <1>3, DeadIsWorst, Zenon
    <3> QED BY <1>3, <2>1, <3>1, <3>2, <3>3, <3>4, SMT DEF Entry
  <2> QED BY <1>13, <2>2, <2>3, Zenon
<1>10. MergedInc(n, updates) \in Nat
  <2> DEFINE bad == Refuted(n, updates)
             worst == CHOOSE u \in bad : TRUE
  <2>1. bad # {} => worst \in Known
    BY Zenon DEF Refuted
  <2>2. MergedInc(n, updates) = IF bad = {} THEN inc[n] ELSE worst.inc + 1
    BY DEF MergedInc
  <2>3. bad # {} => worst.inc \in Nat
    BY <1>3, <2>1, Zenon
  <2> HIDE DEF bad, worst
  <2> QED BY <1>1, <2>2, <2>3, SMT
<1>11. Tables' /\ \A q \in Nodes : top[q] <= top'[q]
  BY <1>5, <1>7, <1>8, <1>9, <1>10, SetTableSound, Zenon
<1>12. KeepsVerdicts
  BY <1>5, <1>7, <1>9, SetTableKeeps, Zenon
<1> QED BY <1>11, <1>12, Zenon

(* A table that does not change keeps its verdicts.                        *)
LEMMA SameView ==
    ASSUME Tables, view' = view PROVE KeepsVerdicts
<1> SUFFICES ASSUME NEW n \in Nodes, NEW p \in Nodes, view[n][p] # Unknown
             PROVE  view[n][p].inc >= view[n][p].inc
    BY Zenon DEF KeepsVerdicts, Tables
<1>1. view[n][p] \in Entry
  BY SMT DEF Tables
<1> QED BY <1>1, SMT DEF Entry

-----------------------------------------------------------------------------
(* Steps of the links.                                                     *)

(* broadcast_frame, of a frame with known updates.                         *)
LEMMA BroadcastStep ==
    ASSUME Frames, NEW n \in Nodes, NEW f \in KnownFrame, Broadcast(n, f), top' = top
    PROVE  Frames'
<1>1. PICK lost : chan' = [chan EXCEPT ![n] =
                     [m \in Nodes |-> IF m \in Peers(n) \ lost THEN Append(@[m], f) ELSE @[m]]]
  BY Zenon DEF Broadcast
<1>2. KnownFrame' = KnownFrame
  BY DEF KnownFrame, Known
<1>3. \A m \in Nodes : chan[n][m] \in Seq(KnownFrame)
                       /\ Append(chan[n][m], f) \in Seq(KnownFrame)
  BY SMT DEF Frames
<1>4. [m \in Nodes |-> IF m \in Peers(n) \ lost THEN Append(chan[n][m], f) ELSE chan[n][m]]
        \in [Nodes -> Seq(KnownFrame)]
  BY <1>3
<1> QED BY <1>1, <1>2, <1>4, Zenon DEF Frames

(* A frame is taken off one channel and an answer with known updates put   *)
(* on the way back.                                                        *)
LEMMA AnswerStep ==
    ASSUME Tables, Tables', Frames, \A q \in Nodes : top[q] <= top'[q],
           NEW m \in Nodes, NEW n \in Nodes, chan[m][n] # <<>>,
           NEW answers, NEW f, answers => f \in KnownFrame',
           chan' = [chan EXCEPT ![m][n] = Tail(@), ![n][m] = IF answers THEN Append(@, f) ELSE @]
    PROVE  Frames'
<1> DEFINE S == Seq(KnownFrame')
<1>1. \A s \in Seq(KnownFrame) : s \in S
  BY KnownGrows, Zenon DEF Tables
<1>2. \A s \in S : (s # <<>> => Tail(s) \in S) /\ (answers => Append(s, f) \in S)
  BY SMT
<1>3. chan \in [Nodes -> [Nodes -> S]]
  BY <1>1, Zenon DEF Frames
<1>4. chan[m][n] \in S /\ Tail(chan[m][n]) \in S
  BY <1>2, <1>3, Zenon
<1> DEFINE back == IF answers THEN Append(chan[n][m], f) ELSE chan[n][m]
           rest == Tail(chan[m][n])
<1>5. back \in S /\ rest \in S
  BY <1>2, <1>3, <1>4, Zenon
<1>6. chan' = [chan EXCEPT ![m][n] = rest, ![n][m] = back]
  OBVIOUS
<1> HIDE DEF S, back, rest
<1>7. chan' \in [Nodes -> [Nodes -> S]]
  <2> DEFINE c1 == [chan EXCEPT ![m][n] = rest]
  <2>1. c1 \in [Nodes -> [Nodes -> S]]
    BY <1>3, <1>5, Zenon
  <2>2. chan' = [c1 EXCEPT ![n][m] = back]
    BY <1>6, Zenon
  <2> HIDE DEF c1
  <2>3. [c1 EXCEPT ![n][m] = back] \in [Nodes -> [Nodes -> S]]
    BY <1>5, <2>1, Zenon
  <2> QED BY <2>2, <2>3, Zenon
<1> QED BY <1>7, Zenon DEF Frames, S

(* on_link_closed, at any set of links.                                    *)
LEMMA SeverStep ==
    ASSUME MembershipIInv, NEW pairs, NEW running, Sever(pairs, running), up' \subseteq Nodes
    PROVE  MembershipIInv' /\ KeepsVerdicts
<1> DEFINE hit(n, p) == n \in running /\ {n, p} \in pairs /\ Is(n, p, "Alive")
<1>1. /\ chan' = [n \in Nodes |-> [m \in Nodes |->
                   IF {n, m} \in pairs THEN <<>> ELSE chan[n][m]]]
      /\ view' = [n \in Nodes |-> [p \in Nodes |->
                   IF hit(n, p) THEN [view[n][p] EXCEPT !.state = "Suspect"] ELSE view[n][p]]]
      /\ gossip' = [n \in Nodes |-> [p \in Nodes |->
                     IF hit(n, p) THEN Retransmit ELSE gossip[n][p]]]
      /\ inc' = inc /\ top' = top
  BY DEF Sever
<1>2. KnownFrame' = KnownFrame
  BY <1>1, Zenon DEF KnownFrame, Known
<1>3. Frames'
  BY <1>1, <1>2, SMT DEF MembershipIInv, Frames
<1>4. \A n, p \in Nodes : hit(n, p) =>
        view[n][p] \in Entry /\ view[n][p] # Unknown /\ view[n][p].state = "Alive"
  BY SMT DEF Is, MembershipIInv, Tables
<1>5. \A n, p \in Nodes : view'[n][p] = IF hit(n, p) THEN [view[n][p] EXCEPT !.state = "Suspect"]
                                                     ELSE view[n][p]
  BY <1>1, Zenon
<1>6. \A n, p \in Nodes : gossip'[n][p] = IF hit(n, p) THEN Retransmit ELSE gossip[n][p]
  BY <1>1, Zenon
<1> HIDE DEF hit
<1>7. ASSUME NEW n \in Nodes, NEW p \in Nodes
      PROVE  /\ view'[n][p] \in Entry \cup {Unknown}
             /\ view[n][p] # Unknown =>
                  /\ view'[n][p] # Unknown /\ view'[n][p].inc = view[n][p].inc
                  /\ view[n][p].inc \in Nat
                  /\ view[n][p].state = "Dead" => view'[n][p].state = "Dead"
             /\ view[n][p] = Unknown => view'[n][p] = Unknown
  <2>1. CASE hit(n, p)
    <3> DEFINE e == view[n][p]
    <3>a. e \in Entry /\ view'[n][p] = [e EXCEPT !.state = "Suspect"]
      BY <1>4, <1>5, <2>1, Zenon
    <3> HIDE DEF e
    <3>b. /\ [e EXCEPT !.state = "Suspect"] \in Entry
          /\ [e EXCEPT !.state = "Suspect"].inc = e.inc /\ e.inc \in Nat
      BY <3>a, Zenon DEF Entry, States
    <3>1. /\ view'[n][p] \in Entry /\ view'[n][p].inc = view[n][p].inc
          /\ view[n][p].inc \in Nat
      BY <3>a, <3>b, Zenon DEF e
    <3>2. view'[n][p] # Unknown
      BY <3>1, MembershipAssumption, Zenon DEF Entry, States
    <3> QED BY <1>4, <2>1, <3>1, <3>2, Zenon
  <2>2. CASE ~hit(n, p)
    <3>1. view'[n][p] = view[n][p]
      BY <1>5, <2>2, Zenon
    <3>2. view[n][p] \in Entry \cup {Unknown}
      BY SMT DEF MembershipIInv, Tables
    <3>3. view[n][p] # Unknown => view[n][p].inc \in Nat
      BY <3>2, Zenon DEF Entry
    <3> QED BY <3>1, <3>2, <3>3, Zenon
  <2> QED BY <2>1, <2>2, Zenon
<1>8. view' \in [Nodes -> [Nodes -> Entry \cup {Unknown}]]
  <2>1. view' = [n \in Nodes |-> [p \in Nodes |-> view'[n][p]]]
    BY <1>1, Zenon
  <2> QED BY <1>7, <2>1, Zenon
<1>9. gossip' \in [Nodes -> [Nodes -> Nat]]
  BY <1>1, MembershipAssumption, Zenon DEF MembershipIInv, Tables
<1>10. \A n, p \in Nodes : gossip'[n][p] > 0 => p \in Listed(n)'
  BY <1>4, <1>6, <1>7, ZenonT(40) DEF MembershipIInv, Tables, Listed
<1>11. NoForgedIncarnation'
  BY <1>1, <1>7, Zenon DEF MembershipIInv, Tables, NoForgedIncarnation
<1>12. Tables'
  BY <1>1, <1>8, <1>9, <1>10, <1>11, Zenon DEF MembershipIInv, Tables
<1>13. KeepsVerdicts
  BY <1>7, SMT DEF KeepsVerdicts, MembershipIInv, Tables
<1> QED BY <1>3, <1>12, <1>13, Zenon DEF MembershipIInv

-----------------------------------------------------------------------------
(* The steps of module Membership.                                         *)

(* A step that leaves the tables alone.                                    *)
LEMMA TablesUntouched ==
    ASSUME Tables, UNCHANGED <<up, inc, view, gossip, top>>
    PROVE  Tables' /\ KeepsVerdicts /\ \A q \in Nodes : top[q] <= top'[q]
<1>1. Tables'
  BY Zenon DEF Tables, NoForgedIncarnation, Listed
<1>2. \A q \in Nodes : top[q] <= top'[q]
  BY SMT DEF Tables
<1> QED BY <1>1, <1>2, SameView, Zenon

(* A table changes and the links do not.                                   *)
LEMMA TableStep ==
    ASSUME MembershipIInv, Tables', \A q \in Nodes : top[q] <= top'[q], chan' = chan
    PROVE  MembershipIInv'
<1>1. \A s \in Seq(KnownFrame) : s \in Seq(KnownFrame')
  BY KnownGrows, Zenon DEF MembershipIInv, Tables
<1> QED BY <1>1, Zenon DEF MembershipIInv, Frames

(* gossip_loop.                                                            *)
LEMMA GossipTickStep ==
    ASSUME MembershipIInv, NEW n \in Nodes, GossipTick(n)
    PROVE  MembershipIInv' /\ KeepsVerdicts
<1>1. PICK told \in SUBSET {p \in Nodes : gossip[n][p] > 0} :
        /\ Broadcast(n, Gossip({Fact(n, p) : p \in told \cup {n}}))
        /\ gossip' = [gossip EXCEPT ![n] =
                        [p \in Nodes |-> IF p \in told THEN @[p] - 1 ELSE @[p]]]
  BY Zenon DEF GossipTick
<1>2. up' = up /\ inc' = inc /\ view' = view /\ top' = top
  BY Zenon DEF GossipTick
<1>3. Gossip({Fact(n, p) : p \in told \cup {n}}) \in KnownFrame
  <2>1. told \cup {n} \subseteq Listed(n)
    BY SMT DEF MembershipIInv, Tables, Listed
  <2>2. {Fact(n, p) : p \in told \cup {n}} \subseteq Known
    BY <2>1, FactsAreKnown, Zenon DEF MembershipIInv, FullState, FactsKnown
  <2> QED BY <2>2, Zenon DEF Gossip, KnownFrame
<1>4. Frames'
  BY <1>1, <1>2, <1>3, BroadcastStep, Zenon DEF MembershipIInv
<1>5. /\ gossip' \in [Nodes -> [Nodes -> Nat]]
      /\ \A m, p \in Nodes : gossip'[m][p] > 0 => gossip[m][p] > 0
  BY <1>1, SMT DEF MembershipIInv, Tables
<1>6. Tables'
  BY <1>2, <1>5, Zenon DEF MembershipIInv, Tables, NoForgedIncarnation, Listed
<1> QED BY <1>2, <1>4, <1>6, SameView, Zenon DEF MembershipIInv

(* digest_loop.                                                            *)
LEMMA DigestTickStep ==
    ASSUME MembershipIInv, NEW n \in Nodes, DigestTick(n)
    PROVE  MembershipIInv' /\ KeepsVerdicts
<1>1. Broadcast(n, Digest(DigestOf(n))) /\ UNCHANGED <<up, inc, view, gossip, top>>
  BY Zenon DEF DigestTick, tableVars
<1>2. Digest(DigestOf(n)) \in KnownFrame
  BY FactsAreKnown, Zenon DEF FactsKnown, MembershipIInv, Digest, KnownFrame
<1>3. Frames'
  BY <1>1, <1>2, BroadcastStep, Zenon DEF MembershipIInv
<1> QED BY <1>1, <1>3, TablesUntouched, Zenon DEF MembershipIInv

(* A frame on its way has known updates.                                   *)
LEMMA HeadIsKnown ==
    ASSUME Frames, NEW m \in Nodes, NEW n \in Nodes, chan[m][n] # <<>>
    PROVE  Head(chan[m][n]) \in KnownFrame
BY SMT DEF Frames

(* apply, Gossip.                                                          *)
LEMMA DeliverGossipStep ==
    ASSUME MembershipIInv, NEW m \in Nodes, NEW n \in Nodes, DeliverGossip(m, n)
    PROVE  MembershipIInv' /\ KeepsVerdicts
<1> DEFINE f == Head(chan[m][n])
<1>1. /\ chan[m][n] # <<>> /\ f.kind = "gossip" /\ up' = up
      /\ SetTable(n, [p \in Nodes |-> MergedEntry(n, p, f.updates)], MergedInc(n, f.updates))
      /\ chan' = [chan EXCEPT ![m][n] = Tail(@)]
  BY Zenon DEF DeliverGossip
<1>2. f \in KnownFrame
  BY <1>1, HeadIsKnown, Zenon DEF MembershipIInv
<1>3. f.updates \in SUBSET Known
  BY <1>1, <1>2, Zenon DEF KnownFrame
<1> HIDE DEF f
<1>4. Tables' /\ KeepsVerdicts /\ \A q \in Nodes : top[q] <= top'[q]
  BY <1>1, <1>3, MergeStep, Zenon DEF MembershipIInv
<1>5. Frames'
  <2>1. \A s \in Seq(KnownFrame) : s \in Seq(KnownFrame')
    BY <1>4, KnownGrows, Zenon DEF MembershipIInv, Tables
  <2>2. Tail(chan[m][n]) \in Seq(KnownFrame)
    BY <1>1, SMT DEF MembershipIInv, Frames
  <2>3. chan' \in [Nodes -> [Nodes -> Seq(KnownFrame)]]
    BY <1>1, <2>2, Zenon DEF MembershipIInv, Frames
  <2> QED BY <2>1, <2>3, Zenon DEF Frames
<1> QED BY <1>4, <1>5, Zenon DEF MembershipIInv

(* apply, Sync: the answer is taken from the merged table.                 *)
LEMMA DeliverSyncStep ==
    ASSUME MembershipIInv, NEW m \in Nodes, NEW n \in Nodes, DeliverSync(m, n)
    PROVE  MembershipIInv' /\ KeepsVerdicts
<1> DEFINE f == Head(chan[m][n])
           answer == Sync(FALSE, FullState(n)')
<1>1. /\ chan[m][n] # <<>> /\ f.kind = "sync" /\ up' = up
      /\ SetTable(n, [p \in Nodes |-> MergedEntry(n, p, f.updates)], MergedInc(n, f.updates))
      /\ chan' = [chan EXCEPT ![m][n] = Tail(@), ![n][m] = IF f.reply THEN Append(@, answer) ELSE @]
  BY Zenon DEF DeliverSync
<1>2. f \in KnownFrame
  BY <1>1, HeadIsKnown, Zenon DEF MembershipIInv
<1>3. f.updates \in SUBSET Known
  BY <1>1, <1>2, Zenon DEF KnownFrame
<1> HIDE DEF f
<1>4. Tables' /\ KeepsVerdicts /\ \A q \in Nodes : top[q] <= top'[q]
  BY <1>1, <1>3, MergeStep, Zenon DEF MembershipIInv
<1>5. FullState(n)' \subseteq Known'
  <2>1. Tables' => FactsKnown'
    BY FactsAreKnown, PTL
  <2> QED BY <1>4, <2>1, Zenon DEF FactsKnown
<1>6. answer \in KnownFrame'
  BY <1>5, Zenon DEF Sync, KnownFrame
<1> HIDE DEF answer
<1>7. Frames'
  BY <1>1, <1>4, <1>6, AnswerStep, Zenon DEF MembershipIInv
<1> QED BY <1>4, <1>7, Zenon DEF MembershipIInv

(* apply, Digest.                                                          *)
LEMMA DeliverDigestStep ==
    ASSUME MembershipIInv, NEW m \in Nodes, NEW n \in Nodes, DeliverDigest(m, n)
    PROVE  MembershipIInv' /\ KeepsVerdicts
<1> DEFINE newer == {u \in FullState(n) : u.inc > Head(chan[m][n]).incs[u.id]}
           answers == newer # {}
           answer == Gossip(newer)
<1>1. /\ chan[m][n] # <<>> /\ UNCHANGED <<up, inc, view, gossip, top>>
      /\ chan' = [chan EXCEPT ![m][n] = Tail(@), ![n][m] = IF answers THEN Append(@, answer) ELSE @]
  BY Zenon DEF DeliverDigest, tableVars
<1>2. Tables' /\ KeepsVerdicts /\ \A q \in Nodes : top[q] <= top'[q]
  BY <1>1, TablesUntouched, Zenon DEF MembershipIInv
<1>3. newer \subseteq Known
  BY FactsAreKnown, Zenon DEF FactsKnown, MembershipIInv
<1>4. answer \in KnownFrame'
  BY <1>1, <1>3, Zenon DEF Gossip, KnownFrame, Known
<1> HIDE DEF answer, answers
<1>5. Frames'
  BY <1>1, <1>2, <1>4, AnswerStep, Zenon DEF MembershipIInv
<1> QED BY <1>2, <1>5, Zenon DEF MembershipIInv

(* A link comes up: each end pushes its full state (register).             *)
LEMMA LinkUpStep ==
    ASSUME MembershipIInv, NEW n \in Nodes, NEW m \in Nodes, LinkUp(n, m)
    PROVE  MembershipIInv' /\ KeepsVerdicts
<1> DEFINE sa == Sync(TRUE, FullState(n))
           sb == Sync(TRUE, FullState(m))
           a == <<sa>>
           b == <<sb>>
           S == Seq(KnownFrame)
<1>1. /\ UNCHANGED <<up, inc, view, gossip, top>>
      /\ chan' = [chan EXCEPT ![n][m] = a, ![m][n] = b]
  BY Zenon DEF LinkUp, tableVars
<1>2. sa \in KnownFrame /\ sb \in KnownFrame
  BY FactsAreKnown, Zenon DEF FactsKnown, MembershipIInv, Sync, KnownFrame
<1> HIDE DEF sa, sb
<1>3. a \in S /\ b \in S
  BY <1>2, SMT
<1>4. KnownFrame' = KnownFrame
  BY <1>1, Zenon DEF KnownFrame, Known
<1>5. chan \in [Nodes -> [Nodes -> S]]
  BY Zenon DEF MembershipIInv, Frames
<1> HIDE DEF a, b, S
<1>6. chan' \in [Nodes -> [Nodes -> S]]
  <2> DEFINE c1 == [chan EXCEPT ![n][m] = a]
  <2>1. c1 \in [Nodes -> [Nodes -> S]]
    BY <1>3, <1>5, Zenon
  <2>2. chan' = [c1 EXCEPT ![m][n] = b]
    BY <1>1, Zenon
  <2> HIDE DEF c1
  <2>3. [c1 EXCEPT ![m][n] = b] \in [Nodes -> [Nodes -> S]]
    BY <1>3, <2>1, Zenon
  <2> QED BY <2>2, <2>3, Zenon
<1>7. Frames'
  BY <1>4, <1>6, Zenon DEF Frames, S
<1> QED BY <1>1, <1>7, TablesUntouched, Zenon DEF MembershipIInv

(* The process starts again with an empty table.                           *)
LEMMA RestartStep ==
    ASSUME MembershipIInv, NEW n \in Nodes, Restart(n)
    PROVE  MembershipIInv' /\ KeepsVerdicts
<1>1. /\ n \notin up /\ up' = up \cup {n}
      /\ inc' = [inc EXCEPT ![n] = 1]
      /\ view' = [view EXCEPT ![n] = [p \in Nodes |-> Unknown]]
      /\ gossip' = [gossip EXCEPT ![n] = [p \in Nodes |-> 0]]
      /\ chan' = chan /\ top' = top
  BY Zenon DEF Restart
<1>2. /\ inc' \in [Nodes -> Nat] /\ gossip' \in [Nodes -> [Nodes -> Nat]]
      /\ view' \in [Nodes -> [Nodes -> Entry \cup {Unknown}]]
      /\ \A m \in Nodes : inc'[m] <= top'[m]
  BY <1>1, Zenon DEF MembershipIInv, Tables
<1>3. \A m, p \in Nodes : /\ view'[m][p] = IF m = n THEN Unknown ELSE view[m][p]
                          /\ gossip'[m][p] = IF m = n THEN 0 ELSE gossip[m][p]
  BY <1>1, Zenon DEF MembershipIInv, Tables
<1>4. NoForgedIncarnation'
  BY <1>1, <1>3, Zenon DEF MembershipIInv, Tables, NoForgedIncarnation
<1>5. \A m, p \in Nodes : gossip'[m][p] > 0 => p \in Listed(m)'
  BY <1>3, SMT DEF MembershipIInv, Tables, Listed
<1>6. Tables'
  BY <1>1, <1>2, <1>4, <1>5, Zenon DEF MembershipIInv, Tables
<1>7. Frames'
  BY <1>1, Zenon DEF MembershipIInv, Frames, KnownFrame, Known
<1>8. ASSUME NEW m \in up \cap up', NEW p \in Nodes, view[m][p] # Unknown
      PROVE  view'[m][p] = view[m][p] /\ view[m][p].inc \in Nat
  BY <1>1, <1>3, <1>8, SMT DEF MembershipIInv, Tables, Entry
<1>9. KeepsVerdicts
  BY <1>8, SMT DEF KeepsVerdicts
<1> QED BY <1>6, <1>7, <1>9, Zenon DEF MembershipIInv

(* suspect, note_direct_ack and expire_suspects.                           *)
LEMMA VerdictStep ==
    ASSUME MembershipIInv, NEW n \in Nodes, NEW p \in Nodes,
           ProbeFails(n, p) \/ DirectAck(n, p) \/ Expire(n, p)
    PROVE  MembershipIInv' /\ KeepsVerdicts
<1>1. PICK s \in States :
        /\ view[n][p] # Unknown /\ (view[n][p].state = "Dead" => s = "Dead")
        /\ SetEntry(n, p, s) /\ up' = up /\ chan' = chan
  BY DEF ProbeFails, DirectAck, Expire, Is, States
<1>2. Tables' /\ KeepsVerdicts /\ \A q \in Nodes : top[q] <= top'[q]
  BY <1>1, SetEntryStep, Zenon DEF MembershipIInv
<1> QED BY <1>1, <1>2, TableStep, Zenon

(* Every step keeps the invariant and the verdicts of the nodes that run   *)
(* before and after it.                                                    *)
LEMMA NextInv ==
    ASSUME MembershipIInv, [MembershipNext]_membershipVars
    PROVE  MembershipIInv' /\ [KeepsVerdicts]_membershipVars
<1>1. CASE UNCHANGED membershipVars
  <2>1. UNCHANGED <<up, inc, view, gossip, top>> /\ chan' = chan
    BY <1>1, Zenon DEF membershipVars, tableVars
  <2>2. Tables' /\ \A q \in Nodes : top[q] <= top'[q]
    BY <2>1, TablesUntouched, Zenon DEF MembershipIInv
  <2> QED BY <1>1, <2>1, <2>2, TableStep, Zenon
<1>2. ASSUME NEW n \in Nodes, GossipTick(n) PROVE MembershipIInv' /\ KeepsVerdicts
  BY <1>2, GossipTickStep, Zenon
<1>3. ASSUME NEW n \in Nodes, DigestTick(n) PROVE MembershipIInv' /\ KeepsVerdicts
  BY <1>3, DigestTickStep, Zenon
<1>4. ASSUME NEW n \in Nodes, Crash(n) PROVE MembershipIInv' /\ KeepsVerdicts
  <2>1. Sever({p \in links : n \in p}, up \ {n}) /\ up' \subseteq Nodes
    BY <1>4, Zenon DEF Crash, MembershipIInv, Tables
  <2> QED BY <2>1, SeverStep, Zenon
<1>5. ASSUME NEW n \in Nodes, Restart(n) PROVE MembershipIInv' /\ KeepsVerdicts
  BY <1>5, RestartStep
<1>6. ASSUME NEW m \in Nodes, NEW n \in Nodes, Deliver(m, n) PROVE MembershipIInv' /\ KeepsVerdicts
  BY <1>6, DeliverSyncStep, DeliverGossipStep, DeliverDigestStep, Zenon DEF Deliver
<1>7. ASSUME NEW m \in Nodes, NEW n \in Nodes, LinkUp(m, n) PROVE MembershipIInv' /\ KeepsVerdicts
  BY <1>7, LinkUpStep, Zenon
<1>8. ASSUME NEW m \in Nodes, NEW n \in Nodes, LinkDown(m, n) PROVE MembershipIInv' /\ KeepsVerdicts
  <2>1. Sever({{m, n}}, up) /\ up' \subseteq Nodes
    BY <1>8, Zenon DEF LinkDown, MembershipIInv, Tables
  <2> QED BY <2>1, SeverStep, Zenon
<1>9. ASSUME NEW m \in Nodes, NEW n \in Nodes,
             ProbeFails(m, n) \/ DirectAck(m, n) \/ Expire(m, n)
      PROVE  MembershipIInv' /\ KeepsVerdicts
  BY <1>9, VerdictStep, Zenon
<1> QED BY <1>1, <1>2, <1>3, <1>4, <1>5, <1>6, <1>7, <1>8, <1>9, Zenon DEF MembershipNext

-----------------------------------------------------------------------------
(* The tables are sound in every reachable state: the inductive invariant  *)
(* of the two theorems below.                                              *)
THEOREM MembershipInvariance == MembershipSpec => []MembershipIInv
<1>1. MembershipIInv /\ [MembershipNext]_membershipVars => MembershipIInv'
    BY NextInv, Zenon
<1>. QED
    BY <1>1, InitInv, PTL DEF MembershipSpec

(* Only a node raises its own incarnation, however syncs, gossip, digest   *)
(* repairs, crashes and restarts interleave (merge, build_digest).         *)
THEOREM NoIncarnationForged == MembershipSpec => []NoForgedIncarnation
<1>1. MembershipIInv => NoForgedIncarnation
  BY DEF MembershipIInv, Tables
<1> QED BY <1>1, MembershipInvariance, PTL

(* A claim of death loses only to a newer incarnation, and no entry goes   *)
(* back to an older one (merge, note_direct_ack, expire_suspects).         *)
THEOREM DeadStayDead == MembershipSpec => DeathNeedsRefutation
<1>1. MembershipIInv /\ [MembershipNext]_membershipVars => [KeepsVerdicts]_membershipVars
    BY NextInv, Zenon
<1>. QED
    BY <1>1, MembershipInvariance, PTL DEF MembershipSpec, DeathNeedsRefutation

-----------------------------------------------------------------------------
(* Connection: one connection and its two loops.                         *)

WireFrames == CtlFrames \cup DataFrames \cup {CloseFrame("none")}

\* read_loop has returned.
EndedPcs == {"ended", "join", "closed", "removed"}

\* write_loop has left its select! for good.
LeavingPcs == {"shutdown", "flushClose", "exited"}

\* A frame that is anywhere has been pushed.
PushedFacts ==
    \A n \in 1..MaxSends : OnWire(n) \/ InHand(n) \/ InMail(n) => n <= sends

\* The latch keeps its first command; a caller past it finds it set.
LatchFacts ==
    /\ IF latch = NoCmd THEN first = "none" ELSE first = latch.code
    /\ \A c \in Callers : cpc[c] # "idle" => ccmd[c] \in Cmd
    /\ \A c \in Callers : cpc[c] = "nudge" => latch # NoCmd

\* read_loop acts on a command only when there is one, and returns once.
ReadFacts ==
    /\ initiated => latch # NoCmd
    /\ rpc \in EndedPcs <=> result # "none"

\* The writer is spawned when Opened is emitted.
SpawnFacts == rpc = "start" => wpc = "unspawned"

\* Someone has closed: a caller at the latch, or the peer.
Closing == latch # NoCmd \/ peerClose = "read"

\* A close frame in the writer's path means someone has closed.
CtlFacts == \A i \in DOMAIN ctl : ctl[i][1] = "close" => Closing

HandFacts ==
    /\ wpc \in {"start", "flush"} /\ inHand[1] = "close" => Closing
    /\ closeSent => Closing

\* Unless someone has closed or the socket failed, the writer leaves only a
\* drained and closed mailbox, and the codec closes only after it.
LeaveFacts ==
    /\ codec => Closing \/ wpc \in LeavingPcs
    /\ wpc \in LeavingPcs => Closing \/ sock = "reset" \/ (mail = <<>> /\ mclosed)

\* The inductive invariant.
IInv ==
    /\ TypeOK /\ PushedFacts /\ LatchFacts /\ ReadFacts
    /\ SpawnFacts /\ CtlFacts /\ HandFacts /\ LeaveFacts
    /\ NothingLost /\ ReportsFirstCloser

-----------------------------------------------------------------------------
(* Frames and sequences of them.                                           *)

\* A frame's first field says what it is, and data frames differ by number.
LEMMA FrameKinds ==
    /\ \A n : Data(n)[1] = "data" /\ Data(n)[2] = n
    /\ \A code : CloseFrame(code)[1] = "close"
    /\ PingFrame[1] = "ping"
    /\ NoFrame[1] = "none"
<1>1. \A n : Data(n)[1] = "data" /\ Data(n)[2] = n
    BY DEF Data
<1>2. \A code : CloseFrame(code)[1] = "close"
    BY DEF CloseFrame
<1>3. PingFrame[1] = "ping" /\ NoFrame[1] = "none"
    BY DEF PingFrame, NoFrame
<1>. QED
    BY <1>1, <1>2, <1>3, Zenon

\* The frames of the control queue are pings and closes, the others data.
LEMMA FrameSets ==
    /\ PingFrame \in CtlFrames
    /\ \A code \in CallerCodes \cup {"peer"} : CloseFrame(code) \in CtlFrames
    /\ \A n \in 1..MaxSends : Data(n) \in DataFrames
    /\ \A f \in CtlFrames : f[1] \in {"ping", "close"} /\ f # NoFrame
    /\ \A f \in DataFrames : IsData(f) /\ f[2] \in 1..MaxSends /\ f = Data(f[2]) /\ f # NoFrame
    /\ \A f \in WireFrames : IsData(f) => f \in DataFrames
<1>1. /\ PingFrame \in CtlFrames
      /\ \A code \in CallerCodes \cup {"peer"} : CloseFrame(code) \in CtlFrames
      /\ \A n \in 1..MaxSends : Data(n) \in DataFrames
    BY Zenon DEF CtlFrames, DataFrames
<1>2. \A f \in CtlFrames : f[1] \in {"ping", "close"} /\ f # NoFrame
    BY FrameKinds DEF CtlFrames
<1>3. \A f \in DataFrames : IsData(f) /\ f[2] \in 1..MaxSends /\ f = Data(f[2]) /\ f # NoFrame
    BY FrameKinds DEF DataFrames, IsData
<1>4. \A f \in WireFrames : IsData(f) => f \in DataFrames
    BY <1>2, FrameKinds DEF WireFrames, IsData
<1>. QED
    BY <1>1, <1>2, <1>3, <1>4, Zenon

\* What Append does, by position.
LEMMA AppendFacts ==
    ASSUME NEW S, NEW s \in Seq(S), NEW x \in S
    PROVE  /\ Append(s, x) \in Seq(S)
           /\ Len(s) \in Nat
           /\ Len(Append(s, x)) = Len(s) + 1
           /\ DOMAIN s = 1..Len(s)
           /\ DOMAIN Append(s, x) = 1..(Len(s) + 1)
           /\ \A i \in 1..Len(s) : Append(s, x)[i] = s[i]
           /\ Append(s, x)[Len(s) + 1] = x
    OBVIOUS

\* What Head and Tail do, by position.
LEMMA TailFacts ==
    ASSUME NEW S, NEW s \in Seq(S), s # <<>>
    PROVE  /\ Tail(s) \in Seq(S)
           /\ Head(s) \in S /\ Head(s) = s[1]
           /\ Len(s) \in Nat \ {0}
           /\ Len(Tail(s)) = Len(s) - 1
           /\ DOMAIN s = 1..Len(s)
           /\ DOMAIN Tail(s) = 1..(Len(s) - 1)
           /\ \A i \in 1..(Len(s) - 1) : Tail(s)[i] = s[i + 1]
    OBVIOUS

\* Every element of a sequence over S is in S.
LEMMA ElementsIn ==
    ASSUME NEW S, NEW s \in Seq(S)
    PROVE  \A i \in DOMAIN s : s[i] \in S
    OBVIOUS

\* A frame the codec takes goes to the end of the wire.
LEMMA WireAppend ==
    ASSUME wire \in Seq(WireFrames), NEW x \in WireFrames, wire' = Append(wire, x)
    PROVE  /\ wire' \in Seq(WireFrames)
           /\ \A n : OnWire(n)' <=> OnWire(n) \/ x = Data(n)
<1>1. DOMAIN wire = 1..Len(wire) /\ Len(wire) \in Nat
    BY AppendFacts
<1>2. /\ wire' \in Seq(WireFrames)
      /\ DOMAIN wire' = 1..(Len(wire) + 1)
      /\ \A i \in 1..Len(wire) : wire'[i] = wire[i]
      /\ wire'[Len(wire) + 1] = x
    BY AppendFacts
<1>3. 1..(Len(wire) + 1) = 1..Len(wire) \cup {Len(wire) + 1}
    BY <1>1
<1>4. \A n : OnWire(n)' <=> OnWire(n) \/ x = Data(n)
    BY <1>1, <1>2, <1>3, Zenon DEF OnWire
<1>. QED
    BY <1>2, <1>4

\* The wire stays in order if the frame is newer than the data on it.
LEMMA WireOrderStep ==
    ASSUME wire \in Seq(WireFrames), NEW x \in WireFrames, wire' = Append(wire, x),
           WireInOrder,
           \A m, n \in 1..MaxSends : OnWire(m) /\ x = Data(n) => m < n
    PROVE  WireInOrder'
<1>1. DOMAIN wire = 1..Len(wire) /\ Len(wire) \in Nat
    BY AppendFacts
<1>2. /\ DOMAIN wire' = 1..(Len(wire) + 1)
      /\ \A i \in 1..Len(wire) : wire'[i] = wire[i]
      /\ wire'[Len(wire) + 1] = x
    BY AppendFacts
<1>3. SUFFICES ASSUME NEW i \in DOMAIN wire', NEW j \in DOMAIN wire', i < j,
                      IsData(wire'[i]), IsData(wire'[j])
               PROVE  wire'[i][2] < wire'[j][2]
    BY Zenon DEF WireInOrder
<1>4. i \in DOMAIN wire /\ wire'[i] = wire[i]
    BY <1>1, <1>2, <1>3
<1>5. CASE j \in DOMAIN wire
    BY <1>1, <1>2, <1>3, <1>4, <1>5 DEF WireInOrder
<1>6. CASE j = Len(wire) + 1
  <2>1. wire[i] \in WireFrames
      BY <1>4
  <2>2. wire[i] = Data(wire[i][2]) /\ wire[i][2] \in 1..MaxSends
      BY <2>1, <1>3, <1>4, FrameSets, Zenon
  <2>3. x = Data(x[2]) /\ x[2] \in 1..MaxSends
      BY <1>2, <1>3, <1>6, FrameSets, Zenon
  <2>4. OnWire(wire[i][2])
      BY <1>4, <2>2, Zenon DEF OnWire
  <2>. QED
      BY <1>2, <1>4, <1>6, <2>2, <2>3, <2>4, Zenon
<1>. QED
    BY <1>1, <1>2, <1>3, <1>5, <1>6

\* The same of a sequence of frame numbers.
Holds(s, n) == \E i \in DOMAIN s : s[i] = n
Ascending(s) == \A i, j \in DOMAIN s : i < j => s[i] < s[j]

\* A number newer than all others may join an ascending sequence.
LEMMA PushNewest ==
    ASSUME NEW s \in Seq(1..MaxSends), NEW k \in 1..MaxSends
    PROVE  /\ Append(s, k) \in Seq(1..MaxSends)
           /\ \A n : Holds(Append(s, k), n) <=> Holds(s, n) \/ n = k
           /\ Ascending(s) /\ (\A n : Holds(s, n) => n < k) => Ascending(Append(s, k))
<1>. DEFINE t == Append(s, k)
<1>1. /\ t \in Seq(1..MaxSends)
      /\ DOMAIN s = 1..Len(s) /\ Len(s) \in Nat
      /\ DOMAIN t = 1..(Len(s) + 1)
      /\ \A i \in 1..Len(s) : t[i] = s[i]
      /\ t[Len(s) + 1] = k
    BY AppendFacts
<1>2. 1..(Len(s) + 1) = 1..Len(s) \cup {Len(s) + 1}
    BY <1>1
<1>. HIDE DEF t
<1>3. \A n : Holds(t, n) <=> Holds(s, n) \/ n = k
    BY <1>1, <1>2, Zenon DEF Holds
<1>4. ASSUME Ascending(s), \A n : Holds(s, n) => n < k
      PROVE  Ascending(t)
  <2>1. \A i \in DOMAIN s : s[i] < k
      BY <1>4, Zenon DEF Holds
  <2>. QED
      BY <1>1, <1>4, <2>1 DEF Ascending
<1>. QED
    BY <1>1, <1>3, <1>4, Zenon DEF t

\* The head of an ascending sequence is the oldest and is in it once.
LEMMA PopOldest ==
    ASSUME NEW s \in Seq(1..MaxSends), s # <<>>
    PROVE  /\ Tail(s) \in Seq(1..MaxSends) /\ Head(s) \in 1..MaxSends
           /\ \A n : Holds(s, n) <=> Holds(Tail(s), n) \/ n = Head(s)
           /\ Ascending(s) => Ascending(Tail(s)) /\ \A n : Holds(Tail(s), n) => Head(s) < n
<1>. DEFINE t == Tail(s)
<1>1. /\ t \in Seq(1..MaxSends)
      /\ Head(s) \in 1..MaxSends /\ Head(s) = s[1]
      /\ DOMAIN s = 1..Len(s) /\ Len(s) \in Nat \ {0}
      /\ DOMAIN t = 1..(Len(s) - 1)
      /\ \A i \in 1..(Len(s) - 1) : t[i] = s[i + 1]
    BY TailFacts, Zenon
<1>. HIDE DEF t
<1>2. /\ \A i \in DOMAIN t : i + 1 \in DOMAIN s /\ 1 < i + 1 /\ t[i] = s[i + 1]
      /\ 1 \in DOMAIN s
    BY <1>1
<1>3. ASSUME NEW i \in DOMAIN s
      PROVE  i = 1 \/ (i - 1 \in DOMAIN t /\ t[i - 1] = s[i])
  <2>1. CASE i # 1
    <3>1. i - 1 \in 1..(Len(s) - 1) /\ (i - 1) + 1 = i
        BY <1>1, <1>3, <2>1
    <3>. QED
        BY <1>1, <3>1, Zenon
  <2>. QED
      BY <2>1
<1>4. \A n : Holds(s, n) <=> Holds(t, n) \/ n = Head(s)
  <2>1. ASSUME NEW n, Holds(t, n) PROVE Holds(s, n)
      BY <2>1, <1>2, Zenon DEF Holds
  <2>2. Holds(s, Head(s))
      BY <1>1, <1>2, Zenon DEF Holds
  <2>3. ASSUME NEW n, Holds(s, n) PROVE Holds(t, n) \/ n = Head(s)
      BY <2>3, <1>1, <1>3, Zenon DEF Holds
  <2>. QED
      BY <2>1, <2>2, <2>3, Zenon
<1>5. ASSUME Ascending(s)
      PROVE  Ascending(t) /\ \A n : Holds(t, n) => Head(s) < n
  <2>1. ASSUME NEW i \in DOMAIN t, NEW j \in DOMAIN t, i < j
        PROVE  t[i] < t[j]
    <3>1. i + 1 < j + 1
        BY <1>1, <2>1
    <3>. QED
        BY <1>2, <1>5, <2>1, <3>1, Zenon DEF Ascending
  <2>2. \A i \in DOMAIN t : Head(s) < t[i]
      BY <1>1, <1>2, <1>5, Zenon DEF Ascending
  <2>. QED
      BY <2>1, <2>2, Zenon DEF Holds, Ascending
<1>. QED
    BY <1>1, <1>4, <1>5, Zenon DEF t

-----------------------------------------------------------------------------
(* What a step touches.                                                    *)

\* Which actions write which part of the state.
Footprint ==
    /\ \/ UNCHANGED mailVars
       \/ \E c \in Callers : PushOverflow(c) \/ Push(c)
       \/ PopFrame \/ CloseMailbox
    /\ UNCHANGED ctl \/ (\E c \in Callers : Nudge(c)) \/ ReadClose \/ PingTick \/ TakeControl
    /\ \/ UNCHANGED callVars
       \/ \E c \in Callers : PushOverflow(c) \/ CloseCall(c) \/ Latch(c) \/ Nudge(c)
    /\ UNCHANGED latchVars \/ (\E c \in Callers : Latch(c)) \/ WriterPanics
    /\ UNCHANGED readVars \/ Reader
    /\ UNCHANGED writeVars \/ Open \/ Writer
    /\ UNCHANGED netVars \/ ReadClose \/ StartCloseFrame \/ StartFrame \/ Shutdown \/ Peer

\* Every action keeps within its footprint.
LEMMA Footprints == [Next]_vars => Footprint
<1>1. ASSUME NEW c \in Callers, Caller(c) PROVE Footprint
  <2>1. CASE PushOverflow(c)
      BY <2>1, Zenon DEF PushOverflow, Footprint, mailVars, callVars
  <2>2. CASE Push(c)
      BY <2>2, Zenon DEF Push, Footprint, mailVars
  <2>3. CASE CloseCall(c)
      BY <2>3, Zenon DEF CloseCall, Footprint
  <2>4. CASE Latch(c)
      BY <2>4, Zenon DEF Latch, Footprint
  <2>5. CASE Nudge(c)
      BY <2>5, Zenon DEF Nudge, Footprint
  <2>. QED
      BY <1>1, <2>1, <2>2, <2>3, <2>4, <2>5, Zenon DEF Caller
<1>2. CASE Reader
  <2>1. CASE Open
      BY <1>2, <2>1, Zenon DEF Open, Footprint
  <2>2. CASE Watch \/ SeeClose
      BY <1>2, <2>2, Zenon DEF Watch, SeeClose, Footprint
  <2>3. CASE ReadFrame \/ ReadEnd \/ ReadError
      BY <1>2, <2>3, Zenon DEF ReadFrame, ReadEnd, ReadError, Footprint
  <2>4. CASE ReadClose
      BY <1>2, <2>4, Zenon DEF ReadClose, Footprint
  <2>5. CASE PingTick
      BY <1>2, <2>5, Zenon DEF PingTick, Footprint
  <2>6. CASE CloseDeadline \/ PongDeadline \/ ReaderPanics
      BY <1>2, <2>6, Zenon DEF CloseDeadline, PongDeadline, ReaderPanics, Footprint
  <2>7. CASE CloseMailbox
      BY <1>2, <2>7, Zenon DEF CloseMailbox, Footprint
  <2>8. CASE EmitClosed \/ Remove
      BY <1>2, <2>8, Zenon DEF EmitClosed, Remove, Footprint
  <2>. QED
      BY <1>2, <2>1, <2>2, <2>3, <2>4, <2>5, <2>6, <2>7, <2>8, Zenon DEF Reader
<1>3. CASE Writer
  <2>1. CASE TakeControl
      BY <1>3, <2>1, Zenon DEF TakeControl, Footprint
  <2>2. CASE PopFrame
      BY <1>3, <2>2, Zenon DEF PopFrame, Footprint
  <2>3. CASE PopNone \/ FlushFrame \/ ShutdownDone
      BY <1>3, <2>3, Zenon DEF PopNone, FlushFrame, ShutdownDone, Footprint
  <2>4. CASE StartCloseFrame \/ StartFrame \/ Shutdown
      BY <1>3, <2>4, Zenon DEF StartCloseFrame, StartFrame, Shutdown, Footprint
  <2>5. CASE WriterPanics
      BY <1>3, <2>5, Zenon DEF WriterPanics, Footprint
  <2>. QED
      BY <1>3, <2>1, <2>2, <2>3, <2>4, <2>5, Zenon DEF Writer
<1>4. CASE Peer
  <2>1. UNCHANGED <<mailVars, ctl, callVars, latchVars, readVars, writeVars>>
      BY <1>4, Zenon DEF Peer, PeerStalls, PeerReads, PeerResets, PeerCloses
  <2>. QED
      BY <1>4, <2>1, Zenon DEF Footprint
<1>5. CASE UNCHANGED vars
    BY <1>5, Zenon DEF vars, Footprint
<1>. QED
    BY <1>1, <1>2, <1>3, <1>4, <1>5, Zenon DEF Next, Finished

-----------------------------------------------------------------------------
(* Types, and what each part of the state says of the others.              *)

\* The mailbox and its counters keep their types and the mark.
LEMMA MailStep ==
    ASSUME TypeOK, [Next]_vars
    PROVE  MailTypes'
<1>. USE ConnectionAssumption
<1>1. MailTypes
    BY Zenon DEF TypeOK
<1>2. CASE UNCHANGED mailVars
    BY <1>1, <1>2, Zenon DEF mailVars, MailTypes
<1>3. ASSUME NEW c \in Callers, PushOverflow(c)
      PROVE  MailTypes'
    BY <1>1, <1>3 DEF PushOverflow, MailTypes
<1>4. ASSUME NEW c \in Callers, Push(c)
      PROVE  MailTypes'
  <2>1. /\ sends \in 0..MaxSends /\ sends' = sends + 1 /\ sends' \in 1..MaxSends
        /\ mail \in Seq(1..MaxSends) /\ Len(mail) \in Nat /\ Len(mail) <= Capacity
        /\ Capacity \in Nat \ {0}
      BY <1>1, <1>4 DEF Push, MailTypes
  <2>2. UNCHANGED <<policy, faults, mclosed>>
      BY <1>4, Zenon DEF Push
  <2>3. accepted' \subseteq 1..sends'
    <3>1. accepted \subseteq 1..sends' /\ sends' \in 1..sends'
        BY <1>1, <2>1 DEF MailTypes
    <3>. QED
        BY <1>4, <3>1, Zenon DEF Push
  <2>4. mail' \in Seq(1..MaxSends) /\ Len(mail') <= Capacity
    <3>1. CASE UNCHANGED mail
        BY <2>1, <3>1
    <3>2. CASE ~Full /\ mail' = Append(mail, sends')
        BY <2>1, <3>2, AppendFacts DEF Full
    <3>3. CASE Full /\ mail' = Append(Tail(mail), sends')
      <4>1. mail # <<>>
          BY <2>1, <3>3 DEF Full
      <4>2. /\ Tail(mail) \in Seq(1..MaxSends)
            /\ Len(Tail(mail)) = Len(mail) - 1
          BY <2>1, <4>1, TailFacts, Zenon
      <4>3. /\ Append(Tail(mail), sends') \in Seq(1..MaxSends)
            /\ Len(Append(Tail(mail), sends')) = Len(Tail(mail)) + 1
          BY <2>1, <4>2, AppendFacts
      <4>. QED
          BY <2>1, <3>3, <4>2, <4>3
    <3>. QED
        BY <1>4, <3>1, <3>2, <3>3, Zenon DEF Push
  <2>5. sends' \in 0..MaxSends
      BY <2>1
  <2>. QED
      BY <1>1, <2>2, <2>3, <2>4, <2>5, Zenon DEF MailTypes
<1>5. CASE PopFrame
  <2>1. mail \in Seq(1..MaxSends) /\ Len(mail) <= Capacity /\ mail # <<>> /\ mail' = Tail(mail)
      BY <1>1, <1>5, Zenon DEF PopFrame, MailTypes
  <2>2. mail' \in Seq(1..MaxSends) /\ Len(mail') = Len(mail) - 1 /\ Len(mail) \in Nat
      BY <2>1, TailFacts, Zenon
  <2>3. Len(mail') <= Capacity
      BY <2>1, <2>2
  <2>4. UNCHANGED <<policy, faults, mclosed, sends, accepted>>
      BY <1>5, Zenon DEF PopFrame
  <2>. QED
      BY <1>1, <2>2, <2>3, <2>4, Zenon DEF MailTypes
<1>6. CASE CloseMailbox
    BY <1>1, <1>6, Zenon DEF CloseMailbox, MailTypes
<1>. QED
    BY <1>2, <1>3, <1>4, <1>5, <1>6, Footprints, Zenon DEF Footprint

\* Signal latches the first command only.
LEMMA SignalFacts ==
    ASSUME LatchTypes, latch # NoCmd => first = latch.code,
           MailTypes, NEW cmd \in Cmd, Signal(cmd)
    PROVE  /\ LatchTypes'
           /\ latch' # NoCmd /\ first' = latch'.code
           /\ latch # NoCmd => latch' = latch /\ first' = first
<1>1. cmd # NoCmd /\ cmd.code \in CallerCodes
    BY ConnectionAssumption DEF Cmd
<1>2. /\ latch' \in Cmd \cup {NoCmd}
      /\ latch' # NoCmd /\ first' = latch'.code
      /\ latch # NoCmd => latch' = latch /\ first' = first
    BY <1>1, Zenon DEF Signal, LatchTypes
<1>3. first' \in CallerCodes \cup {"none"}
    BY <1>1, Zenon DEF Signal, LatchTypes
<1>4. \A i \in DOMAIN mail : mail[i] \in 1..MaxSends
  <2>1. mail \in Seq(1..MaxSends)
      BY Zenon DEF MailTypes
  <2>. QED
      BY <2>1, ElementsIn, Zenon
<1>5. promised' \subseteq 1..MaxSends
    BY <1>4, Zenon DEF Signal, LatchTypes
<1>. QED
    BY <1>2, <1>3, <1>5, Zenon DEF LatchTypes

\* Callers and the latch: a caller inside initiate_close has a command, and
\* past the latch it finds one there, the first.
LEMMA LatchStep ==
    ASSUME TypeOK, LatchFacts, [Next]_vars
    PROVE  /\ CallTypes' /\ LatchTypes' /\ LatchFacts'
           /\ latch # NoCmd => latch' = latch /\ first' = first
<1>. USE ConnectionAssumption
<1>1. CallTypes /\ LatchTypes /\ MailTypes
    BY Zenon DEF TypeOK
<1>2. CASE UNCHANGED <<callVars, latchVars>>
    BY <1>1, <1>2, Zenon DEF callVars, latchVars, CallTypes, LatchTypes, LatchFacts
<1>3. ASSUME NEW c \in Callers, NEW cmd \in Cmd, UNCHANGED latchVars, closes' \in 0..MaxCloses,
             cpc[c] = "idle", cpc' = [cpc EXCEPT ![c] = "latch"], ccmd' = [ccmd EXCEPT ![c] = cmd]
      PROVE  /\ CallTypes' /\ LatchTypes' /\ LatchFacts'
             /\ latch # NoCmd => latch' = latch /\ first' = first
  <2>1. /\ CallTypes'
        /\ cpc'[c] = "latch" /\ ccmd'[c] = cmd
        /\ \A d \in Callers \ {c} : cpc'[d] = cpc[d] /\ ccmd'[d] = ccmd[d]
      BY <1>1, <1>3 DEF CallTypes
  <2>2. UNCHANGED <<latch, first, promised>>
      BY <1>3, Zenon DEF latchVars
  <2>. QED
      BY <1>1, <2>1, <2>2, Zenon DEF LatchTypes, LatchFacts
<1>4. ASSUME NEW c \in Callers, PushOverflow(c) \/ CloseCall(c)
      PROVE  /\ CallTypes' /\ LatchTypes' /\ LatchFacts'
             /\ latch # NoCmd => latch' = latch /\ first' = first
  <2>1. UNCHANGED latchVars /\ cpc[c] = "idle"
      BY <1>4, Zenon DEF PushOverflow, CloseCall, Reachable
  <2>2. \E code \in CallerCodes, graceful \in BOOLEAN : StartClose(c, code, graceful)
      BY <1>4, Zenon DEF PushOverflow, CloseCall, CallerCodes
  <2>3. closes' \in 0..MaxCloses
    <3>1. closes' = closes \/ (closes < MaxCloses /\ closes' = closes + 1)
        BY <1>4, Zenon DEF PushOverflow, CloseCall
    <3>2. closes \in 0..MaxCloses
        BY <1>1, Zenon DEF CallTypes
    <3>. QED
        BY <3>1, <3>2
  <2>4. \A code \in CallerCodes, graceful \in BOOLEAN : [code |-> code, graceful |-> graceful] \in Cmd
      BY DEF Cmd
  <2>. QED
      BY <1>3, <2>1, <2>2, <2>3, <2>4, Zenon DEF StartClose
<1>5. ASSUME NEW c \in Callers, Latch(c)
      PROVE  /\ CallTypes' /\ LatchTypes' /\ LatchFacts'
             /\ latch # NoCmd => latch' = latch /\ first' = first
  <2>1. /\ CallTypes' /\ ccmd' = ccmd
        /\ \A d \in Callers \ {c} : cpc'[d] = cpc[d]
      BY <1>1, <1>5 DEF CallTypes, Latch
  <2>2. ccmd[c] \in Cmd /\ Signal(ccmd[c])
      BY <1>5, Zenon DEF Latch, LatchFacts
  <2>3. /\ LatchTypes'
        /\ latch' # NoCmd /\ first' = latch'.code
        /\ latch # NoCmd => latch' = latch /\ first' = first
      BY <1>1, <2>2, SignalFacts, Zenon DEF LatchFacts
  <2>. QED
      BY <2>1, <2>2, <2>3, Zenon DEF LatchFacts
<1>6. ASSUME NEW c \in Callers, Nudge(c)
      PROVE  /\ CallTypes' /\ LatchTypes' /\ LatchFacts'
             /\ latch # NoCmd => latch' = latch /\ first' = first
  <2>1. /\ CallTypes'
        /\ cpc'[c] = "idle"
        /\ \A d \in Callers \ {c} : cpc'[d] = cpc[d] /\ ccmd'[d] = ccmd[d]
      BY <1>1, <1>6 DEF CallTypes, Nudge
  <2>2. UNCHANGED <<latch, first, promised>>
      BY <1>6, Zenon DEF Nudge, latchVars
  <2>. QED
      BY <1>1, <2>1, <2>2, Zenon DEF LatchTypes, LatchFacts
<1>7. CASE WriterPanics
  <2>1. [code |-> "internal", graceful |-> FALSE] \in Cmd
      BY DEF Cmd, CallerCodes
  <2>2. /\ LatchTypes'
        /\ latch' # NoCmd /\ first' = latch'.code
        /\ latch # NoCmd => latch' = latch /\ first' = first
      BY <1>1, <1>7, <2>1, SignalFacts, Zenon DEF LatchFacts, WriterPanics
  <2>3. UNCHANGED <<closes, cpc, ccmd>>
      BY <1>7, Zenon DEF WriterPanics, callVars
  <2>. QED
      BY <1>1, <2>2, <2>3, Zenon DEF LatchFacts, CallTypes
<1>. QED
    BY <1>2, <1>4, <1>5, <1>6, <1>7, Footprints, Zenon DEF Footprint

Codes == CallerCodes \cup {"peer", "abnormal", "protocol", "noPong", "panicked"}

\* A return of read_loop with its own code, or with the code at the latch.
LEMMA ReturnFacts ==
    ASSUME ReadTypes, ReadFacts, LatchFacts, UNCHANGED <<latch, first, initiated>>,
           NEW code \in Codes, Return(code),
           code \in CallerCodes => latch # NoCmd /\ code = latch.code,
           code = "peer" => ~initiated
    PROVE  ReadTypes' /\ ReadFacts' /\ ReportsFirstCloser'
<1>1. code # "none"
    BY DEF Codes, CallerCodes
<1>2. ReadTypes'
    BY Zenon DEF Codes, Return, ReadTypes
<1>3. ReadFacts'
    BY <1>1, Zenon DEF ReadFacts, Return, EndedPcs
<1>4. ReportsFirstCloser'
    BY Zenon DEF ReportsFirstCloser, Return, LatchFacts
<1>. QED
    BY <1>2, <1>3, <1>4

\* read_loop and run_connection: the reader returns once, with a code of its
\* own or the latched one, and the latch does not change under it.
LEMMA ReadStep ==
    ASSUME TypeOK, LatchFacts, ReadFacts, ReportsFirstCloser, [Next]_vars
    PROVE  ReadTypes' /\ ReadFacts' /\ ReportsFirstCloser'
<1>1. ReadTypes /\ LatchTypes
    BY Zenon DEF TypeOK
<1>2. CASE UNCHANGED readVars
  <2>1. UNCHANGED <<rpc, initiated, pongDue, result>>
      BY <1>2, Zenon DEF readVars
  <2>2. latch # NoCmd => latch' = latch /\ first' = first
      BY LatchStep, Zenon
  <2>3. result \in CallerCodes => first' = first
    <3>1. ASSUME result \in CallerCodes, latch = NoCmd PROVE first' = first
      <4>1. first \in CallerCodes
          BY <3>1, Zenon DEF ReportsFirstCloser
      <4>2. first = "none"
          BY <3>1, Zenon DEF LatchFacts
      <4>. QED
          BY <4>1, <4>2 DEF CallerCodes
    <3>. QED
        BY <2>2, <3>1, Zenon
  <2>. QED
      BY <1>1, <2>1, <2>2, <2>3, Zenon DEF ReadTypes, ReadFacts, ReportsFirstCloser
<1>3. CASE Reader
  <2>1. UNCHANGED <<latch, first>>
    <3>1. UNCHANGED latchVars
        BY <1>3, Zenon DEF Reader, Open, Watch, SeeClose, ReadFrame, ReadClose, ReadEnd,
            ReadError, PingTick, CloseDeadline, PongDeadline, ReaderPanics, CloseMailbox,
            EmitClosed, Remove
    <3>. QED
        BY <3>1, Zenon DEF latchVars
  <2>2. latch # NoCmd => latch.code \in Codes /\ latch.code \in CallerCodes /\ latch.graceful \in BOOLEAN
      BY <1>1 DEF LatchTypes, Cmd, Codes
  <2>3. ASSUME UNCHANGED <<initiated, result>>, pongDue' \in BOOLEAN,
               \/ rpc' = rpc
               \/ rpc \notin EndedPcs /\ rpc' \in {"watch", "loop"}
               \/ rpc \in EndedPcs /\ rpc' \in EndedPcs
        PROVE  ReadTypes' /\ ReadFacts' /\ ReportsFirstCloser'
      BY <1>1, <2>1, <2>3, Zenon DEF ReadTypes, ReadFacts, ReportsFirstCloser, EndedPcs
  <2>4. ASSUME latch # NoCmd, rpc \in {"watch", "loop"}, SeeLatch
        PROVE  ReadTypes' /\ ReadFacts' /\ ReportsFirstCloser'
    <3>1. CASE latch.graceful
      <4>1. initiated' = TRUE /\ rpc' = "loop" /\ UNCHANGED <<result, pongDue>>
          BY <2>4, <3>1, Zenon DEF SeeLatch
      <4>2. result = "none"
          BY <2>4 DEF ReadFacts, EndedPcs
      <4>. QED
          BY <1>1, <2>1, <2>4, <4>1, <4>2, Zenon DEF ReadTypes, ReadFacts, ReportsFirstCloser, EndedPcs,
              CallerCodes
    <3>2. CASE ~latch.graceful
      <4>1. Return(latch.code) /\ UNCHANGED initiated
          BY <2>4, <3>2, Zenon DEF SeeLatch
      <4>2. latch.code # "peer"
          BY <2>2, <2>4 DEF CallerCodes
      <4>. QED
          BY <1>1, <2>1, <2>2, <2>4, <4>1, <4>2, ReturnFacts, Zenon
    <3>. QED
        BY <3>1, <3>2
  <2>5. ASSUME NEW code \in Codes \ CallerCodes, Return(code) \/ Return(OursOr(code)),
               code = "peer" => Return(OursOr(code)), UNCHANGED initiated
        PROVE  ReadTypes' /\ ReadFacts' /\ ReportsFirstCloser'
    <3>1. CASE Return(OursOr(code)) /\ initiated
      <4>1. latch # NoCmd /\ Return(latch.code)
          BY <3>1, Zenon DEF OursOr, ReadFacts
      <4>2. latch.code # "peer"
          BY <2>2, <4>1 DEF CallerCodes
      <4>. QED
          BY <1>1, <2>1, <2>2, <2>5, <4>1, <4>2, ReturnFacts, Zenon
    <3>2. CASE Return(code) /\ (code = "peer" => ~initiated)
        BY <1>1, <2>1, <2>5, <3>2, ReturnFacts, Zenon
    <3>. QED
        BY <2>5, <3>1, <3>2, Zenon DEF OursOr
  <2>6. {"peer", "abnormal", "protocol", "noPong", "panicked"} \subseteq Codes \ CallerCodes
      BY DEF Codes, CallerCodes
  <2>7. CASE Open \/ EmitClosed \/ Remove \/ CloseMailbox
    <3>1. UNCHANGED <<initiated, pongDue, result>>
        BY <2>7, Zenon DEF Open, EmitClosed, Remove, CloseMailbox
    <3>2. \/ rpc \notin EndedPcs /\ rpc' \in {"watch", "loop"}
          \/ rpc \in EndedPcs /\ rpc' \in EndedPcs
        BY <2>7 DEF Open, EmitClosed, Remove, CloseMailbox, EndedPcs
    <3>. QED
        BY <1>1, <2>3, <3>1, <3>2, Zenon DEF ReadTypes
  <2>8. CASE ReadFrame \/ PingTick
    <3>1. UNCHANGED <<initiated, result, rpc>> /\ pongDue' \in BOOLEAN
        BY <2>8, Zenon DEF ReadFrame, PingTick
    <3>. QED
        BY <2>3, <3>1, Zenon
  <2>9. CASE Watch \/ SeeClose
    <3>1. CASE latch = NoCmd
      <4>1. UNCHANGED <<initiated, result, pongDue>> /\ rpc = "watch" /\ rpc' = "loop"
          BY <2>9, <3>1, Zenon DEF Watch, SeeClose, LatchUnseen
      <4>. QED
          BY <1>1, <2>3, <4>1, Zenon DEF ReadTypes, EndedPcs
    <3>2. CASE latch # NoCmd
        BY <2>4, <2>9, <3>2, Zenon DEF Watch, SeeClose
    <3>. QED
        BY <3>1, <3>2
  <2>10. CASE CloseDeadline
    <3>1. latch # NoCmd /\ Return(latch.code) /\ UNCHANGED initiated
        BY <2>10, Zenon DEF CloseDeadline, ReadFacts
    <3>2. latch.code # "peer"
        BY <2>2, <3>1 DEF CallerCodes
    <3>. QED
        BY <1>1, <2>1, <2>2, <3>1, <3>2, ReturnFacts, Zenon
  <2>11. CASE ReadClose
      BY <2>5, <2>6, <2>11, Zenon DEF ReadClose
  <2>12. CASE ReadEnd \/ ReadError \/ PongDeadline \/ ReaderPanics
    <3>1. \A code \in {"abnormal", "protocol", "noPong", "panicked"} : code # "peer"
        OBVIOUS
    <3>. QED
        BY <2>5, <2>6, <2>12, <3>1, Zenon DEF ReadEnd, ReadError, PongDeadline, ReaderPanics
  <2>. QED
      BY <1>3, <2>7, <2>8, <2>9, <2>10, <2>11, <2>12, Zenon DEF Reader
<1>. QED
    BY <1>2, <1>3, Footprints, Zenon DEF Footprint

\* Once someone has closed, it stays so.
LEMMA ClosingStays ==
    ASSUME TypeOK, LatchFacts, [Next]_vars
    PROVE  Closing => Closing'
<1>1. latch # NoCmd => latch' # NoCmd
    BY LatchStep, Zenon
<1>2. peerClose = "read" => peerClose' = "read"
  <2>1. CASE UNCHANGED netVars
      BY <2>1, Zenon DEF netVars
  <2>2. CASE ReadClose \/ StartCloseFrame \/ StartFrame \/ Shutdown
      BY <2>2, Zenon DEF ReadClose, StartCloseFrame, StartFrame, Shutdown
  <2>3. CASE Peer
      BY <2>3, Zenon DEF Peer, PeerStalls, PeerReads, PeerResets, PeerCloses
  <2>. QED
      BY <2>1, <2>2, <2>3, Footprints, Zenon DEF Footprint
<1>. QED
    BY <1>1, <1>2, Zenon DEF Closing

\* The control queue: what a try_send or a recv leaves was there or was sent.
LEMMA TrySendFacts ==
    ASSUME ctl \in Seq(CtlFrames), Len(ctl) <= CtlCap, NEW x \in CtlFrames, TrySend(x)
    PROVE  /\ ctl' \in Seq(CtlFrames) /\ Len(ctl') <= CtlCap
           /\ \A i \in DOMAIN ctl' : ctl'[i] = x \/ \E j \in DOMAIN ctl : ctl'[i] = ctl[j]
<1>. USE ConnectionAssumption
<1>1. CASE ctl' = ctl
    BY <1>1
<1>2. CASE Len(ctl) < CtlCap /\ ctl' = Append(ctl, x)
  <2>1. /\ ctl' \in Seq(CtlFrames) /\ Len(ctl') = Len(ctl) + 1 /\ Len(ctl) \in Nat
        /\ DOMAIN ctl = 1..Len(ctl) /\ DOMAIN ctl' = 1..(Len(ctl) + 1)
        /\ \A i \in 1..Len(ctl) : ctl'[i] = ctl[i]
        /\ ctl'[Len(ctl) + 1] = x
      BY <1>2, AppendFacts
  <2>2. 1..(Len(ctl) + 1) = 1..Len(ctl) \cup {Len(ctl) + 1} /\ Len(ctl) + 1 <= CtlCap
      BY <1>2, <2>1
  <2>. QED
      BY <2>1, <2>2, Zenon
<1>. QED
    BY <1>1, <1>2, Zenon DEF TrySend

\* A close frame is in the control queue only once someone has closed.
LEMMA CtlStep ==
    ASSUME TypeOK, LatchFacts, CtlFacts, [Next]_vars
    PROVE  ctl' \in Seq(CtlFrames) /\ Len(ctl') <= CtlCap /\ CtlFacts'
<1>1. ctl \in Seq(CtlFrames) /\ Len(ctl) <= CtlCap
    BY Zenon DEF TypeOK
<1>2. Closing => Closing'
    BY ClosingStays
<1>3. ASSUME NEW x \in CtlFrames, TrySend(x), x[1] = "close" => Closing'
      PROVE  ctl' \in Seq(CtlFrames) /\ Len(ctl') <= CtlCap /\ CtlFacts'
  <2>1. /\ ctl' \in Seq(CtlFrames) /\ Len(ctl') <= CtlCap
        /\ \A i \in DOMAIN ctl' : ctl'[i] = x \/ \E j \in DOMAIN ctl : ctl'[i] = ctl[j]
      BY <1>1, <1>3, TrySendFacts, Zenon
  <2>. QED
      BY <1>2, <1>3, <2>1, Zenon DEF CtlFacts
<1>4. CASE UNCHANGED ctl
    BY <1>1, <1>2, <1>4, Zenon DEF CtlFacts
<1>5. ASSUME NEW c \in Callers, Nudge(c)
      PROVE  ctl' \in Seq(CtlFrames) /\ Len(ctl') <= CtlCap /\ CtlFacts'
  <2>1. ccmd[c] \in Cmd /\ latch # NoCmd /\ TrySend(CloseFrame(ccmd[c].code))
      BY <1>5, Zenon DEF Nudge, LatchFacts
  <2>2. ccmd[c].code \in CallerCodes
      BY <2>1 DEF Cmd
  <2>. QED
      BY <1>2, <1>3, <2>1, <2>2, FrameSets, Zenon DEF Closing
<1>6. CASE ReadClose
  <2>1. Closing' /\ TrySend(CloseFrame("peer"))
      BY <1>6, Zenon DEF ReadClose, Closing
  <2>. QED
      BY <1>3, <2>1, FrameSets, Zenon
<1>7. CASE PingTick
  <2>1. TrySend(PingFrame)
      BY <1>7, Zenon DEF PingTick
  <2>2. PingFrame[1] # "close"
      BY FrameKinds
  <2>. QED
      BY <1>3, <2>1, <2>2, FrameSets, Zenon
<1>8. CASE TakeControl
  <2>1. ctl # <<>> /\ ctl' = Tail(ctl)
      BY <1>8, Zenon DEF TakeControl
  <2>2. /\ ctl' \in Seq(CtlFrames) /\ Len(ctl') = Len(ctl) - 1 /\ Len(ctl) \in Nat
        /\ \A i \in DOMAIN ctl' : i + 1 \in DOMAIN ctl /\ ctl'[i] = ctl[i + 1]
      BY <1>1, <2>1, TailFacts
  <2>3. Len(ctl') <= CtlCap
      BY <1>1, <2>2, ConnectionAssumption
  <2>. QED
      BY <1>2, <2>2, <2>3, Zenon DEF CtlFacts
<1>. QED
    BY <1>4, <1>5, <1>6, <1>7, <1>8, Footprints, Zenon DEF Footprint

\* The writer: what it holds comes from a queue, and a close frame in its
\* hand, or sent, means someone has closed.
LEMMA WriteStep ==
    ASSUME TypeOK, LatchFacts, CtlFacts, HandFacts, [Next]_vars
    PROVE  WriteTypes' /\ HandFacts'
<1>1. WriteTypes /\ ctl \in Seq(CtlFrames) /\ mail \in Seq(1..MaxSends)
    BY Zenon DEF TypeOK, MailTypes
<1>2. Closing => Closing'
    BY ClosingStays
<1>3. CASE UNCHANGED writeVars
    BY <1>1, <1>2, <1>3, Zenon DEF writeVars, WriteTypes, HandFacts
<1>4. CASE Open \/ PopNone \/ ShutdownDone \/ Shutdown \/ WriterPanics
  <2>1. UNCHANGED <<inHand, closeSent>>
      BY <1>4, Zenon DEF Open, PopNone, ShutdownDone, Shutdown, WriterPanics
  <2>2. wpc' \in {"idle", "shutdown", "flushClose", "exited"}
      BY <1>4, Zenon DEF Open, PopNone, ShutdownDone, Shutdown, WriterPanics
  <2>. QED
      BY <1>1, <1>2, <2>1, <2>2, Zenon DEF WriteTypes, HandFacts
<1>5. ASSUME NEW f \in CtlFrames \cup DataFrames, f[1] = "close" => Closing,
             wpc = "idle", UNCHANGED closeSent,
             IF closeSent THEN UNCHANGED <<wpc, inHand>> ELSE Sending(f)
      PROVE  WriteTypes' /\ HandFacts'
  <2>1. f # NoFrame
      BY <1>5, FrameSets, Zenon
  <2>2. CASE closeSent
      BY <1>1, <1>2, <1>5, <2>2, Zenon DEF WriteTypes, HandFacts
  <2>3. CASE ~closeSent
    <3>1. wpc' = "start" /\ inHand' = f
        BY <1>5, <2>3, Zenon DEF Sending
    <3>. QED
        BY <1>1, <1>2, <1>5, <2>1, <3>1, Zenon DEF WriteTypes, HandFacts
  <2>. QED
      BY <2>2, <2>3
<1>6. CASE TakeControl
  <2>1. ctl # <<>> /\ wpc = "idle" /\ UNCHANGED closeSent
        /\ IF closeSent THEN UNCHANGED <<wpc, inHand>> ELSE Sending(Head(ctl))
      BY <1>6, Zenon DEF TakeControl
  <2>2. Head(ctl) \in CtlFrames /\ 1 \in DOMAIN ctl /\ Head(ctl) = ctl[1]
      BY <1>1, <2>1, TailFacts
  <2>. QED
      BY <1>5, <2>1, <2>2, Zenon DEF CtlFacts
<1>7. CASE PopFrame
  <2>1. mail # <<>> /\ wpc = "idle" /\ UNCHANGED closeSent
        /\ IF closeSent THEN UNCHANGED <<wpc, inHand>> ELSE Sending(Data(Head(mail)))
      BY <1>7, Zenon DEF PopFrame
  <2>2. Head(mail) \in 1..MaxSends
      BY <1>1, <2>1, TailFacts, Zenon
  <2>3. Data(Head(mail)) \in DataFrames /\ Data(Head(mail))[1] # "close"
      BY <2>2, FrameSets, FrameKinds
  <2>. QED
      BY <1>5, <2>1, <2>3, Zenon
<1>8. CASE StartCloseFrame
  <2>1. wpc = "start" /\ inHand[1] = "close" /\ wpc' = "flush" /\ inHand' = inHand /\ closeSent' = TRUE
      BY <1>8, Zenon DEF StartCloseFrame
  <2>. QED
      BY <1>1, <1>2, <2>1 DEF WriteTypes, HandFacts
<1>9. CASE StartFrame
  <2>1. wpc = "start" /\ inHand[1] # "close" /\ wpc' \in {"flush", "shutdown"}
        /\ inHand' = inHand /\ closeSent' = closeSent
      BY <1>9, Zenon DEF StartFrame
  <2>. QED
      BY <1>1, <1>2, <2>1 DEF WriteTypes, HandFacts
<1>10. CASE FlushFrame
  <2>1. wpc' \in {"idle", "shutdown"} /\ inHand' = NoFrame /\ closeSent' = closeSent
      BY <1>10, Zenon DEF FlushFrame
  <2>. QED
      BY <1>1, <1>2, <2>1 DEF WriteTypes, HandFacts
<1>. QED
    BY <1>3, <1>4, <1>6, <1>7, <1>8, <1>9, <1>10, Footprints, Zenon DEF Footprint, Writer

\* The socket and the wire keep their types; a reset is for good.
LEMMA NetStep ==
    ASSUME TypeOK, [Next]_vars
    PROVE  NetTypes' /\ (sock = "reset" => sock' = "reset")
<1>1. NetTypes /\ WriteTypes
    BY Zenon DEF TypeOK
<1>2. wire \in Seq(WireFrames)
    BY <1>1, Zenon DEF NetTypes, WireFrames
<1>3. ASSUME NEW x \in WireFrames, wire' = wire \/ wire' = Append(wire, x),
             sock' \in {"up", "stalled", "reset"}, sock = "reset" => sock' = "reset",
             peerClose' \in {"none", "sent", "read"}, codec' \in BOOLEAN
      PROVE  NetTypes' /\ (sock = "reset" => sock' = "reset")
  <2>1. wire' \in Seq(WireFrames)
      BY <1>2, <1>3, WireAppend, Zenon
  <2>. QED
      BY <1>3, <2>1, Zenon DEF NetTypes, WireFrames
<1>4. /\ CloseFrame("none") \in WireFrames
      /\ CloseFrame("peer") \in WireFrames
      /\ wpc = "start" => inHand \in WireFrames
    BY <1>1, FrameSets, Zenon DEF WireFrames, WriteTypes
<1>5. CASE UNCHANGED netVars
    BY <1>1, <1>3, <1>4, <1>5, Zenon DEF netVars, NetTypes
<1>6. CASE ReadClose
    BY <1>1, <1>3, <1>4, <1>6, Zenon DEF ReadClose, NetTypes
<1>7. CASE StartCloseFrame
    BY <1>1, <1>3, <1>4, <1>7, Zenon DEF StartCloseFrame, NetTypes
<1>8. CASE StartFrame
    BY <1>1, <1>3, <1>4, <1>8, Zenon DEF StartFrame, NetTypes
<1>9. CASE Shutdown
    BY <1>1, <1>3, <1>4, <1>9, Zenon DEF Shutdown, NetTypes
<1>10. CASE Peer
  <2>1. /\ wire' = wire /\ codec' = codec
        /\ sock' \in {"up", "stalled", "reset"}
        /\ sock = "reset" => sock' = "reset"
        /\ peerClose' \in {"none", "sent", "read"}
      BY <1>1, <1>10 DEF Peer, PeerStalls, PeerReads, PeerResets, PeerCloses, PeerAlive, NetTypes
  <2>. QED
      BY <1>1, <1>3, <1>4, <2>1, Zenon DEF NetTypes
<1>. QED
    BY <1>5, <1>6, <1>7, <1>8, <1>9, <1>10, Footprints, Zenon DEF Footprint

\* A mailbox that is drained and closed stays so.
LEMMA DrainedStays ==
    ASSUME mail = <<>>, mclosed, [Next]_vars
    PROVE  mail' = <<>> /\ mclosed'
<1>1. CASE UNCHANGED mailVars
    BY <1>1, Zenon DEF mailVars
<1>2. ASSUME NEW c \in Callers, PushOverflow(c) \/ Push(c)
      PROVE  mail' = <<>> /\ mclosed'
    BY <1>2, Zenon DEF PushOverflow, Push
<1>3. CASE PopFrame \/ CloseMailbox
    BY <1>3, Zenon DEF PopFrame, CloseMailbox
<1>. QED
    BY <1>1, <1>2, <1>3, Footprints, Zenon DEF Footprint

\* The writer does nothing before it is spawned.
LEMMA SpawnStep ==
    ASSUME SpawnFacts, [Next]_vars
    PROVE  SpawnFacts'
<1>1. rpc' = "start" => rpc = "start"
  <2>1. CASE UNCHANGED readVars
      BY <2>1, Zenon DEF readVars
  <2>2. CASE Open \/ Watch \/ SeeClose
      BY <2>2 DEF Open, Watch, SeeClose, SeeLatch, Return
  <2>3. CASE ReadFrame \/ PingTick
      BY <2>3, Zenon DEF ReadFrame, PingTick
  <2>4. CASE ReadClose \/ ReadEnd \/ ReadError \/ CloseDeadline \/ PongDeadline \/ ReaderPanics
      BY <2>4, Zenon DEF ReadClose, ReadEnd, ReadError, CloseDeadline, PongDeadline, ReaderPanics, Return
  <2>5. CASE CloseMailbox \/ EmitClosed \/ Remove
      BY <2>5 DEF CloseMailbox, EmitClosed, Remove
  <2>. QED
      BY <2>1, <2>2, <2>3, <2>4, <2>5, Footprints, Zenon DEF Footprint, Reader
<1>2. ASSUME rpc = "start", rpc' = "start"
      PROVE  wpc' = wpc
  <2>1. wpc = "unspawned"
      BY <1>2, Zenon DEF SpawnFacts
  <2>2. CASE UNCHANGED writeVars
      BY <2>2, Zenon DEF writeVars
  <2>3. CASE Open
      BY <1>2, <2>3, Zenon DEF Open
  <2>4. CASE TakeControl \/ PopFrame \/ PopNone
      BY <2>1, <2>4, Zenon DEF TakeControl, PopFrame, PopNone
  <2>5. CASE StartCloseFrame \/ StartFrame \/ WriterPanics
      BY <2>1, <2>5, Zenon DEF StartCloseFrame, StartFrame, WriterPanics
  <2>6. CASE FlushFrame \/ Shutdown \/ ShutdownDone
      BY <2>1, <2>6 DEF FlushFrame, Shutdown, ShutdownDone
  <2>. QED
      BY <2>2, <2>3, <2>4, <2>5, <2>6, Footprints, Zenon DEF Footprint, Writer
<1>. QED
    BY <1>1, <1>2, Zenon DEF SpawnFacts

\* How the writer comes to leave, and that it does not come back.
LEMMA LeaveStep ==
    ASSUME TypeOK, LatchFacts, SpawnFacts, HandFacts, LeaveFacts, [Next]_vars
    PROVE  LeaveFacts'
<1>1. Closing => Closing'
    BY ClosingStays
<1>2. sock = "reset" => sock' = "reset"
    BY NetStep
<1>3. mail = <<>> /\ mclosed => mail' = <<>> /\ mclosed'
    BY DrainedStays, Zenon
<1>4. ASSUME codec' => codec \/ Closing' \/ wpc' \in LeavingPcs,
             \/ wpc \in LeavingPcs <=> wpc' \in LeavingPcs
             \/ /\ wpc' \in LeavingPcs
                /\ Closing' \/ sock' = "reset" \/ (mail' = <<>> /\ mclosed')
      PROVE  LeaveFacts'
    BY <1>1, <1>2, <1>3, <1>4, Zenon DEF LeaveFacts
<1>5. CASE UNCHANGED writeVars
  <2>1. codec' => codec \/ Closing'
    <3>1. CASE UNCHANGED netVars
        BY <3>1, Zenon DEF netVars
    <3>2. CASE ReadClose
        BY <3>2, Zenon DEF ReadClose, Closing
    <3>3. CASE Peer
        BY <3>3, Zenon DEF Peer, PeerStalls, PeerReads, PeerResets, PeerCloses
    <3>4. CASE StartCloseFrame \/ StartFrame \/ Shutdown
      <4>1. wpc' # wpc
          BY <3>4 DEF StartCloseFrame, StartFrame, Shutdown
      <4>. QED
          BY <1>5, <4>1, Zenon DEF writeVars
    <3>. QED
        BY <3>1, <3>2, <3>3, <3>4, Footprints, Zenon DEF Footprint
  <2>. QED
      BY <1>4, <1>5, <2>1, Zenon DEF writeVars
<1>6. CASE Open \/ TakeControl \/ PopFrame
  <2>1. codec' = codec
      BY <1>6, Zenon DEF Open, TakeControl, PopFrame, netVars
  <2>2. wpc' \notin LeavingPcs
      BY <1>6, Zenon DEF Open, TakeControl, PopFrame, Sending, LeavingPcs
  <2>3. wpc \notin LeavingPcs
      BY <1>6 DEF Open, TakeControl, PopFrame, SpawnFacts, LeavingPcs
  <2>. QED
      BY <1>4, <2>1, <2>2, <2>3, Zenon
<1>7. CASE PopNone
  <2>1. codec' = codec /\ wpc' \in LeavingPcs /\ mail' = <<>> /\ mclosed'
      BY <1>7, Zenon DEF PopNone, netVars, mailVars, LeavingPcs
  <2>. QED
      BY <1>4, <2>1, Zenon
<1>8. CASE StartCloseFrame
  <2>1. Closing'
      BY <1>1, <1>8, Zenon DEF StartCloseFrame, HandFacts
  <2>. QED
      BY <2>1, Zenon DEF LeaveFacts
<1>9. CASE StartFrame
  <2>1. wpc = "start" /\ codec' = codec /\ wpc' = IF codec THEN "shutdown" ELSE "flush"
      BY <1>9, Zenon DEF StartFrame
  <2>2. CASE codec
      BY <1>1, <2>1, <2>2, Zenon DEF LeaveFacts, LeavingPcs
  <2>3. CASE ~codec
      BY <1>4, <2>1, <2>3, Zenon DEF LeavingPcs
  <2>. QED
      BY <2>2, <2>3, Zenon
<1>10. CASE FlushFrame
  <2>1. /\ wpc = "flush" /\ codec' = codec /\ sock' = sock
        /\ wpc' = "idle" \/ (sock = "reset" /\ wpc' = "shutdown")
      BY <1>10, Zenon DEF FlushFrame, netVars
  <2>. QED
      BY <1>4, <2>1, Zenon DEF LeavingPcs
<1>11. CASE WriterPanics
  <2>1. Closing'
    <3>1. [code |-> "internal", graceful |-> FALSE] \in Cmd
        BY DEF Cmd, CallerCodes
    <3>2. [code |-> "internal", graceful |-> FALSE] # NoCmd
        BY <3>1, ConnectionAssumption, Zenon
    <3>. QED
        BY <1>11, <3>2, Zenon DEF WriterPanics, Signal, Closing
  <2>. QED
      BY <2>1, Zenon DEF LeaveFacts
<1>12. CASE Shutdown
  <2>1. wpc = "shutdown" /\ wpc' = "flushClose"
      BY <1>12, Zenon DEF Shutdown
  <2>. QED
      BY <1>4, <2>1, Zenon DEF LeavingPcs
<1>13. CASE ShutdownDone
  <2>1. wpc = "flushClose" /\ wpc' = "exited" /\ codec' = codec
      BY <1>13, Zenon DEF ShutdownDone, netVars
  <2>. QED
      BY <1>4, <2>1, Zenon DEF LeavingPcs
<1>. QED
    BY <1>5, <1>6, <1>7, <1>8, <1>9, <1>10, <1>11, <1>12, <1>13, Footprints, Zenon
    DEF Footprint, Writer

-----------------------------------------------------------------------------
(* The frames on their way.                                                *)

\* Nobody has closed and the socket works.
Working == latch = NoCmd /\ sock # "reset" /\ peerClose # "read"

\* The second half of NothingLost.
AllThere ==
    Working => \A n \in 1..sends : n \in accepted <=> OnWire(n) \/ InHand(n) \/ InMail(n)

FlowFacts == PushedFacts /\ MailInOrder /\ StagesInOrder /\ AllThere

\* The connection does not start working again.
LEMMA WorkingBefore ==
    ASSUME TypeOK, LatchFacts, [Next]_vars
    PROVE  Working' => Working
<1>1. /\ Closing => Closing'
      /\ sock = "reset" => sock' = "reset"
    BY ClosingStays, NetStep, Zenon
<1>. QED
    BY <1>1, Zenon DEF Working, Closing

\* A step that moves no data frame, or drops one while not working.
LEMMA NoFlow ==
    ASSUME FlowFacts, UNCHANGED <<mail, sends, accepted>>, sends \in 0..MaxSends,
           Working' => Working,
           \A n \in 1..MaxSends : OnWire(n)' <=> OnWire(n),
           \A n \in 1..MaxSends : InHand(n)' => InHand(n),
           Working' => \A n \in 1..MaxSends : InHand(n) => InHand(n)'
    PROVE  FlowFacts'
<1>1. \A n : InMail(n)' <=> InMail(n)
    BY Zenon DEF InMail
<1>2. \A n \in 1..sends : n \in 1..MaxSends
    BY ConnectionAssumption
<1>3. PushedFacts'
    BY <1>1, Zenon DEF FlowFacts, PushedFacts
<1>4. MailInOrder'
    BY Zenon DEF FlowFacts, MailInOrder
<1>5. StagesInOrder'
    BY <1>1, <1>2, Zenon DEF FlowFacts, StagesInOrder
<1>6. AllThere'
    BY <1>1, <1>2, Zenon DEF FlowFacts, AllThere
<1>. QED
    BY <1>3, <1>4, <1>5, <1>6, Zenon DEF FlowFacts

\* A push: the new frame, if it is queued, is the newest, and what an
\* overflow evicts is the oldest.
LEMMA PushFlow ==
    ASSUME TypeOK, FlowFacts, Working' => Working, NEW c \in Callers, Push(c)
    PROVE  FlowFacts'
<1>. USE ConnectionAssumption
<1>1. MailTypes
    BY Zenon DEF TypeOK
<1>2. /\ sends \in 0..MaxSends /\ sends' = sends + 1 /\ sends' \in 1..MaxSends
      /\ mail \in Seq(1..MaxSends) /\ accepted \subseteq 1..sends
    BY <1>1 DEF Push, MailTypes
<1>3. UNCHANGED <<wire, wpc, inHand>>
    BY Zenon DEF Push, netVars, writeVars
<1>4. \A n : (OnWire(n)' <=> OnWire(n)) /\ (InHand(n)' <=> InHand(n))
    BY <1>3, Zenon DEF OnWire, InHand
<1>5. 1..sends' = 1..sends \cup {sends'} /\ sends' \notin 1..sends /\ sends' <= sends'
    BY <1>2
<1>6. \A n \in 1..sends : n < sends' /\ n <= sends' /\ n \in 1..MaxSends
    BY <1>2
<1>7. \A n \in 1..MaxSends : OnWire(n) \/ InHand(n) \/ InMail(n) => n \in 1..sends
  <2>1. \A n \in 1..MaxSends : n <= sends => n \in 1..sends
      BY <1>2
  <2>. QED
      BY <2>1, Zenon DEF FlowFacts, PushedFacts
<1>8. \A n : InMail(n) <=> Holds(mail, n)
    BY Zenon DEF InMail, Holds
<1>9. \A n : InMail(n)' <=> Holds(mail', n)
    BY Zenon DEF InMail, Holds
<1>10. Ascending(mail) /\ (Ascending(mail') => MailInOrder')
    BY Zenon DEF FlowFacts, MailInOrder, Ascending
<1>11. \A n : InMail(n) => n \in 1..MaxSends
  <2>1. \A i \in DOMAIN mail : mail[i] \in 1..MaxSends
      BY <1>2, ElementsIn
  <2>. QED
      BY <2>1 DEF InMail
<1>12. ASSUME \A n \in 1..sends : InMail(n)' => InMail(n)
       PROVE  StagesInOrder'
  <2>1. SUFFICES ASSUME NEW m \in 1..sends', NEW n \in 1..sends',
                        \/ OnWire(m)' /\ (InHand(n)' \/ InMail(n)')
                        \/ InHand(m)' /\ InMail(n)'
                 PROVE  m < n
      BY Zenon DEF StagesInOrder
  <2>2. m \in 1..MaxSends
      BY <1>2
  <2>3. m \in 1..sends
      BY <1>4, <1>7, <2>1, <2>2, Zenon
  <2>4. CASE n \in 1..sends
      BY <1>4, <1>12, <2>1, <2>3, <2>4, Zenon DEF FlowFacts, StagesInOrder
  <2>5. CASE n = sends'
      BY <1>6, <2>3, <2>5, Zenon
  <2>. QED
      BY <1>5, <2>4, <2>5, Zenon
<1>13. CASE UNCHANGED <<mail, accepted>>
  <2>1. \A n : InMail(n)' <=> InMail(n)
      BY <1>13, Zenon DEF InMail
  <2>2. PushedFacts'
      BY <1>4, <1>5, <1>7, <1>6, <2>1, Zenon DEF PushedFacts
  <2>3. MailInOrder'
      BY <1>10, <1>13, Zenon
  <2>4. StagesInOrder'
      BY <1>5, <1>12, <2>1, Zenon
  <2>5. AllThere'
      BY <1>2, <1>4, <1>5, <1>7, <1>13, <1>6, <2>1 DEF FlowFacts, AllThere
  <2>. QED
      BY <2>2, <2>3, <2>4, <2>5, Zenon DEF FlowFacts
<1>14. CASE mail' = Append(mail, sends') /\ accepted' = accepted \cup {sends'}
  <2>1. /\ \A n : InMail(n)' <=> InMail(n) \/ n = sends'
        /\ MailInOrder'
    <3>1. \A n : Holds(mail, n) => n < sends'
        BY <1>7, <1>8, <1>11, <1>6, Zenon
    <3>2. /\ \A n : Holds(mail', n) <=> Holds(mail, n) \/ n = sends'
          /\ Ascending(mail')
        BY <1>2, <1>10, <1>14, <3>1, PushNewest, Zenon
    <3>. QED
        BY <1>8, <1>9, <1>10, <3>2, Zenon
  <2>2. PushedFacts'
      BY <1>4, <1>5, <1>7, <1>6, <2>1, Zenon DEF PushedFacts
  <2>3. StagesInOrder'
      BY <1>5, <1>12, <2>1, Zenon
  <2>4. AllThere'
      BY <1>2, <1>4, <1>5, <1>7, <1>14, <1>6, <2>1, Zenon DEF FlowFacts, AllThere
  <2>. QED
      BY <2>1, <2>2, <2>3, <2>4, Zenon DEF FlowFacts
<1>15. CASE /\ Full /\ mail' = Append(Tail(mail), sends')
            /\ accepted' = (accepted \ {Head(mail)}) \cup {sends'}
  <2>1. mail # <<>>
      BY <1>2, <1>15 DEF Full
  <2>2. /\ Tail(mail) \in Seq(1..MaxSends) /\ Head(mail) \in 1..MaxSends
        /\ \A n : Holds(mail, n) <=> Holds(Tail(mail), n) \/ n = Head(mail)
        /\ Ascending(Tail(mail)) /\ \A n : Holds(Tail(mail), n) => Head(mail) < n
      BY <1>2, <1>10, <2>1, PopOldest, Zenon
  <2>3. InMail(Head(mail)) /\ Head(mail) \in 1..sends
      BY <1>7, <1>8, <2>2, Zenon
  <2>4. \A n : Holds(Tail(mail), n) => n < sends'
      BY <1>7, <1>8, <1>11, <1>6, <2>2, Zenon
  <2>5. /\ \A n : Holds(mail', n) <=> Holds(Tail(mail), n) \/ n = sends'
        /\ Ascending(mail')
      BY <1>2, <1>15, <2>2, <2>4, PushNewest, Zenon
  <2>6. Head(mail) # sends' /\ ~Holds(Tail(mail), Head(mail))
      BY <1>5, <2>2, <2>3
  <2>7. /\ \A n : InMail(n)' <=> (InMail(n) /\ n # Head(mail)) \/ n = sends'
        /\ MailInOrder'
      BY <1>8, <1>9, <1>10, <2>2, <2>5, <2>6, Zenon
  <2>8. ~OnWire(Head(mail)) /\ ~InHand(Head(mail))
    <3>1. ~(Head(mail) < Head(mail))
        BY <2>2
    <3>. QED
        BY <2>3, <3>1, Zenon DEF FlowFacts, StagesInOrder
  <2>9. PushedFacts'
      BY <1>4, <1>5, <1>7, <1>6, <2>7, Zenon DEF PushedFacts
  <2>10. StagesInOrder'
      BY <1>5, <1>12, <2>7, Zenon
  <2>11. AllThere'
      BY <1>2, <1>4, <1>5, <1>7, <1>15, <1>6, <2>6, <2>7, <2>8, SMTT(30) DEF FlowFacts, AllThere
  <2>. QED
      BY <2>7, <2>9, <2>10, <2>11, Zenon DEF FlowFacts
<1>. QED
    BY <1>13, <1>14, <1>15, Zenon DEF Push

\* An overflow under the Disconnect policy leaves the queued frames alone.
LEMMA OverflowFlow ==
    ASSUME TypeOK, FlowFacts, Working' => Working, NEW c \in Callers, PushOverflow(c)
    PROVE  FlowFacts'
<1>. USE ConnectionAssumption
<1>1. MailTypes
    BY Zenon DEF TypeOK
<1>2. sends \in 0..MaxSends /\ sends' = sends + 1 /\ sends' \in 1..MaxSends
    BY <1>1 DEF PushOverflow, MailTypes
<1>3. UNCHANGED <<mail, accepted, wire, wpc, inHand>>
    BY Zenon DEF PushOverflow, netVars, writeVars
<1>4. \A n : /\ OnWire(n)' <=> OnWire(n)
             /\ InHand(n)' <=> InHand(n)
             /\ InMail(n)' <=> InMail(n)
    BY <1>3, Zenon DEF OnWire, InHand, InMail
<1>5. \A n \in 1..MaxSends : n <= sends => n \in 1..sends /\ n <= sends'
    BY <1>2
<1>6. 1..sends' \subseteq 1..MaxSends /\ 1..sends \subseteq 1..MaxSends
    BY <1>2
<1>7. \A n \in 1..MaxSends : OnWire(n) \/ InHand(n) \/ InMail(n) => n \in 1..sends
    BY <1>5, Zenon DEF FlowFacts, PushedFacts
<1>8. accepted \subseteq 1..sends
    BY <1>1, Zenon DEF MailTypes
<1>9. PushedFacts'
    BY <1>4, <1>5, Zenon DEF FlowFacts, PushedFacts
<1>10. MailInOrder'
    BY <1>3, Zenon DEF FlowFacts, MailInOrder
<1>11. StagesInOrder'
    BY <1>4, <1>6, <1>7, Zenon DEF FlowFacts, StagesInOrder
<1>12. AllThere'
    BY <1>3, <1>4, <1>6, <1>7, <1>8, Zenon DEF FlowFacts, AllThere
<1>. QED
    BY <1>9, <1>10, <1>11, <1>12, Zenon DEF FlowFacts

\* mailbox.pop takes the oldest frame into the writer's hand; it discards it
\* only after a close frame.
LEMMA PopFlow ==
    ASSUME TypeOK, HandFacts, FlowFacts, Working' => Working, PopFrame
    PROVE  FlowFacts'
<1>. USE ConnectionAssumption
<1>. DEFINE h == Head(mail)
<1>1. /\ mail \in Seq(1..MaxSends) /\ mail # <<>> /\ mail' = Tail(mail)
      /\ sends \in 0..MaxSends
    BY Zenon DEF TypeOK, MailTypes, PopFrame
<1>2. /\ wpc = "idle"
      /\ IF closeSent THEN UNCHANGED <<wpc, inHand>> ELSE wpc' = "start" /\ inHand' = Data(h)
    BY Zenon DEF PopFrame, Sending
<1>3. UNCHANGED <<wire, sends, accepted, latch, sock, peerClose>>
    BY Zenon DEF PopFrame, netVars, latchVars
<1>4. Ascending(mail)
    BY Zenon DEF FlowFacts, MailInOrder, Ascending
<1>5. /\ h \in 1..MaxSends
      /\ \A n : InMail(n) <=> InMail(n)' \/ n = h
      /\ MailInOrder'
      /\ \A n : InMail(n)' => h < n
  <2>1. /\ h \in 1..MaxSends
        /\ \A n : Holds(mail, n) <=> Holds(mail', n) \/ n = h
        /\ Ascending(mail') /\ \A n : Holds(mail', n) => h < n
      BY <1>1, <1>4, PopOldest, Zenon
  <2>2. \A n : InMail(n) <=> Holds(mail, n)
      BY Zenon DEF InMail, Holds
  <2>3. \A n : InMail(n)' <=> Holds(mail', n)
      BY Zenon DEF InMail, Holds
  <2>4. MailInOrder'
      BY <2>1, Zenon DEF MailInOrder, Ascending
  <2>. QED
      BY <2>1, <2>2, <2>3, <2>4, Zenon
<1>6. \A n : OnWire(n)' <=> OnWire(n)
    BY <1>3, Zenon DEF OnWire
<1>7. \A n : ~InHand(n)
    BY <1>2, Zenon DEF InHand
<1>8. \A n : InHand(n)' => n = h
    BY <1>2, FrameKinds DEF InHand
<1>9. Working' => ~closeSent
  <2>1. Working => ~closeSent
      BY Zenon DEF Working, HandFacts, Closing
  <2>. QED
      BY <2>1
<1>10. Working' => \A n : n = h => InHand(n)'
    BY <1>2, <1>9, Zenon DEF InHand
<1>11. 1..sends \subseteq 1..MaxSends /\ h \in 1..sends
  <2>1. h <= sends
      BY <1>5, Zenon DEF FlowFacts, PushedFacts
  <2>. QED
      BY <1>1, <1>5, <2>1
<1>. HIDE DEF h
<1>12. PushedFacts'
    BY <1>3, <1>5, <1>6, <1>8, Zenon DEF FlowFacts, PushedFacts
<1>13. StagesInOrder'
  <2>1. SUFFICES ASSUME NEW m \in 1..sends, NEW n \in 1..sends,
                        \/ OnWire(m) /\ (n = h \/ InMail(n)')
                        \/ m = h /\ InMail(n)'
                 PROVE  m < n
      BY <1>3, <1>6, <1>8, Zenon DEF StagesInOrder
  <2>2. CASE m = h /\ InMail(n)'
      BY <1>5, <2>2, Zenon
  <2>3. CASE OnWire(m) /\ InMail(n)
      BY <2>3, Zenon DEF FlowFacts, StagesInOrder
  <2>. QED
      BY <1>5, <2>1, <2>2, <2>3, Zenon
<1>14. AllThere'
  <2>1. SUFFICES ASSUME Working', NEW n \in 1..sends
                 PROVE  n \in accepted <=> OnWire(n)' \/ InHand(n)' \/ InMail(n)'
      BY <1>3, Zenon DEF AllThere
  <2>2. n \in accepted <=> OnWire(n) \/ InMail(n)
      BY <1>7, <2>1, Zenon DEF FlowFacts, AllThere
  <2>3. InHand(n)' <=> n = h
      BY <1>8, <1>10, <2>1, Zenon
  <2>4. (InMail(n) <=> InMail(n)' \/ n = h) /\ (OnWire(n)' <=> OnWire(n))
      BY <1>5, <1>6, Zenon
  <2>. QED
      BY <2>2, <2>3, <2>4, Zenon
<1>. QED
    BY <1>5, <1>12, <1>13, <1>14, Zenon DEF FlowFacts

\* The codec takes the frame in hand, or refuses it after a close frame.
LEMMA StartFlow ==
    ASSUME TypeOK, LeaveFacts, FlowFacts, WireInOrder, Working' => Working, StartFrame
    PROVE  FlowFacts' /\ WireInOrder'
<1>. USE ConnectionAssumption
<1>1. /\ wpc = "start" /\ wpc' \in {"shutdown", "flush"}
      /\ wire' = IF codec \/ inHand[1] = "ping" THEN wire ELSE Append(wire, inHand)
      /\ inHand[1] # "close"
    BY Zenon DEF StartFrame
<1>2. UNCHANGED <<mail, sends, accepted, latch, sock, peerClose>>
    BY Zenon DEF StartFrame, mailVars, latchVars
<1>3. sends \in 0..MaxSends /\ inHand \in CtlFrames \cup DataFrames /\ wire \in Seq(WireFrames)
    BY <1>1, Zenon DEF TypeOK, MailTypes, WriteTypes, NetTypes, WireFrames
<1>4. \A n : ~InHand(n)'
    BY <1>1, Zenon DEF InHand
<1>5. Working => ~codec
    BY <1>1, Zenon DEF Working, LeaveFacts, Closing, LeavingPcs
<1>6. CASE wire' = wire
  <2>1. WireInOrder'
      BY <1>6, Zenon DEF WireInOrder
  <2>2. \A n : OnWire(n)' <=> OnWire(n)
      BY <1>6, Zenon DEF OnWire
  <2>3. Working' => \A n : ~InHand(n)
    <3>1. CASE codec
        BY <1>5, <3>1, Zenon
    <3>2. CASE inHand[1] = "ping"
        BY <3>2, FrameKinds DEF InHand
    <3>3. CASE ~codec /\ inHand[1] # "ping"
      <4>1. wire' = Append(wire, inHand)
          BY <1>1, <3>3, Zenon
      <4>2. Len(Append(wire, inHand)) # Len(wire)
        <5>1. inHand \in WireFrames
            BY <1>3, Zenon DEF WireFrames
        <5>. QED
            BY <1>3, <5>1, AppendFacts
      <4>. QED
          BY <1>6, <4>1, <4>2, Zenon
    <3>. QED
        BY <3>1, <3>2, <3>3, Zenon
  <2>4. FlowFacts'
      BY <1>2, <1>3, <1>4, <2>2, <2>3, NoFlow, Zenon
  <2>. QED
      BY <2>1, <2>4
<1>7. CASE wire' # wire
  <2>1. wire' = Append(wire, inHand) /\ inHand[1] # "ping" /\ inHand \in WireFrames
      BY <1>1, <1>3, <1>7, Zenon DEF WireFrames
  <2>2. inHand \in DataFrames
      BY <1>1, <1>3, <2>1, FrameSets, Zenon
  <2>3. inHand[2] \in 1..MaxSends /\ inHand = Data(inHand[2])
      BY <2>2, FrameSets, Zenon
  <2>4. \A n : OnWire(n)' <=> OnWire(n) \/ InHand(n)
    <3>1. \A n : OnWire(n)' <=> OnWire(n) \/ inHand = Data(n)
        BY <1>3, <2>1, WireAppend, Zenon
    <3>. QED
        BY <1>1, <3>1, Zenon DEF InHand
  <2>5. \A n : InMail(n)' <=> InMail(n)
      BY <1>2, Zenon DEF InMail
  <2>6. WireInOrder'
    <3>1. \A n \in 1..MaxSends : OnWire(n) \/ InHand(n) => n \in 1..sends
      <4>1. \A n \in 1..MaxSends : n <= sends => n \in 1..sends
          BY <1>3
      <4>. QED
          BY <4>1, Zenon DEF FlowFacts, PushedFacts
    <3>2. \A m, n \in 1..MaxSends : OnWire(m) /\ inHand = Data(n) => m < n
        BY <1>1, <3>1, Zenon DEF FlowFacts, StagesInOrder, InHand
    <3>. QED
        BY <1>3, <2>1, <3>2, WireOrderStep, Zenon
  <2>7. PushedFacts'
      BY <1>2, <1>4, <2>4, <2>5, Zenon DEF FlowFacts, PushedFacts
  <2>8. MailInOrder'
      BY <1>2, Zenon DEF FlowFacts, MailInOrder
  <2>9. StagesInOrder'
      BY <1>2, <1>4, <2>4, <2>5, Zenon DEF FlowFacts, StagesInOrder
  <2>10. AllThere'
      BY <1>2, <1>4, <2>4, <2>5, Zenon DEF FlowFacts, AllThere
  <2>. QED
      BY <2>6, <2>7, <2>8, <2>9, <2>10, Zenon DEF FlowFacts
<1>. QED
    BY <1>6, <1>7, Zenon

\* A close frame on the wire moves no data.
LEMMA CloseOnWire ==
    ASSUME TypeOK, WireInOrder, NEW code \in CallerCodes \cup {"peer", "none"},
           wire' = IF codec THEN wire ELSE Append(wire, CloseFrame(code))
    PROVE  /\ \A n : OnWire(n)' <=> OnWire(n)
           /\ WireInOrder'
<1>1. wire \in Seq(WireFrames) /\ CloseFrame(code) \in WireFrames
    BY FrameSets, Zenon DEF TypeOK, NetTypes, WireFrames
<1>2. \A n : CloseFrame(code) # Data(n)
    BY FrameKinds, Zenon
<1>3. CASE wire' = wire
    BY <1>3, Zenon DEF OnWire, WireInOrder
<1>4. CASE wire' = Append(wire, CloseFrame(code))
  <2>1. \A n : OnWire(n)' <=> OnWire(n)
      BY <1>1, <1>2, <1>4, WireAppend, Zenon
  <2>2. WireInOrder'
      BY <1>1, <1>2, <1>4, WireOrderStep, Zenon
  <2>. QED
      BY <2>1, <2>2
<1>. QED
    BY <1>3, <1>4, Zenon

\* Every step keeps the frames on their way in order and, while nobody has
\* closed and the socket works, complete.
LEMMA FlowStep ==
    ASSUME TypeOK, LatchFacts, SpawnFacts, HandFacts, LeaveFacts, FlowFacts, WireInOrder,
           [Next]_vars
    PROVE  FlowFacts' /\ WireInOrder'
<1>1. Working' => Working
    BY WorkingBefore
<1>2. sends \in 0..MaxSends
    BY Zenon DEF TypeOK, MailTypes
<1>3. ASSUME UNCHANGED wire
      PROVE  WireInOrder' /\ \A n : OnWire(n)' <=> OnWire(n)
    BY <1>3, Zenon DEF WireInOrder, OnWire
<1>4. ASSUME UNCHANGED <<mail, sends, accepted, wire>>,
             \/ UNCHANGED <<wpc, inHand>>
             \/ \A n \in 1..MaxSends : ~InHand(n) /\ ~InHand(n)'
             \/ ~Working' /\ \A n \in 1..MaxSends : ~InHand(n)'
      PROVE  FlowFacts' /\ WireInOrder'
  <2>1. \A n \in 1..MaxSends : OnWire(n)' <=> OnWire(n)
      BY <1>3, <1>4, Zenon
  <2>2. \A n \in 1..MaxSends : InHand(n)' => InHand(n)
      BY <1>4, Zenon DEF InHand
  <2>3. Working' => \A n \in 1..MaxSends : InHand(n) => InHand(n)'
      BY <1>4, Zenon DEF InHand
  <2>. QED
      BY <1>1, <1>2, <1>3, <1>4, <2>1, <2>2, <2>3, NoFlow, Zenon
<1>5. ASSUME NEW c \in Callers, Caller(c)
      PROVE  FlowFacts' /\ WireInOrder'
  <2>1. CASE PushOverflow(c)
    <3>1. UNCHANGED wire
        BY <2>1, Zenon DEF PushOverflow, netVars
    <3>. QED
        BY <1>1, <1>3, <2>1, <3>1, OverflowFlow, Zenon
  <2>2. CASE Push(c)
    <3>1. UNCHANGED wire
        BY <2>2, Zenon DEF Push, netVars
    <3>. QED
        BY <1>1, <1>3, <2>2, <3>1, PushFlow, Zenon
  <2>3. CASE CloseCall(c) \/ Latch(c) \/ Nudge(c)
    <3>1. UNCHANGED <<mail, sends, accepted, wire, wpc, inHand>>
        BY <2>3, Zenon DEF CloseCall, Latch, Nudge, mailVars, writeVars, netVars
    <3>. QED
        BY <1>4, <3>1, Zenon
  <2>. QED
      BY <1>5, <2>1, <2>2, <2>3, Zenon DEF Caller
<1>6. CASE Reader
  <2>1. CASE ReadClose
    <3>1. UNCHANGED <<mail, sends, accepted, wpc, inHand>>
          /\ wire' = IF codec THEN wire ELSE Append(wire, CloseFrame("peer"))
        BY <2>1, Zenon DEF ReadClose, mailVars, writeVars
    <3>2. WireInOrder' /\ \A n : OnWire(n)' <=> OnWire(n)
        BY <3>1, CloseOnWire, Zenon
    <3>3. \A n : InHand(n)' <=> InHand(n)
        BY <3>1, Zenon DEF InHand
    <3>. QED
        BY <1>1, <1>2, <3>1, <3>2, <3>3, NoFlow, Zenon
  <2>2. CASE Open
    <3>1. UNCHANGED <<mail, sends, accepted, wire>> /\ wpc' = "idle" /\ wpc = "unspawned"
        BY <2>2, Zenon DEF Open, SpawnFacts, mailVars, netVars
    <3>2. \A n \in 1..MaxSends : ~InHand(n) /\ ~InHand(n)'
        BY <3>1 DEF InHand
    <3>. QED
        BY <1>4, <3>1, <3>2, Zenon
  <2>3. CASE ~ReadClose /\ ~Open
    <3>1. UNCHANGED <<mail, sends, accepted, wire, wpc, inHand>>
        BY <1>6, <2>3, Zenon DEF Reader, Watch, SeeClose, ReadFrame, ReadEnd, ReadError, PingTick,
            CloseDeadline, PongDeadline, ReaderPanics, CloseMailbox, EmitClosed, Remove,
            mailVars, writeVars, netVars
    <3>. QED
        BY <1>4, <3>1, Zenon
  <2>. QED
      BY <2>1, <2>2, <2>3, Zenon
<1>7. CASE Writer
  <2>1. CASE TakeControl
    <3>1. /\ UNCHANGED <<mail, sends, accepted, wire>> /\ wpc = "idle" /\ ctl # <<>>
          /\ UNCHANGED <<wpc, inHand>> \/ inHand' = Head(ctl)
        BY <2>1, Zenon DEF TakeControl, Sending, mailVars, netVars
    <3>2. Head(ctl)[1] # "data"
      <4>1. Head(ctl) \in CtlFrames
          BY <3>1, TailFacts, Zenon DEF TypeOK
      <4>. QED
          BY <4>1, FrameSets, Zenon
    <3>3. UNCHANGED <<wpc, inHand>> \/ \A n \in 1..MaxSends : ~InHand(n) /\ ~InHand(n)'
        BY <3>1, <3>2, FrameKinds, Zenon DEF InHand
    <3>. QED
        BY <1>4, <3>1, <3>3, Zenon
  <2>2. CASE PopFrame
    <3>1. UNCHANGED wire
        BY <2>2, Zenon DEF PopFrame, netVars
    <3>. QED
        BY <1>1, <1>3, <2>2, <3>1, PopFlow, Zenon
  <2>3. CASE PopNone \/ FlushFrame \/ ShutdownDone
    <3>1. UNCHANGED <<mail, sends, accepted, wire>>
        BY <2>3, Zenon DEF PopNone, FlushFrame, ShutdownDone, mailVars, netVars
    <3>2. wpc # "start" /\ wpc' # "start"
        BY <2>3 DEF PopNone, FlushFrame, ShutdownDone
    <3>. QED
        BY <1>4, <3>1, <3>2, Zenon DEF InHand
  <2>4. CASE StartCloseFrame
    <3>1. /\ UNCHANGED <<mail, sends, accepted>> /\ wpc = "start" /\ wpc' = "flush"
          /\ inHand[1] = "close" /\ wire' = IF codec THEN wire ELSE Append(wire, inHand)
        BY <2>4, Zenon DEF StartCloseFrame, mailVars
    <3>2. PICK code \in CallerCodes \cup {"peer"} : inHand = CloseFrame(code)
      <4>1. inHand \in CtlFrames \cup DataFrames
          BY <3>1, Zenon DEF TypeOK, WriteTypes
      <4>2. inHand # PingFrame /\ inHand \notin DataFrames
          BY <3>1, FrameKinds, FrameSets, Zenon DEF IsData
      <4>. QED
          BY <4>1, <4>2, Zenon DEF CtlFrames
    <3>3. WireInOrder' /\ \A n : OnWire(n)' <=> OnWire(n)
        BY <3>1, <3>2, CloseOnWire, Zenon
    <3>4. \A n : ~InHand(n) /\ ~InHand(n)'
        BY <3>1, FrameKinds, Zenon DEF InHand
    <3>. QED
        BY <1>1, <1>2, <3>1, <3>3, <3>4, NoFlow, Zenon
  <2>5. CASE StartFrame
      BY <1>1, <2>5, StartFlow, Zenon
  <2>6. CASE WriterPanics
    <3>1. UNCHANGED <<mail, sends, accepted, wire>> /\ wpc' = "exited"
          /\ Signal([code |-> "internal", graceful |-> FALSE])
        BY <2>6, Zenon DEF WriterPanics, mailVars, netVars
    <3>2. [code |-> "internal", graceful |-> FALSE] \in Cmd
        BY DEF Cmd, CallerCodes
    <3>3. [code |-> "internal", graceful |-> FALSE] # NoCmd
        BY <3>2, ConnectionAssumption, Zenon
    <3>4. ~Working'
        BY <3>1, <3>3, Zenon DEF Signal, Working
    <3>5. \A n : ~InHand(n)'
        BY <3>1 DEF InHand
    <3>. QED
        BY <1>4, <3>1, <3>4, <3>5, Zenon
  <2>7. CASE Shutdown
    <3>1. /\ UNCHANGED <<mail, sends, accepted>> /\ wpc = "shutdown" /\ wpc' = "flushClose"
          /\ wire' = IF codec THEN wire ELSE Append(wire, CloseFrame("none"))
        BY <2>7, Zenon DEF Shutdown, mailVars
    <3>2. WireInOrder' /\ \A n : OnWire(n)' <=> OnWire(n)
        BY <3>1, CloseOnWire, Zenon
    <3>3. \A n : ~InHand(n) /\ ~InHand(n)'
        BY <3>1, Zenon DEF InHand
    <3>. QED
        BY <1>1, <1>2, <3>1, <3>2, <3>3, NoFlow, Zenon
  <2>. QED
      BY <1>7, <2>1, <2>2, <2>3, <2>4, <2>5, <2>6, <2>7, Zenon DEF Writer
<1>8. CASE Peer
  <2>1. UNCHANGED <<mail, sends, accepted, wire, wpc, inHand>>
      BY <1>8, Zenon DEF Peer, PeerStalls, PeerReads, PeerResets, PeerCloses, mailVars, writeVars
  <2>. QED
      BY <1>4, <2>1, Zenon
<1>9. CASE UNCHANGED vars
  <2>1. UNCHANGED <<mail, sends, accepted, wire, wpc, inHand>>
      BY <1>9, Zenon DEF vars, mailVars, netVars, writeVars
  <2>. QED
      BY <1>4, <2>1, Zenon
<1>. QED
    BY <1>5, <1>6, <1>7, <1>8, <1>9, Zenon DEF Next, Finished

-----------------------------------------------------------------------------
(* The theorems.                                                           *)

\* A connection just admitted satisfies the invariant.
LEMMA InitIInv == Init => IInv
<1>. SUFFICES ASSUME Init PROVE IInv
    OBVIOUS
<1>. USE ConnectionAssumption
<1>1. MailTypes
  <2>1. /\ policy \in Policies /\ faults \in FaultSets /\ mail = <<>> /\ mclosed = FALSE
        /\ sends = 0 /\ accepted = {}
      BY Zenon DEF Init
  <2>2. <<>> \in Seq(1..MaxSends) /\ Len(<<>>) <= Capacity /\ 0 \in 0..MaxSends
      OBVIOUS
  <2>. QED
      BY <2>1, <2>2, Zenon DEF MailTypes
<1>2. CallTypes
    BY DEF Init, CallTypes
<1>3. LatchTypes /\ ReadTypes
    BY Zenon DEF Init, LatchTypes, ReadTypes
<1>4. WriteTypes /\ NetTypes
  <2>1. wpc = "unspawned" /\ inHand = NoFrame /\ closeSent = FALSE
        /\ sock = "up" /\ peerClose = "none" /\ codec = FALSE /\ wire = <<>>
      BY Zenon DEF Init
  <2>2. "unspawned" # "start" /\ <<>> \in Seq(CtlFrames \cup DataFrames \cup {CloseFrame("none")})
      OBVIOUS
  <2>. QED
      BY <2>1, <2>2, Zenon DEF WriteTypes, NetTypes
<1>5. ctl \in Seq(CtlFrames) /\ Len(ctl) <= CtlCap
    BY DEF Init
<1>6. DOMAIN mail = {} /\ DOMAIN wire = {} /\ DOMAIN ctl = {}
    BY DEF Init
<1>7. \A n : ~OnWire(n) /\ ~InMail(n)
    BY <1>6, Zenon DEF OnWire, InMail
<1>8. \A n : ~InHand(n)
    BY DEF Init, InHand
<1>9. PushedFacts /\ WireInOrder /\ MailInOrder /\ StagesInOrder
    BY <1>6, <1>7, <1>8, Zenon DEF PushedFacts, WireInOrder, MailInOrder, StagesInOrder
<1>10. NothingLost
  <2>1. 1..sends = {}
      BY DEF Init
  <2>. QED
      BY <1>9, <2>1, Zenon DEF NothingLost
<1>11. LatchFacts
    BY Zenon DEF Init, LatchFacts
<1>12. ReadFacts /\ SpawnFacts /\ ReportsFirstCloser
    BY DEF Init, ReadFacts, SpawnFacts, ReportsFirstCloser, EndedPcs, CallerCodes
<1>13. CtlFacts
    BY <1>6, Zenon DEF CtlFacts
<1>14. HandFacts /\ LeaveFacts
    BY DEF Init, HandFacts, LeaveFacts, LeavingPcs
<1>. QED
    BY <1>1, <1>2, <1>3, <1>4, <1>5, <1>9, <1>10, <1>11, <1>12, <1>13, <1>14, Zenon
    DEF IInv, TypeOK

\* Every step keeps the invariant.
LEMMA NextIInv == IInv /\ [Next]_vars => IInv'
<1>. SUFFICES ASSUME IInv, [Next]_vars PROVE IInv'
    OBVIOUS
<1>1. /\ TypeOK /\ LatchFacts /\ ReadFacts /\ SpawnFacts /\ CtlFacts /\ HandFacts /\ LeaveFacts
      /\ ReportsFirstCloser
    BY Zenon DEF IInv
<1>2. FlowFacts /\ WireInOrder
    BY Zenon DEF IInv, NothingLost, FlowFacts, AllThere, Working
<1>3. MailTypes'
    BY <1>1, MailStep, Zenon
<1>4. CallTypes' /\ LatchTypes' /\ LatchFacts'
    BY <1>1, LatchStep, Zenon
<1>5. ReadTypes' /\ ReadFacts' /\ ReportsFirstCloser'
    BY <1>1, ReadStep, Zenon
<1>6. ctl' \in Seq(CtlFrames) /\ Len(ctl') <= CtlCap /\ CtlFacts'
    BY <1>1, CtlStep, Zenon
<1>7. WriteTypes' /\ HandFacts'
    BY <1>1, WriteStep, Zenon
<1>8. NetTypes' /\ SpawnFacts' /\ LeaveFacts'
    BY <1>1, NetStep, SpawnStep, LeaveStep, Zenon
<1>9. FlowFacts' /\ WireInOrder'
    BY <1>1, <1>2, FlowStep, Zenon
<1>10. TypeOK'
    BY <1>3, <1>4, <1>5, <1>6, <1>7, <1>8, Zenon DEF TypeOK
<1>11. NothingLost' /\ PushedFacts'
    BY <1>9, Zenon DEF NothingLost, FlowFacts, AllThere, Working
<1>. QED
    BY <1>4, <1>5, <1>6, <1>7, <1>8, <1>10, <1>11, Zenon DEF IInv

\* Every state of a connection satisfies the invariant, under any
\* interleaving of callers, reader, writer, peer and timers.
THEOREM Invariance == Spec => []IInv
    BY InitIInv, NextIInv, PTL DEF Spec

\* The mailbox never holds more than its mark and the control queue never
\* more than CONTROL_QUEUE_CAPACITY, and every variable keeps its type.
THEOREM TypeCorrect == Spec => []TypeOK
<1>1. IInv => TypeOK
    BY Zenon DEF IInv
<1>. QED
    BY <1>1, Invariance, PTL

\* Frames leave in push order and none twice; and while nobody has closed
\* and the socket works, every frame push reported Queued is on the wire, in
\* the writer's hand or in the mailbox, unless a later push evicted it.
THEOREM NothingLostTheorem == Spec => []NothingLost
<1>1. IInv => NothingLost
    BY Zenon DEF IInv
<1>. QED
    BY <1>1, Invariance, PTL

\* The close code in the Closed event is that of the first closer to reach
\* the latch, and the peer's code is never reported once the reader has seen
\* a close of ours.
THEOREM FirstCloserTheorem == Spec => []ReportsFirstCloser
<1>1. IInv => ReportsFirstCloser
    BY Zenon DEF IInv
<1>. QED
    BY <1>1, Invariance, PTL
=============================================================================
