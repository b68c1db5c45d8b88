----------------------------- MODULE LinksProbeProofs -----------------------------
(***************************************************************************)
(* The mesh between two nodes and its failure detector.  Links: any two    *)
(* configurations, any number of connections and faults, and any queue     *)
(* limit.  Probe: any set of nodes, over a network that loses, doubles and *)
(* reorders.  The two share no state: a theorem speaks of one              *)
(* specification.                                                          *)
(***************************************************************************)
EXTENDS Links, Probe, TLAPS

-----------------------------------------------------------------------------
(* Probe: direct and indirect probes, the pending map and the replay mark. *)

\* A packet sent by probe_loop, under the sender's own seq.
Own(p) == p.kind = "pingReq" \/ (p.kind = "ping" /\ p.aux = p.from)

\* A running probe has a target, and no node is without an incarnation.
LoopFacts ==
    \A n \in Members : /\ phase[n] # "sleep" => target[n] \in Members
                       /\ inc[n] >= 1

\* Every packet belongs to a probe its origin has started; one of the origin's
\* latest probe is about the target of that probe.
OfAProbe(p) ==
    /\ p.stamp.inc >= 1 /\ p.stamp.inc <= inc[p.from]
    /\ p.kind = "ping" =>
         /\ p.stamp.seq <= seq[p.aux]
         /\ p.stamp.seq = seq[p.aux] => p.to = target[p.aux]
         /\ p.aux = p.from \/ p.to \in relayed[p.from]
    /\ p.kind = "pingReq" =>
         /\ p.from # p.to
         /\ p.stamp.seq <= seq[p.from]
         /\ p.stamp.seq = seq[p.from] => p.aux = target[p.from] /\ p.to # target[p.from]
    /\ p.kind = "ack" =>
         /\ p.stamp.seq <= seq[p.to]
         /\ p.stamp.seq = seq[p.to] => p.from = target[p.to]

PacketFacts == \A p \in net : OfAProbe(p)

\* The PING of a node's latest probe is the only one of its seq, and no packet
\* of an earlier probe has a higher incarnation.
OwnFacts ==
    \A p, q \in net :
      /\ p.kind = "ping" /\ p.aux = p.from /\ p.stamp.seq = seq[p.from]
      /\ q.from = p.from /\ Own(q)
      => /\ q.kind = "ping" /\ q.stamp.seq = p.stamp.seq => q = p
         /\ q.stamp.seq < p.stamp.seq => q.stamp.inc <= p.stamp.inc

\* A mark is the stamp of a packet that was accepted ...
MarkFacts ==
    \A n, m \in Members :
      \/ mark[n][m] = Stamp(0, 0)
      \/ \E q \in handled : q.from = m /\ q.to = n /\ q.stamp = mark[n][m]

\* ... and no accepted packet is above it.
HandledFacts ==
    \A q \in handled : q.kind # "ack" /\ ~Above(q.stamp, mark[q.to][q.from])

\* The inductive invariant.
ProbeIInv ==
    /\ ProbeTypeOK /\ LoopFacts /\ PacketFacts /\ OwnFacts
    /\ MarkFacts /\ HandledFacts
    /\ PendingIsCurrent /\ VerdictFollowsAnswers

-----------------------------------------------------------------------------
\* The fields of a packet have their types.
LEMMA PacketTypes ==
    ASSUME NEW p \in Packet
    PROVE  /\ p.kind \in {"ping", "pingReq", "ack"}
           /\ p.from \in Members /\ p.to \in Members /\ p.aux \in Members
           /\ p.stamp \in [inc : Nat, seq : Nat]
           /\ p.stamp.inc \in Nat /\ p.stamp.seq \in Nat
BY DEF Packet

\* A new mark above the old one is above whatever the old one was not below.
LEMMA AboveOrder ==
    ASSUME NEW a \in [inc : Nat, seq : Nat], NEW b \in [inc : Nat, seq : Nat],
           NEW c \in [inc : Nat, seq : Nat], ~Above(a, b), Above(c, b)
    PROVE  ~Above(a, c) /\ ~Above(c, c)
BY DEF Above

-----------------------------------------------------------------------------
\* What is known of the packets outlives a step that starts no probe and sends
\* nothing.
LEMMA PacketsKept ==
    ASSUME ProbeTypeOK, PacketFacts, OwnFacts, UNCHANGED <<net, seq, target, relayed>>,
           \A n \in Members : inc'[n] \in Nat /\ inc[n] <= inc'[n]
    PROVE  PacketFacts' /\ OwnFacts'
<1>1. OwnFacts'
    BY Zenon DEF OwnFacts, Own
<1>2. ASSUME NEW p \in net'
      PROVE  p.stamp.inc >= 1 /\ p.stamp.inc <= inc'[p.from]
  <2>1. p \in net /\ p \in Packet
    BY <1>2 DEF ProbeTypeOK
  <2>2. p.from \in Members /\ p.stamp.inc \in Nat
    BY <2>1, PacketTypes
  <2>3. p.stamp.inc >= 1 /\ p.stamp.inc <= inc[p.from]
    BY <2>1, Zenon DEF PacketFacts, OfAProbe
  <2>. QED
    BY <2>2, <2>3 DEF ProbeTypeOK
<1>. QED
    BY <1>1, <1>2, Zenon DEF PacketFacts, OfAProbe

\* The marks and what they were set by outlive a step that accepts nothing.
LEMMA MarksKept ==
    ASSUME MarkFacts, HandledFacts, UNCHANGED <<mark, handled>>
    PROVE  MarkFacts' /\ HandledFacts'
BY DEF MarkFacts, HandledFacts

\* A PING that is accepted for the first time or a PING-REQ moves the mark up
\* to itself, and it was not accepted before.
LEMMA AcceptStep ==
    ASSUME ProbeTypeOK, MarkFacts, HandledFacts, NEW n \in Members, NEW pkt \in net,
           pkt.kind # "ack", Accept(n, pkt)
    PROVE  /\ MarkFacts' /\ HandledFacts'
           /\ pkt \in handled' \ handled
           /\ mark' \in [Members -> [Members -> [inc : Nat, seq : Nat]]]
<1>1. /\ pkt \in Packet /\ pkt.to = n /\ pkt.from \in Members
      /\ pkt.stamp \in [inc : Nat, seq : Nat]
      /\ Above(pkt.stamp, mark[n][pkt.from])
      /\ mark' = [mark EXCEPT ![n][pkt.from] = pkt.stamp]
      /\ handled' = handled \cup {pkt}
    BY PacketTypes, Zenon DEF Accept, Fresh, ProbeTypeOK
<1>2. /\ mark' \in [Members -> [Members -> [inc : Nat, seq : Nat]]]
      /\ mark'[n][pkt.from] = pkt.stamp
      /\ \A k, m \in Members : ~(k = n /\ m = pkt.from) => mark'[k][m] = mark[k][m]
    BY <1>1 DEF ProbeTypeOK
<1>3. pkt \notin handled
    BY <1>1, Zenon DEF HandledFacts
<1>4. MarkFacts'
  <2>. SUFFICES ASSUME NEW k \in Members, NEW m \in Members
                PROVE  \/ mark'[k][m] = Stamp(0, 0)
                       \/ \E q \in handled' : q.from = m /\ q.to = k /\ q.stamp = mark'[k][m]
    BY DEF MarkFacts
  <2>1. CASE k = n /\ m = pkt.from
    BY <1>1, <1>2, <2>1, Zenon
  <2>2. CASE ~(k = n /\ m = pkt.from)
    <3>1. mark'[k][m] = mark[k][m]
      BY <1>2, <2>2, Zenon
    <3>2. \/ mark[k][m] = Stamp(0, 0)
          \/ \E q \in handled : q.from = m /\ q.to = k /\ q.stamp = mark[k][m]
      BY ZenonT(40) DEF MarkFacts
    <3>. QED
      BY <1>1, <3>1, <3>2, Zenon
  <2>. QED
    BY <2>1, <2>2, Zenon
<1>5. ASSUME NEW q \in handled'
      PROVE  q.kind # "ack" /\ ~Above(q.stamp, mark'[q.to][q.from])
  <2>1. CASE q = pkt
    BY <1>1, <1>2, <2>1 DEF Above
  <2>2. CASE q \in handled
    <3>1. /\ q.to \in Members /\ q.from \in Members /\ q.stamp \in [inc : Nat, seq : Nat]
      BY <2>2, PacketTypes DEF ProbeTypeOK
    <3>2. q.kind # "ack" /\ ~Above(q.stamp, mark[q.to][q.from])
      BY <2>2, Zenon DEF HandledFacts
    <3>3. CASE q.to = n /\ q.from = pkt.from
      <4>1. mark[n][pkt.from] \in [inc : Nat, seq : Nat]
        BY <1>1 DEF ProbeTypeOK
      <4>. QED
        BY <1>1, <1>2, <3>1, <3>2, <3>3, <4>1, AboveOrder
    <3>4. CASE ~(q.to = n /\ q.from = pkt.from)
      BY <1>2, <3>1, <3>2, <3>4, Zenon
    <3>. QED
      BY <3>3, <3>4, Zenon
  <2>. QED
    BY <1>1, <1>5, <2>1, <2>2, Zenon
<1>. QED
    BY <1>1, <1>2, <1>3, <1>4, <1>5, Zenon DEF HandledFacts

\* A probe starts: its PING is the first packet of its seq.
LEMMA StartProbeStep ==
    ASSUME ProbeIInv, NEW n \in Members, StartProbe(n)
    PROVE  ProbeIInv'
<1>0. ProbeTypeOK /\ LoopFacts /\ PacketFacts /\ OwnFacts
    BY DEF ProbeIInv
<1>a. PICK late \in SUBSET {p \in Members : state[n][p] = "Suspect"} :
      \E t \in ProbeTargets(n, late) :
        /\ state' = Expired(n, late)
        /\ target' = [target EXCEPT ![n] = t]
        /\ seq' = [seq EXCEPT ![n] = @ + 1]
        /\ pending' = [pending EXCEPT ![n] = @ \cup {[seq |-> seq[n] + 1, of |-> t]}]
        /\ net' = net \cup {Ping(n, t, seq[n] + 1, inc[n], n)}
    BY Zenon DEF StartProbe
<1>1. PICK t \in ProbeTargets(n, late) :
        /\ state' = Expired(n, late)
        /\ target' = [target EXCEPT ![n] = t]
        /\ seq' = [seq EXCEPT ![n] = @ + 1]
        /\ pending' = [pending EXCEPT ![n] = @ \cup {[seq |-> seq[n] + 1, of |-> t]}]
        /\ net' = net \cup {Ping(n, t, seq[n] + 1, inc[n], n)}
    BY <1>a, Zenon
<1>2. /\ phase[n] = "sleep"
      /\ phase' = [phase EXCEPT ![n] = "direct"]
      /\ heard' = [heard EXCEPT ![n] = FALSE]
      /\ UNCHANGED <<up, inc, mark, handled, relayed>>
    BY Zenon DEF StartProbe
<1>3. t \in Members /\ inc[n] \in Nat /\ seq[n] \in Nat /\ seq[n] + 1 \in Nat /\ inc[n] >= 1
    BY <1>0 DEF ProbeTargets, ProbeTypeOK, LoopFacts
<1>. DEFINE P == Ping(n, t, seq[n] + 1, inc[n], n)
<1>4. /\ P \in Packet /\ P.kind = "ping" /\ P.from = n /\ P.to = t /\ P.aux = n
      /\ P.stamp.inc = inc[n] /\ P.stamp.seq = seq[n] + 1
    BY <1>3, Zenon DEF Ping, Stamp, Packet
<1>5. net' = net \cup {P}
    BY <1>1, Zenon
<1>. HIDE DEF P
<1>6. /\ seq'[n] = seq[n] + 1 /\ target'[n] = t
      /\ \A m \in Members \ {n} : seq'[m] = seq[m] /\ target'[m] = target[m]
    BY <1>0, <1>1, Zenon DEF ProbeTypeOK
<1>7. ProbeTypeOK'
  <2>1. state' \in [Members -> [Members -> {"Alive", "Suspect", "Dead"}]]
    BY <1>0, <1>1, ZenonT(40) DEF Expired, ProbeTypeOK
  <2>2. pending' \in [Members -> SUBSET [seq : Nat, of : Members]]
    BY <1>0, <1>1, <1>3 DEF ProbeTypeOK
  <2>3. net' \subseteq Packet /\ handled' \subseteq net'
    BY <1>0, <1>2, <1>4, <1>5, Zenon DEF ProbeTypeOK
  <2>4. /\ phase' \in [Members -> {"sleep", "direct", "indirect"}]
        /\ target' \in [Members -> Members \cup {NoNode}]
        /\ seq' \in [Members -> Nat] /\ heard' \in [Members -> BOOLEAN]
    BY <1>0, <1>1, <1>2, <1>3, Zenon DEF ProbeTypeOK
  <2>. QED
    BY <1>0, <1>2, <2>1, <2>2, <2>3, <2>4, Zenon DEF ProbeTypeOK
<1>8. LoopFacts'
    BY <1>0, <1>2, <1>3, <1>6, Zenon DEF LoopFacts, ProbeTypeOK
<1>9. PacketFacts'
  <2>. SUFFICES ASSUME NEW p \in net' PROVE OfAProbe(p)'
    BY Zenon DEF PacketFacts
  <2>1. CASE p = P
    BY <1>2, <1>3, <1>4, <1>6, <2>1 DEF OfAProbe
  <2>2. CASE p \in net
    <3>1. /\ p.from \in Members /\ p.to \in Members /\ p.aux \in Members /\ p.stamp.seq \in Nat
      BY <1>0, <2>2, PacketTypes DEF ProbeTypeOK
    <3>2. \A m \in Members : p.stamp.seq <= seq[m] =>
            /\ p.stamp.seq <= seq'[m]
            /\ p.stamp.seq = seq'[m] => p.stamp.seq = seq[m] /\ target'[m] = target[m]
      <4>1. ASSUME NEW m \in Members \ {n} PROVE seq'[m] = seq[m] /\ target'[m] = target[m]
        BY <1>6, <4>1
      <4>. QED
        BY <1>3, <1>6, <3>1, <4>1
    <3>. QED
      BY <1>0, <1>2, <2>2, <3>1, <3>2, ZenonT(40) DEF PacketFacts, OfAProbe
  <2>. QED
    BY <1>5, <2>1, <2>2, Zenon
<1>10. OwnFacts'
  <2>0. ASSUME NEW q \in net, q.from = n, Own(q)
        PROVE  q.stamp.seq \in Nat /\ q.stamp.seq <= seq[n] /\ q.stamp.inc <= inc[n]
    BY <1>0, <2>0, PacketTypes, Zenon DEF Own, PacketFacts, OfAProbe, ProbeTypeOK
  <2>. SUFFICES ASSUME NEW p \in net', NEW q \in net',
                       p.kind = "ping", p.aux = p.from, p.stamp.seq = seq'[p.from],
                       q.from = p.from, Own(q)
                PROVE  /\ q.kind = "ping" /\ q.stamp.seq = p.stamp.seq => q = p
                       /\ q.stamp.seq < p.stamp.seq => q.stamp.inc <= p.stamp.inc
    BY Zenon DEF OwnFacts, Own
  <2>1. CASE p = P /\ q = P
    BY <1>3, <1>4, <2>1
  <2>2. CASE p = P /\ q \in net
    BY <1>3, <1>4, <2>0, <2>2
  <2>3. CASE p \in net /\ p.from = n
    <3>1. Own(p)
      BY DEF Own
    <3>. QED
      BY <1>3, <1>6, <2>0, <2>3, <3>1
  <2>4. CASE p \in net /\ p.from # n
    <3>1. q \in net /\ p.from \in Members
      BY <1>0, <1>4, <1>5, <2>4, PacketTypes, Zenon DEF ProbeTypeOK
    <3>. QED
      BY <1>0, <1>6, <2>4, <3>1, Zenon DEF OwnFacts
  <2>. QED
    BY <1>5, <2>1, <2>2, <2>3, <2>4
<1>11. MarkFacts' /\ HandledFacts'
    BY <1>2, MarksKept, Zenon DEF ProbeIInv
<1>12. PendingIsCurrent' /\ VerdictFollowsAnswers'
  <2>1. pending[n] = {}
    BY <1>2, Zenon DEF ProbeIInv, PendingIsCurrent
  <2>2. /\ pending'[n] = {[seq |-> seq[n] + 1, of |-> t]} /\ phase'[n] # "sleep" /\ ~heard'[n]
        /\ \A m \in Members \ {n} : /\ pending'[m] = pending[m] /\ phase'[m] = phase[m]
                                   /\ heard'[m] = heard[m]
    BY <1>0, <1>1, <1>2, <2>1, Zenon DEF ProbeTypeOK
  <2>3. PendingIsCurrent'
    BY <1>6, <2>2, ZenonT(40) DEF ProbeIInv, PendingIsCurrent, Current
  <2>4. VerdictFollowsAnswers'
    <3>. SUFFICES ASSUME NEW m \in Members, phase'[m] # "sleep"
                  PROVE  (\E x \in pending'[m] : x.seq = seq'[m]) <=> ~heard'[m]
      BY DEF VerdictFollowsAnswers, Waiting
    <3>1. CASE m = n
      <4>1. \E x \in pending'[n] : x.seq = seq'[n]
        <5>1. [seq |-> seq[n] + 1, of |-> t] \in pending'[n]
          BY <2>2, Zenon
        <5>. QED
          BY <1>6, <5>1, Zenon
      <4>. QED
        BY <2>2, <3>1, <4>1, Zenon
    <3>2. CASE m # n
      <4>1. /\ pending'[m] = pending[m] /\ phase'[m] = phase[m] /\ heard'[m] = heard[m]
            /\ seq'[m] = seq[m]
        BY <1>6, <2>2, <3>2, Zenon
      <4>2. phase[m] # "sleep" => ((\E x \in pending[m] : x.seq = seq[m]) <=> ~heard[m])
        BY Zenon DEF ProbeIInv, VerdictFollowsAnswers, Waiting
      <4>. QED
        BY <4>1, <4>2, Zenon
    <3>. QED
      BY <3>1, <3>2, Zenon
  <2>. QED
    BY <2>3, <2>4, Zenon
<1>. QED
    BY <1>7, <1>8, <1>9, <1>10, <1>11, <1>12, Zenon DEF ProbeIInv

\* Nobody is left to ping, or a node crashes.
LEMMA IdleStep ==
    ASSUME ProbeIInv, NEW n \in Members, NobodyToProbe(n) \/ Crash(n)
    PROVE  ProbeIInv'
<1>1. /\ UNCHANGED <<inc, loopVars, mark, net, handled, relayed>>
      /\ up' \subseteq Members
      /\ state' \in [Members -> [Members -> {"Alive", "Suspect", "Dead"}]]
  <2>1. CASE NobodyToProbe(n)
    <3>1. PICK late : state' = Expired(n, late)
      BY <2>1, Zenon DEF NobodyToProbe
    <3>2. state' \in [Members -> [Members -> {"Alive", "Suspect", "Dead"}]]
      BY <3>1, Zenon DEF Expired, ProbeIInv, ProbeTypeOK
    <3>. QED
      BY <2>1, <3>2 DEF NobodyToProbe, ProbeIInv, ProbeTypeOK
  <2>2. CASE Crash(n)
    BY <2>2, Zenon DEF Crash, ProbeIInv, ProbeTypeOK
  <2>. QED
    BY <2>1, <2>2, Zenon
<1>2. ProbeTypeOK'
    BY <1>1, Zenon DEF ProbeIInv, ProbeTypeOK, loopVars
<1>3. PacketFacts' /\ OwnFacts'
    BY <1>1, PacketsKept DEF ProbeIInv, ProbeTypeOK, loopVars
<1>4. MarkFacts' /\ HandledFacts'
    BY <1>1, MarksKept DEF ProbeIInv
<1>5. LoopFacts' /\ PendingIsCurrent' /\ VerdictFollowsAnswers'
    BY <1>1, Zenon DEF ProbeIInv, LoopFacts, PendingIsCurrent, VerdictFollowsAnswers, Waiting, Current,
                       loopVars
<1>. QED
    BY <1>2, <1>3, <1>4, <1>5, Zenon DEF ProbeIInv

\* A new incarnation leaves the packets of the old one behind.
LEMMA RefuteStep ==
    ASSUME ProbeIInv, NEW n \in Members, Refute(n)
    PROVE  ProbeIInv'
<1>1. /\ UNCHANGED <<up, loopVars, mark, net, handled, relayed>>
      /\ inc' = [inc EXCEPT ![n] = @ + 1]
      /\ state' = [m \in Members |-> [state[m] EXCEPT ![n] = "Alive"]]
    BY Zenon DEF Refute
<1>2. inc' \in [Members -> Nat] /\ \A m \in Members : inc'[m] \in Nat /\ inc[m] <= inc'[m]
    BY <1>1 DEF ProbeIInv, ProbeTypeOK
<1>3. state' \in [Members -> [Members -> {"Alive", "Suspect", "Dead"}]]
    BY <1>1, Zenon DEF ProbeIInv, ProbeTypeOK
<1>4. ProbeTypeOK'
    BY <1>1, <1>2, <1>3, Zenon DEF ProbeIInv, ProbeTypeOK, loopVars
<1>5. PacketFacts' /\ OwnFacts'
    BY <1>1, <1>2, PacketsKept, Zenon DEF ProbeIInv, loopVars
<1>6. MarkFacts' /\ HandledFacts'
    BY <1>1, MarksKept, Zenon DEF ProbeIInv
<1>7. LoopFacts'
    BY <1>1, <1>2 DEF ProbeIInv, LoopFacts, ProbeTypeOK, loopVars
<1>8. PendingIsCurrent' /\ VerdictFollowsAnswers'
    BY <1>1, Zenon DEF ProbeIInv, PendingIsCurrent, VerdictFollowsAnswers, Waiting, Current, loopVars
<1>. QED
    BY <1>4, <1>5, <1>6, <1>7, <1>8, Zenon DEF ProbeIInv

\* The helpers are asked under the seq of the running probe, for its target.
LEMMA DirectTimeoutStep ==
    ASSUME ProbeIInv, NEW n \in Members, DirectTimeout(n)
    PROVE  ProbeIInv'
<1>0. ProbeTypeOK /\ LoopFacts /\ PacketFacts /\ OwnFacts
    BY DEF ProbeIInv
<1>1. /\ phase[n] = "direct"
      /\ UNCHANGED <<up, inc, state, target, seq, pending, heard, mark, handled, relayed>>
      /\ phase' \in [Members -> {"sleep", "direct", "indirect"}]
      /\ \A m \in Members \ {n} : phase'[m] = phase[m]
      /\ phase'[n] = "sleep" => ~Waiting(n)
    BY <1>0, Zenon DEF DirectTimeout, ProbeTypeOK
<1>2. PICK hs \in SUBSET Helpers(n) :
        net' = net \cup {PingReq(n, h, seq[n], inc[n], target[n]) : h \in hs}
  <2>1. CASE UNCHANGED net
    <3>1. net' = net \cup {PingReq(n, h, seq[n], inc[n], target[n]) : h \in {}}
      BY <2>1
    <3>. QED
      BY <3>1, Zenon
  <2>2. CASE ~UNCHANGED net
    BY <2>2, Zenon DEF DirectTimeout
  <2>. QED
    BY <2>1, <2>2
<1>3. /\ target[n] \in Members /\ inc[n] \in Nat /\ seq[n] \in Nat /\ inc[n] >= 1
      /\ \A h \in hs : h \in Members /\ h # n /\ h # target[n]
    BY <1>0, <1>1, Zenon DEF ProbeTypeOK, LoopFacts, Helpers
<1>4. ASSUME NEW p \in net', p \notin net
      PROVE  /\ p \in Packet /\ p.kind = "pingReq" /\ p.from = n /\ p.to \in Members \ {n, target[n]}
             /\ p.aux = target[n] /\ p.stamp.inc = inc[n] /\ p.stamp.seq = seq[n]
  <2>1. PICK h \in hs : p = PingReq(n, h, seq[n], inc[n], target[n])
    BY <1>2, <1>4, Zenon
  <2>. QED
    BY <1>3, <2>1 DEF PingReq, Stamp, Packet
<1>5. ProbeTypeOK'
  <2>1. net' \subseteq Packet /\ handled' \subseteq net'
    BY <1>0, <1>1, <1>2, <1>4, Zenon DEF ProbeTypeOK
  <2>. QED
    BY <1>0, <1>1, <2>1, Zenon DEF ProbeTypeOK
<1>6. LoopFacts'
    BY <1>0, <1>1, <1>3, Zenon DEF LoopFacts
<1>7. PacketFacts'
  <2>. SUFFICES ASSUME NEW p \in net' PROVE OfAProbe(p)'
    BY DEF PacketFacts
  <2>1. CASE p \in net
    BY <1>0, <1>1, <2>1, Zenon DEF PacketFacts, OfAProbe
  <2>2. CASE p \notin net
    BY <1>1, <1>3, <1>4, <2>2 DEF OfAProbe
  <2>. QED
    BY <2>1, <2>2, Zenon
<1>8. OwnFacts'
  <2>. SUFFICES ASSUME NEW p \in net', NEW q \in net',
                       p.kind = "ping", p.aux = p.from, p.stamp.seq = seq[p.from],
                       q.from = p.from, Own(q)
                PROVE  /\ q.kind = "ping" /\ q.stamp.seq = p.stamp.seq => q = p
                       /\ q.stamp.seq < p.stamp.seq => q.stamp.inc <= p.stamp.inc
    BY <1>1, Zenon DEF OwnFacts, Own
  <2>1. p \in net
    BY <1>4
  <2>2. CASE q \in net
    BY <1>0, <2>1, <2>2, Zenon DEF OwnFacts
  <2>3. CASE q \notin net
    BY <1>3, <1>4, <2>3
  <2>. QED
    BY <2>2, <2>3, Zenon
<1>9. MarkFacts' /\ HandledFacts'
    BY <1>1, MarksKept, Zenon DEF ProbeIInv
<1>10. PendingIsCurrent'
    BY <1>1 DEF ProbeIInv, PendingIsCurrent, Current, Waiting
<1>11. VerdictFollowsAnswers'
    BY <1>1, Zenon DEF ProbeIInv, VerdictFollowsAnswers, Waiting
<1>. QED
    BY <1>5, <1>6, <1>7, <1>8, <1>9, <1>10, <1>11, Zenon DEF ProbeIInv

\* The second timeout takes the probe out of pending.
LEMMA IndirectTimeoutStep ==
    ASSUME ProbeIInv, NEW n \in Members, IndirectTimeout(n)
    PROVE  ProbeIInv'
<1>1. /\ phase[n] = "indirect"
      /\ pending' = [pending EXCEPT ![n] = {x \in @ : x.seq # seq[n]}]
      /\ phase' = [phase EXCEPT ![n] = "sleep"]
      /\ UNCHANGED <<up, inc, target, seq, heard, mark, net, handled, relayed>>
    BY Zenon DEF IndirectTimeout
<1>2. state' \in [Members -> [Members -> {"Alive", "Suspect", "Dead"}]]
  <2>1. target[n] \in Members
    BY <1>1, Zenon DEF ProbeIInv, LoopFacts
  <2>. QED
    BY <2>1, Zenon DEF IndirectTimeout, ProbeIInv, ProbeTypeOK
<1>3. pending' \in [Members -> SUBSET [seq : Nat, of : Members]]
    BY <1>1, Zenon DEF ProbeIInv, ProbeTypeOK
<1>4. phase' \in [Members -> {"sleep", "direct", "indirect"}]
    BY <1>1 DEF ProbeIInv, ProbeTypeOK
<1>5. ProbeTypeOK'
    BY <1>1, <1>2, <1>3, <1>4, Zenon DEF ProbeIInv, ProbeTypeOK
<1>6. /\ phase'[n] = "sleep" /\ pending'[n] = {x \in pending[n] : x.seq # seq[n]}
      /\ \A m \in Members \ {n} : phase'[m] = phase[m] /\ pending'[m] = pending[m]
    BY <1>1, Zenon DEF ProbeIInv, ProbeTypeOK
<1>7. PacketFacts' /\ OwnFacts'
  <2>1. \A m \in Members : inc'[m] \in Nat /\ inc[m] <= inc'[m]
    BY <1>1 DEF ProbeIInv, ProbeTypeOK
  <2>. QED
    BY <1>1, <2>1, PacketsKept, Zenon DEF ProbeIInv
<1>8. MarkFacts' /\ HandledFacts'
    BY <1>1, MarksKept, Zenon DEF ProbeIInv
<1>9. LoopFacts'
    BY <1>1, <1>6, Zenon DEF ProbeIInv, LoopFacts
<1>10. PendingIsCurrent'
  <2>1. \A x \in pending[n] : x.seq = seq[n]
    BY <1>1 DEF ProbeIInv, PendingIsCurrent, Current
  <2>. QED
    BY <1>1, <1>6, <2>1, Zenon DEF ProbeIInv, PendingIsCurrent, Current
<1>11. VerdictFollowsAnswers'
  <2>. SUFFICES ASSUME NEW m \in Members, phase'[m] # "sleep"
                PROVE  (\E x \in pending'[m] : x.seq = seq'[m]) <=> ~heard'[m]
    BY Zenon DEF VerdictFollowsAnswers, Waiting
  <2>1. phase[m] # "sleep" /\ pending'[m] = pending[m]
    BY <1>6, Zenon
  <2>. QED
    BY <1>1, <2>1, Zenon DEF ProbeIInv, VerdictFollowsAnswers, Waiting
<1>. QED
    BY <1>5, <1>7, <1>8, <1>9, <1>10, <1>11, Zenon DEF ProbeIInv

\* An ACK that finds its entry is an answer of the target to the running
\* probe.
LEMMA RecvAckMatches ==
    ASSUME ProbeIInv, NEW n \in Members, NEW pkt \in net, pkt.kind = "ack", pkt.to = n,
           NEW x \in pending[n], x.seq = pkt.stamp.seq
    PROVE  /\ phase[n] # "sleep" /\ pending[n] = {x} /\ x = Current(n)
           /\ pkt.stamp.seq = seq[n] /\ pkt.from = target[n] /\ x.of = pkt.from
           /\ Waiting(n)
<1>1. phase[n] # "sleep" /\ pending[n] = {x} /\ x = Current(n)
    BY Zenon DEF ProbeIInv, PendingIsCurrent
<1>2. x.seq = seq[n] /\ x.of = target[n]
    BY <1>1, Zenon DEF Current
<1>3. pkt.from = target[n]
    BY <1>2, Zenon DEF ProbeIInv, PacketFacts, OfAProbe
<1>. QED
    BY <1>1, <1>2, <1>3, Zenon DEF Waiting

\* That ACK ends the wait.
LEMMA RecvAckStep ==
    ASSUME ProbeIInv, NEW n \in Members, NEW pkt \in net, RecvAck(n, pkt)
    PROVE  ProbeIInv'
<1>1. /\ pkt.kind = "ack" /\ pkt.to = n
      /\ heard' = [heard EXCEPT ![n] =
                     @ \/ (pkt.stamp.seq = seq[n] /\ pkt.from = target[n])]
      /\ UNCHANGED <<up, inc, phase, target, seq, mark, net, handled, relayed>>
    BY DEF RecvAck
<1>2. PICK x \in pending[n] :
        /\ x.seq = pkt.stamp.seq
        /\ pending' = [pending EXCEPT ![n] = @ \ {x}]
        /\ state' = IF x.of = pkt.from THEN Cleared(n, pkt.from) ELSE state
    BY Zenon DEF RecvAck
<1>3. /\ phase[n] # "sleep" /\ pending[n] = {x}
      /\ pkt.stamp.seq = seq[n] /\ pkt.from = target[n]
    BY <1>1, <1>2, RecvAckMatches, Zenon
<1>4. /\ pending'[n] = {} /\ \A m \in Members \ {n} : pending'[m] = pending[m]
      /\ pending' \in [Members -> SUBSET [seq : Nat, of : Members]]
    BY <1>2, <1>3, Zenon DEF ProbeIInv, ProbeTypeOK
<1>5. /\ heard'[n] /\ \A m \in Members \ {n} : heard'[m] = heard[m]
      /\ heard' \in [Members -> BOOLEAN]
  <2>1. heard' = [heard EXCEPT ![n] = TRUE]
    BY <1>1, <1>3, Zenon
  <2>. QED
    BY <2>1, Zenon DEF ProbeIInv, ProbeTypeOK
<1>6. state' \in [Members -> [Members -> {"Alive", "Suspect", "Dead"}]]
  <2>1. pkt.from \in Members
    BY PacketTypes DEF ProbeIInv, ProbeTypeOK
  <2>. QED
    BY <1>2, <2>1 DEF Cleared, ProbeIInv, ProbeTypeOK
<1>7. ProbeTypeOK'
    BY <1>1, <1>4, <1>5, <1>6, Zenon DEF ProbeIInv, ProbeTypeOK
<1>8. PacketFacts' /\ OwnFacts'
  <2>1. \A m \in Members : inc'[m] \in Nat /\ inc[m] <= inc'[m]
    BY <1>1 DEF ProbeIInv, ProbeTypeOK
  <2>. QED
    BY <1>1, <2>1, PacketsKept, Zenon DEF ProbeIInv
<1>9. LoopFacts' /\ MarkFacts' /\ HandledFacts'
    BY <1>1, MarksKept, Zenon DEF ProbeIInv, LoopFacts
<1>10. PendingIsCurrent'
    BY <1>1, <1>4, Zenon DEF ProbeIInv, PendingIsCurrent, Current
<1>11. VerdictFollowsAnswers'
  <2>. SUFFICES ASSUME NEW m \in Members, phase'[m] # "sleep"
                PROVE  (\E y \in pending'[m] : y.seq = seq'[m]) <=> ~heard'[m]
    BY DEF VerdictFollowsAnswers, Waiting
  <2>1. CASE m = n
    BY <1>4, <1>5, <2>1, Zenon
  <2>2. CASE m # n
    BY <1>1, <1>4, <1>5, <2>2, ZenonT(40) DEF ProbeIInv, VerdictFollowsAnswers, Waiting
  <2>. QED
    BY <2>1, <2>2, Zenon
<1>. QED
    BY <1>7, <1>8, <1>9, <1>10, <1>11, Zenon DEF ProbeIInv

\* A packet that is sent on somebody's behalf or as an answer is not of the
\* sender's own probes.
LEMMA OthersSent ==
    ASSUME OwnFacts, NEW new, net' = net \cup {new}, UNCHANGED seq, ~Own(new)
    PROVE  OwnFacts'
<1>. SUFFICES ASSUME NEW p \in net', NEW q \in net',
                     p.kind = "ping", p.aux = p.from, p.stamp.seq = seq[p.from],
                     q.from = p.from, Own(q)
              PROVE  /\ q.kind = "ping" /\ q.stamp.seq = p.stamp.seq => q = p
                     /\ q.stamp.seq < p.stamp.seq => q.stamp.inc <= p.stamp.inc
    BY Zenon DEF OwnFacts, Own
<1>1. Own(p)
    BY Zenon DEF Own
<1>2. p \in net /\ q \in net
    BY <1>1
<1>. QED
    BY <1>2, Zenon DEF OwnFacts

\* A PING is accepted and answered to the origin of its probe.
LEMMA RecvPingStep ==
    ASSUME ProbeIInv, NEW n \in Members, NEW pkt \in net, RecvPing(n, pkt)
    PROVE  ProbeIInv'
<1>0. ProbeTypeOK /\ LoopFacts /\ PacketFacts /\ OwnFacts /\ MarkFacts /\ HandledFacts
    BY DEF ProbeIInv
<1>1. /\ pkt.kind = "ping" /\ Accept(n, pkt) /\ pkt.to = n
      /\ state' = Cleared(n, pkt.from)
      /\ UNCHANGED <<up, inc, phase, target, seq, pending, heard, relayed>>
      /\ handled' = handled \cup {pkt}
    BY DEF RecvPing, Accept, loopVars
<1>2. /\ pkt.from \in Members /\ pkt.aux \in Members /\ pkt.stamp.seq \in Nat
      /\ inc[n] \in Nat /\ inc[n] >= 1 /\ seq[pkt.aux] \in Nat
    BY <1>0, PacketTypes DEF ProbeTypeOK, LoopFacts
<1>. DEFINE A == Ack(n, pkt.aux, pkt.stamp.seq, inc[n])
<1>3. /\ A \in Packet /\ A.kind = "ack" /\ A.from = n /\ A.to = pkt.aux
      /\ A.stamp.inc = inc[n] /\ A.stamp.seq = pkt.stamp.seq
    BY <1>2 DEF Ack, Stamp, Packet
<1>4. net' = net \cup {A}
    BY Zenon DEF RecvPing
<1>. HIDE DEF A
<1>5. MarkFacts' /\ HandledFacts' /\ mark' \in [Members -> [Members -> [inc : Nat, seq : Nat]]]
    BY <1>0, <1>1, AcceptStep, Zenon
<1>6. ProbeTypeOK'
  <2>1. state' \in [Members -> [Members -> {"Alive", "Suspect", "Dead"}]]
    BY <1>0, <1>1, <1>2 DEF Cleared, ProbeTypeOK
  <2>2. net' \subseteq Packet /\ handled' \subseteq net'
    BY <1>0, <1>1, <1>3, <1>4, Zenon DEF ProbeTypeOK
  <2>. QED
    BY <1>0, <1>1, <1>5, <2>1, <2>2, Zenon DEF ProbeTypeOK
<1>7. PacketFacts'
  <2>. SUFFICES ASSUME NEW p \in net' PROVE OfAProbe(p)'
    BY DEF PacketFacts
  <2>1. CASE p \in net
    BY <1>0, <1>1, <2>1, Zenon DEF PacketFacts, OfAProbe
  <2>2. CASE p = A
    <3>1. /\ pkt.stamp.seq <= seq[pkt.aux]
          /\ pkt.stamp.seq = seq[pkt.aux] => n = target[pkt.aux]
      BY <1>0, <1>1, Zenon DEF PacketFacts, OfAProbe
    <3>. QED
      BY <1>1, <1>2, <1>3, <2>2, <3>1 DEF OfAProbe
  <2>. QED
    BY <1>4, <2>1, <2>2, Zenon
<1>8. OwnFacts'
  <2>1. ~Own(A)
    BY <1>3, Zenon DEF Own
  <2>. QED
    BY <1>0, <1>1, <1>4, <2>1, OthersSent, Zenon
<1>9. LoopFacts' /\ PendingIsCurrent' /\ VerdictFollowsAnswers'
    BY <1>1, Zenon DEF ProbeIInv, LoopFacts, PendingIsCurrent, VerdictFollowsAnswers, Waiting, Current
<1>. QED
    BY <1>5, <1>6, <1>7, <1>8, <1>9, Zenon DEF ProbeIInv

\* A PING-REQ is accepted and the target pinged under the origin's seq.
LEMMA RecvPingReqStep ==
    ASSUME ProbeIInv, NEW n \in Members, NEW pkt \in net, RecvPingReq(n, pkt)
    PROVE  ProbeIInv'
<1>0. ProbeTypeOK /\ LoopFacts /\ PacketFacts /\ OwnFacts /\ MarkFacts /\ HandledFacts
    BY DEF ProbeIInv
<1>1. /\ pkt.kind = "pingReq" /\ Accept(n, pkt) /\ pkt.to = n
      /\ relayed' = [relayed EXCEPT ![n] = @ \cup {pkt.aux}]
      /\ UNCHANGED <<up, inc, state, phase, target, seq, pending, heard>>
      /\ handled' = handled \cup {pkt}
    BY Zenon DEF RecvPingReq, Accept, loopVars
<1>2. /\ pkt.from \in Members /\ pkt.aux \in Members /\ pkt.stamp.seq \in Nat
      /\ inc[n] \in Nat /\ inc[n] >= 1 /\ seq[pkt.from] \in Nat
    BY <1>0, PacketTypes, Zenon DEF ProbeTypeOK, LoopFacts
<1>. DEFINE P == Ping(n, pkt.aux, pkt.stamp.seq, inc[n], pkt.from)
<1>3. /\ P \in Packet /\ P.kind = "ping" /\ P.from = n /\ P.to = pkt.aux /\ P.aux = pkt.from
      /\ P.stamp.inc = inc[n] /\ P.stamp.seq = pkt.stamp.seq
    BY <1>2, Zenon DEF Ping, Stamp, Packet
<1>4. net' = net \cup {P}
    BY Zenon DEF RecvPingReq
<1>. HIDE DEF P
<1>5. MarkFacts' /\ HandledFacts' /\ mark' \in [Members -> [Members -> [inc : Nat, seq : Nat]]]
    BY <1>0, <1>1, AcceptStep, Zenon
<1>6. /\ relayed' \in [Members -> SUBSET Members] /\ pkt.aux \in relayed'[n]
      /\ \A m \in Members : relayed[m] \subseteq relayed'[m]
    BY <1>0, <1>1, <1>2, ZenonT(40) DEF ProbeTypeOK
<1>7. ProbeTypeOK'
  <2>1. net' \subseteq Packet /\ handled' \subseteq net'
    BY <1>0, <1>1, <1>3, <1>4, Zenon DEF ProbeTypeOK
  <2>. QED
    BY <1>0, <1>1, <1>5, <1>6, <2>1, Zenon DEF ProbeTypeOK
<1>8. /\ n # pkt.from
      /\ pkt.stamp.seq <= seq[pkt.from]
      /\ pkt.stamp.seq = seq[pkt.from] => pkt.aux = target[pkt.from]
    BY <1>0, <1>1, Zenon DEF PacketFacts, OfAProbe
<1>9. PacketFacts'
  <2>. SUFFICES ASSUME NEW p \in net' PROVE OfAProbe(p)'
    BY DEF PacketFacts
  <2>1. CASE p \in net
    <3>1. p.from \in Members
      BY <1>0, <2>1, PacketTypes, Zenon DEF ProbeTypeOK
    <3>. QED
      BY <1>0, <1>1, <1>6, <2>1, <3>1, Zenon DEF PacketFacts, OfAProbe
  <2>2. CASE p = P
    BY <1>1, <1>2, <1>3, <1>6, <1>8, <2>2 DEF OfAProbe
  <2>. QED
    BY <1>4, <2>1, <2>2
<1>10. OwnFacts'
  <2>1. ~Own(P)
    BY <1>3, <1>8, Zenon DEF Own
  <2>. QED
    BY <1>0, <1>1, <1>4, <2>1, OthersSent, Zenon
<1>11. LoopFacts' /\ PendingIsCurrent' /\ VerdictFollowsAnswers'
    BY <1>1, Zenon DEF ProbeIInv, LoopFacts, PendingIsCurrent, VerdictFollowsAnswers, Waiting, Current
<1>. QED
    BY <1>5, <1>7, <1>9, <1>10, <1>11, Zenon DEF ProbeIInv

\* A step that changes nothing.
LEMMA StutterStep ==
    ASSUME ProbeIInv, UNCHANGED probeVars
    PROVE  ProbeIInv'
<1>1. UNCHANGED <<up, inc, state, phase, target, seq, pending, heard, mark, net, handled, relayed>>
    BY DEF probeVars, loopVars
<1>2. ProbeTypeOK'
    BY <1>1, Zenon DEF ProbeIInv, ProbeTypeOK
<1>3. PacketFacts' /\ OwnFacts'
  <2>1. \A m \in Members : inc'[m] \in Nat /\ inc[m] <= inc'[m]
    BY <1>1 DEF ProbeIInv, ProbeTypeOK
  <2>. QED
    BY <1>1, <2>1, PacketsKept, Zenon DEF ProbeIInv
<1>4. MarkFacts' /\ HandledFacts'
    BY <1>1, MarksKept, Zenon DEF ProbeIInv
<1>5. LoopFacts' /\ PendingIsCurrent' /\ VerdictFollowsAnswers'
    BY <1>1, Zenon DEF ProbeIInv, LoopFacts, PendingIsCurrent, VerdictFollowsAnswers, Waiting, Current
<1>. QED
    BY <1>2, <1>3, <1>4, <1>5, Zenon DEF ProbeIInv

-----------------------------------------------------------------------------
\* The invariant holds however packets are lost, delayed, doubled and
\* reordered, and whoever crashes or takes a new incarnation.
THEOREM ProbeInvariance == ProbeSpec => []ProbeIInv
<1>1. ASSUME ProbeInit PROVE ProbeIInv
  <2>1. ProbeTypeOK
    BY <1>1, Zenon DEF ProbeInit, ProbeTypeOK, Stamp
  <2>2. LoopFacts /\ PacketFacts /\ OwnFacts /\ HandledFacts
    BY <1>1 DEF ProbeInit, LoopFacts, PacketFacts, OwnFacts, HandledFacts
  <2>3. MarkFacts
    BY <1>1, Zenon DEF ProbeInit, MarkFacts
  <2>4. PendingIsCurrent /\ VerdictFollowsAnswers
    BY <1>1 DEF ProbeInit, PendingIsCurrent, VerdictFollowsAnswers
  <2>. QED
    BY <2>1, <2>2, <2>3, <2>4, Zenon DEF ProbeIInv
<1>2. ASSUME ProbeIInv, [ProbeNext]_probeVars PROVE ProbeIInv'
    BY <1>2, StartProbeStep, IdleStep, RefuteStep, DirectTimeoutStep, IndirectTimeoutStep,
       RecvPingStep, RecvPingReqStep, RecvAckStep, StutterStep, Zenon DEF ProbeNext
<1>. QED
    BY <1>1, <1>2, PTL DEF ProbeSpec

\* The pending map of probe_loop never holds more than the running probe.
THEOREM PendingTheorem == ProbeSpec => []PendingIsCurrent
    BY ProbeInvariance, PTL DEF ProbeIInv

\* A round of probe_loop suspects its target exactly when no answer of the
\* target has arrived, whoever else's late or relayed answers have.
THEOREM VerdictTheorem == ProbeSpec => []VerdictFollowsAnswers
    BY ProbeInvariance, PTL DEF ProbeIInv

\* accept_stamp does not take a node's own running probe for a replay, unless
\* the node has pinged the same target for others.
THEOREM FreshTheorem == ProbeSpec => []OwnProbeIsFresh
<1>1. ASSUME ProbeIInv PROVE OwnProbeIsFresh
  <2>. SUFFICES ASSUME NEW n \in Members, phase[n] # "sleep", target[n] \notin relayed[n],
                       NEW p \in net, p.kind = "ping", p.from = n, p.to = target[n],
                       p.stamp.seq = seq[n], p \notin handled
                PROVE  Above(p.stamp, mark[target[n]][n])
    BY Zenon DEF OwnProbeIsFresh, Fresh
  <2>1. target[n] \in Members
    BY <1>1, Zenon DEF ProbeIInv, LoopFacts
  <2>2. p.aux = n /\ p.stamp.inc >= 1 /\ p.stamp.inc \in Nat /\ p.stamp.seq \in Nat
    BY <1>1, PacketTypes, Zenon DEF ProbeIInv, ProbeTypeOK, PacketFacts, OfAProbe
  <2>3. CASE mark[target[n]][n] = Stamp(0, 0)
    BY <2>2, <2>3 DEF Above, Stamp
  <2>4. CASE mark[target[n]][n] # Stamp(0, 0)
    <3>1. PICK q \in handled : q.from = n /\ q.to = target[n] /\ q.stamp = mark[target[n]][n]
      BY <1>1, <2>1, <2>4, Zenon DEF ProbeIInv, MarkFacts
    <3>2. /\ q \in net /\ q.kind \in {"ping", "pingReq"}
          /\ q.stamp.inc \in Nat /\ q.stamp.seq \in Nat
      BY <1>1, PacketTypes, Zenon DEF ProbeIInv, ProbeTypeOK, HandledFacts
    <3>3. Own(q)
      BY <1>1, <3>1, <3>2, Zenon DEF ProbeIInv, PacketFacts, OfAProbe, Own
    <3>4. /\ q.kind = "ping" /\ q.stamp.seq = p.stamp.seq => q = p
          /\ q.stamp.seq < p.stamp.seq => q.stamp.inc <= p.stamp.inc
      BY <1>1, <2>2, <3>1, <3>2, <3>3, Zenon DEF ProbeIInv, OwnFacts
    <3>5. q.stamp.seq < p.stamp.seq
      <4>1. q.stamp.seq <= seq[n]
        BY <1>1, <3>1, <3>2, <3>3, Zenon DEF ProbeIInv, PacketFacts, OfAProbe, Own
      <4>2. q.kind = "pingReq" => q.stamp.seq # seq[n]
        BY <1>1, <3>1, <3>2, Zenon DEF ProbeIInv, PacketFacts, OfAProbe
      <4>3. q # p
        BY <3>1
      <4>. QED
        BY <2>2, <3>2, <3>4, <4>1, <4>2, <4>3
    <3>. QED
      BY <2>2, <3>1, <3>2, <3>4, <3>5 DEF Above
  <2>. QED
    BY <2>3, <2>4, Zenon
<1>. QED
    BY <1>1, ProbeInvariance, PTL

\* note_direct_ack clears a suspicion only on new evidence: neither a replayed
\* PING, nor a late answer, nor an answer of somebody else will do.
THEOREM EvidenceTheorem == ProbeSpec => ClearedByFreshEvidence
<1>. DEFINE Evidence(n, p) ==
       \/ \E q \in handled' \ handled : q.kind = "ping" /\ q.from = p /\ q.to = n
       \/ target[n] = p /\ Waiting(n) /\ heard'[n]
       \/ inc'[p] > inc[p]
<1>1. ASSUME ProbeIInv, ProbeNext, NEW n \in Members, NEW p \in Members,
             state[n][p] = "Suspect", state'[n][p] = "Alive"
      PROVE  Evidence(n, p)
  <2>0. /\ ProbeTypeOK /\ MarkFacts /\ HandledFacts
        /\ state \in [Members -> [Members -> {"Alive", "Suspect", "Dead"}]]
    BY <1>1, Zenon DEF ProbeIInv, ProbeTypeOK
  <2>1. ASSUME NEW m \in Members, StartProbe(m) \/ NobodyToProbe(m) PROVE FALSE
    <3>1. PICK late : state' = Expired(m, late)
      BY <2>1, Zenon DEF StartProbe, NobodyToProbe
    <3>. QED
      BY <1>1, <2>0, <3>1, Zenon DEF Expired
  <2>2. ASSUME NEW m \in Members, DirectTimeout(m) \/ Crash(m) PROVE FALSE
    BY <1>1, <2>2, Zenon DEF DirectTimeout, Crash
  <2>3. ASSUME NEW m \in Members, IndirectTimeout(m) PROVE FALSE
    <3>1. \/ state' = state
          \/ state' = [state EXCEPT ![m][target[m]] = "Suspect"]
      BY <2>3, Zenon DEF IndirectTimeout
    <3>. QED
      BY <1>1, <2>0, <3>1
  <2>4. ASSUME NEW m \in Members, Refute(m) PROVE inc'[p] > inc[p]
    <3>1. /\ inc' = [inc EXCEPT ![m] = @ + 1]
          /\ state' = [k \in Members |-> [state[k] EXCEPT ![m] = "Alive"]]
      BY <2>4, Zenon DEF Refute
    <3>2. m = p
      BY <1>1, <2>0, <3>1, Zenon
    <3>. QED
      BY <2>0, <3>1, <3>2 DEF ProbeTypeOK
  <2>5. ASSUME NEW m \in Members, NEW pkt \in net, RecvPing(m, pkt)
        PROVE  \E q \in handled' \ handled : q.kind = "ping" /\ q.from = p /\ q.to = n
    <3>1. /\ state' = Cleared(m, pkt.from) /\ pkt.kind = "ping" /\ pkt.to = m /\ Accept(m, pkt)
          /\ pkt.from \in Members
      BY <2>0, <2>5, PacketTypes, Zenon DEF RecvPing, Accept, ProbeTypeOK
    <3>2. m = n /\ pkt.from = p
      BY <1>1, <2>0, <3>1, Zenon DEF Cleared
    <3>3. pkt \in handled' \ handled
      BY <2>0, <3>1, AcceptStep, Zenon
    <3>. QED
      BY <3>1, <3>2, <3>3, Zenon
  <2>6. ASSUME NEW m \in Members, NEW pkt \in net, RecvPingReq(m, pkt) PROVE FALSE
    BY <1>1, <2>6, Zenon DEF RecvPingReq
  <2>7. ASSUME NEW m \in Members, NEW pkt \in net, RecvAck(m, pkt)
        PROVE  target[n] = p /\ Waiting(n) /\ heard'[n]
    <3>1. PICK x \in pending[m] :
            /\ x.seq = pkt.stamp.seq
            /\ state' = IF x.of = pkt.from THEN Cleared(m, pkt.from) ELSE state
      BY <2>7, Zenon DEF RecvAck
    <3>2. /\ pkt.kind = "ack" /\ pkt.to = m /\ pkt.from \in Members
          /\ heard' = [heard EXCEPT ![m] =
                         @ \/ (pkt.stamp.seq = seq[m] /\ pkt.from = target[m])]
      BY <2>0, <2>7, PacketTypes, Zenon DEF RecvAck, ProbeTypeOK
    <3>3. pkt.from = target[m] /\ pkt.stamp.seq = seq[m] /\ Waiting(m)
      BY <1>1, <3>1, <3>2, RecvAckMatches, Zenon
    <3>4. m = n /\ pkt.from = p
      BY <1>1, <2>0, <3>1, <3>2, Zenon DEF Cleared
    <3>5. heard'[m]
      BY <2>0, <3>2, <3>3, Zenon DEF ProbeTypeOK
    <3>. QED
      BY <3>3, <3>4, <3>5, Zenon
  <2>. QED
    BY <1>1, <2>1, <2>2, <2>3, <2>4, <2>5, <2>6, <2>7, Zenon DEF ProbeNext
<1>2. ProbeIInv /\ [ProbeNext]_probeVars
        => [\A n, p \in Members : state[n][p] = "Suspect" /\ state'[n][p] = "Alive" =>
              \/ \E q \in handled' \ handled : q.kind = "ping" /\ q.from = p /\ q.to = n
              \/ target[n] = p /\ Waiting(n) /\ heard'[n]
              \/ inc'[p] > inc[p]]_probeVars
    BY <1>1, Zenon
<1>. QED
    BY <1>2, ProbeInvariance, PTL DEF ProbeSpec, ClearedByFreshEvidence

-----------------------------------------------------------------------------
(* Links: negotiation, the peer map and its frames.                        *)

Sizes(cfg) == cfg.version \in Nat /\ cfg.maxFrame \in Nat

(* Both ends decide alike on the same two HELLOs: validate_peer_hello      *)
(* refuses at both or at neither, for the same reason, and both speak the  *)
(* same version, features and frame size.                                  *)
THEOREM NegotiationAgrees ==
    ASSUME NEW a, NEW b, Sizes(a), Sizes(b)
    PROVE  /\ Refusal(a, HelloOf(b)) = Refusal(b, HelloOf(a))
           /\ Negotiated(a, HelloOf(b)) = Negotiated(b, HelloOf(a))
<1>1. Lesser(a.version, b.version) = Lesser(b.version, a.version)
  BY SMT DEF Sizes, Lesser
<1>2. Lesser(a.maxFrame, b.maxFrame) = Lesser(b.maxFrame, a.maxFrame)
  BY SMT DEF Sizes, Lesser
<1>3. (a.version - b.version \notin -1..1) <=> (b.version - a.version \notin -1..1)
  BY SMT DEF Sizes
<1>4. a.features \cap b.features = b.features \cap a.features
  OBVIOUS
<1>5. /\ HelloOf(a).id = a.id /\ HelloOf(b).id = b.id
      /\ HelloOf(a).cluster = a.cluster /\ HelloOf(b).cluster = b.cluster
      /\ HelloOf(a).version = a.version /\ HelloOf(b).version = b.version
      /\ HelloOf(a).maxFrame = a.maxFrame /\ HelloOf(b).maxFrame = b.maxFrame
      /\ HelloOf(a).features = a.features /\ HelloOf(b).features = b.features
  BY Zenon DEF HelloOf
<1>6. Refusal(a, HelloOf(b)) = Refusal(b, HelloOf(a))
  BY <1>2, <1>3, <1>5, Zenon DEF Refusal
<1>7. Negotiated(a, HelloOf(b)) = Negotiated(b, HelloOf(a))
  BY <1>1, <1>2, <1>4, <1>5, Zenon DEF Negotiated
<1> QED BY <1>6, <1>7, Zenon

-----------------------------------------------------------------------------
(* The types.  A HELLO that arrives is one of the two nodes', as it was    *)
(* sent or altered; an AUTH is the MAC of such HELLOs.                     *)

Roles == {"initiator", "responder"}
Heard == [id : {Cfg[n].id : n \in Nodes}, cluster : {Cfg[n].cluster : n \in Nodes},
          version : {Cfg[n].version : n \in Nodes}, maxFrame : {Cfg[n].maxFrame : n \in Nodes},
          features : {{}} \cup {Cfg[n].features : n \in Nodes}]
Hellos == {NoHello} \cup Heard
Plain == {Frame("hello", h) : h \in Heard}
           \cup {Frame("challenge", "nonce"), Frame("ping", ""), Frame("pong", "")}
HsType == [role : Roles, peer : Hellos,
           state : {"AwaitingHello", "AwaitingChallenge", "AwaitingAuth", "Done"}]
Auths == {Frame("auth", AuthMac(Cfg[n], hs, hs.role)) : n \in Nodes, hs \in HsType}
QueueType == Seq({Frame("ping", ""), Frame("pong", "")})
EndType ==
    [stage : {"none", "handshake", "spawned", "running"}, hs : HsType,
     inbox : Seq(Plain \cup Auths), eof : BOOLEAN,
     reader : {"off", "reading", "done"}, stop : BOOLEAN, queue : QueueType,
     closed : BOOLEAN, writer : {"off", "wait"}, permit : BOOLEAN, late : BOOLEAN]
Pairs == [Nodes -> EndType]

(* The AUTH an end with handshake hs has sent: an initiator that has seen  *)
(* the challenge, a responder that is through.                             *)
AuthSent(n, hs) ==
    IF hs.state = "Done" \/ (hs.role = "initiator" /\ hs.state = "AwaitingAuth")
      THEN {Frame("auth", AuthMac(Cfg[n], hs, hs.role))} ELSE {}

(* The invariant of a connection, with p its two ends.                     *)
Vacant(p) == \A n \in Nodes : p[n].stage = "none"

HandshakeInv(p) ==
    \A n \in Nodes :
        /\ p[n].inbox \in Seq(Plain \cup AuthSent(Peer(n), p[Peer(n)].hs))
        /\ p[n].hs.state = "AwaitingChallenge" => p[n].hs.role = "initiator"
        /\ p[n].hs.state = "Done" =>
             /\ p[n].hs.peer = HelloOf(Cfg[Peer(n)])
             /\ p[n].hs.role = "initiator" => p[Peer(n)].hs.state = "Done"

RolesInv(p) ==
    /\ Vacant(p) => \A n \in Nodes : p[n].hs.state = "AwaitingHello" /\ p[n].inbox = <<>>
    /\ ~Vacant(p) => p[1].hs.role # p[2].hs.role

EndInv(e) ==
    /\ e.stage \in {"none", "handshake"} => e.reader = "off" /\ e.writer = "off"
    /\ e.stage \in {"spawned", "running"} => e.reader # "off"
    /\ e.stage = "handshake" => e.hs.state # "Done" /\ e.queue = <<>> /\ ~e.closed
    /\ e.writer = "wait" /\ (e.queue # <<>> \/ e.closed) => e.permit

PairInv(p) ==
    p \in Pairs /\ HandshakeInv(p) /\ RolesInv(p) /\ \A n \in Nodes : EndInv(p[n])

(* The invariant of the table.                                             *)
TableInv ==
    /\ links \in [Nodes -> Slots \cup {NoLink}]
    /\ \A n \in Nodes : links[n] # NoLink =>
         LET e == end[links[n]][n] IN
         /\ e.stage \in {"none", "running"}
         /\ e.reader # "reading" => e.late

IInv ==
    /\ end \in [Slots -> Pairs]
    /\ \A c \in Slots : PairInv(end[c])
    /\ TableInv

-----------------------------------------------------------------------------
(* The operators of module Links on one end.                               *)

(* There are two nodes, each the other's peer.                             *)
LEMMA TwoNodes ==
    \A n \in Nodes : /\ Peer(n) \in Nodes /\ Peer(n) # n /\ Peer(Peer(n)) = n
                     /\ \A m \in Nodes : m = n \/ m = Peer(n)
BY SMT DEF Nodes, Peer

(* Nothing is on its way on a new or a broken connection.                  *)
LEMMA EmptySeq == \A S : <<>> \in Seq(S)
BY SMT

(* A fresh handshake and an end without socket have their types.           *)
LEMMA NoEndType ==
    /\ \A r \in Roles : NewHandshake(r) \in HsType
    /\ \A l \in BOOLEAN : [NoEnd EXCEPT !.late = l] \in EndType
    /\ NoEnd \in EndType
<1>1. NoHello \in Hellos
  BY Zenon DEF Hellos
<1>2. \A r \in Roles : NewHandshake(r) \in HsType
  BY <1>1, Zenon DEF NewHandshake, HsType
<1>3. NewHandshake("initiator") \in HsType
  BY <1>2, Zenon DEF Roles
<1>4. <<>> \in Seq(Plain \cup Auths) /\ <<>> \in QueueType
  BY SMT DEF QueueType
<1>5. NoEnd \in EndType
  BY <1>3, <1>4, Zenon DEF NoEnd, EndType
<1>6. \A l \in BOOLEAN : [NoEnd EXCEPT !.late = l] \in EndType
  BY <1>5, Zenon DEF EndType
<1> QED BY <1>2, <1>5, <1>6, Zenon

(* A field at a time, an update of an end keeps its type.                  *)
LEMMA EndUpdates ==
    ASSUME NEW e \in EndType
    PROVE  /\ \A v \in {"none", "handshake", "spawned", "running"} :
                [e EXCEPT !.stage = v] \in EndType
           /\ \A v \in HsType : [e EXCEPT !.hs = v] \in EndType
           /\ \A v \in Seq(Plain \cup Auths) : [e EXCEPT !.inbox = v] \in EndType
           /\ \A v \in {"off", "reading", "done"} : [e EXCEPT !.reader = v] \in EndType
           /\ \A v \in {"off", "wait"} : [e EXCEPT !.writer = v] \in EndType
           /\ \A v \in QueueType : [e EXCEPT !.queue = v] \in EndType
           /\ \A v \in BOOLEAN : /\ [e EXCEPT !.eof = v] \in EndType
                                 /\ [e EXCEPT !.stop = v] \in EndType
                                 /\ [e EXCEPT !.closed = v] \in EndType
                                 /\ [e EXCEPT !.permit = v] \in EndType
                                 /\ [e EXCEPT !.late = v] \in EndType
<1>1. \A v \in {"none", "handshake", "spawned", "running"} : [e EXCEPT !.stage = v] \in EndType
  BY SMT DEF EndType
<1>2. \A v \in HsType : [e EXCEPT !.hs = v] \in EndType
  BY SMT DEF EndType
<1>3. \A v \in Seq(Plain \cup Auths) : [e EXCEPT !.inbox = v] \in EndType
  BY SMT DEF EndType
<1>4. \A v \in {"off", "reading", "done"} : [e EXCEPT !.reader = v] \in EndType
  BY SMT DEF EndType
<1>5. \A v \in {"off", "wait"} : [e EXCEPT !.writer = v] \in EndType
  BY SMT DEF EndType
<1>6. \A v \in QueueType : [e EXCEPT !.queue = v] \in EndType
  BY SMT DEF EndType
<1>7. \A v \in BOOLEAN : [e EXCEPT !.eof = v] \in EndType /\ [e EXCEPT !.stop = v] \in EndType
  BY SMT DEF EndType
<1>8. \A v \in BOOLEAN : [e EXCEPT !.closed = v] \in EndType /\ [e EXCEPT !.permit = v] \in EndType
  BY SMT DEF EndType
<1>9. \A v \in BOOLEAN : [e EXCEPT !.late = v] \in EndType
  BY SMT DEF EndType
<1> QED BY <1>1, <1>2, <1>3, <1>4, <1>5, <1>6, <1>7, <1>8, <1>9, Zenon

(* An end that is gone.                                                    *)
LEMMA GoneEnd ==
    ASSUME NEW e \in EndType
    PROVE  /\ Gone(e) \in EndType /\ EndInv(Gone(e))
           /\ Gone(e).stage = "none" /\ Gone(e).hs = e.hs /\ Gone(e).late = e.late
           /\ Gone(e).inbox = <<>> /\ Gone(e).reader = "off"
<1> DEFINE z == NoEnd
<1>1. /\ z \in EndType /\ z.stage = "none" /\ z.inbox = <<>> /\ z.reader = "off"
      /\ z.writer = "off"
  BY NoEndType, Zenon DEF NoEnd
<1>2. Gone(e) = [z EXCEPT !.hs = e.hs, !.late = e.late]
  BY Zenon DEF Gone
<1> HIDE DEF z
<1>3. e.hs \in HsType /\ e.late \in BOOLEAN
  BY SMT DEF EndType
<1> DEFINE y == [z EXCEPT !.hs = e.hs]
<1>4. y \in EndType /\ Gone(e) = [y EXCEPT !.late = e.late]
  BY <1>1, <1>2, <1>3, EndUpdates, Zenon
<1>5. /\ y.stage = "none" /\ y.inbox = <<>> /\ y.reader = "off" /\ y.writer = "off"
      /\ y.hs = e.hs
  BY <1>1, Zenon DEF EndType
<1> HIDE DEF y
<1>6. Gone(e) \in EndType
  BY <1>3, <1>4, EndUpdates, Zenon
<1>7. /\ Gone(e).stage = "none" /\ Gone(e).inbox = <<>>
      /\ Gone(e).reader = "off" /\ Gone(e).writer = "off"
      /\ Gone(e).hs = e.hs /\ Gone(e).late = e.late
  BY <1>4, <1>5, Zenon DEF EndType
<1> QED BY <1>6, <1>7, Zenon DEF EndInv

(* An end whose tasks have ended is gone; any other is left alone.         *)
LEMMA ReapedEnd ==
    ASSUME NEW e \in EndType, EndInv(e)
    PROVE  /\ Reaped(e) \in EndType /\ EndInv(Reaped(e))
           /\ Reaped(e).hs = e.hs /\ Reaped(e).late = e.late
           /\ Reaped(e).inbox \in {e.inbox, <<>>}
           /\ e.stage = "running" => Reaped(e).stage \in {"none", "running"}
           /\ Reaped(e).reader = "reading" <=> e.reader = "reading"
<1>1. Reaped(e) = e \/ (Reaped(e) = Gone(e) /\ e.reader = "done")
  BY Zenon DEF Reaped
<1> QED BY <1>1, GoneEnd

(* What reaches an end changes its inbox and eof alone.                    *)
SameBut(e, d) ==
    /\ d \in EndType /\ d.stage = e.stage /\ d.hs = e.hs /\ d.reader = e.reader
    /\ d.queue = e.queue /\ d.closed = e.closed /\ d.writer = e.writer
    /\ d.permit = e.permit /\ d.late = e.late

(* What a peer sends: frames, the end of the stream, or both.              *)
LEMMA ReachedEnd ==
    ASSUME NEW e \in EndType, NEW fs \in Seq(Plain \cup Auths)
    PROVE  /\ SameBut(e, e) /\ SameBut(e, Hung(e)) /\ SameBut(e, Arrived(e, fs))
           /\ SameBut(e, Hung(Arrived(e, fs)))
           /\ Hung(e).inbox = e.inbox /\ Hung(Arrived(e, fs)).inbox = Arrived(e, fs).inbox
           /\ Arrived(e, fs).inbox \in {e.inbox, e.inbox \o fs}
<1>1. e.inbox \in Seq(Plain \cup Auths)
  BY SMT DEF EndType
<1>2. e.inbox \o fs \in Seq(Plain \cup Auths)
  BY <1>1, SMT
<1> DEFINE d == Arrived(e, fs)
<1>3. SameBut(e, e)
  BY SMT DEF SameBut, EndType
<1>4. SameBut(e, d) /\ d.inbox \in {e.inbox, e.inbox \o fs}
  <2>1. [e EXCEPT !.inbox = e.inbox \o fs] \in EndType
    BY <1>2, EndUpdates, Zenon
  <2> QED BY <1>3, <2>1, SMT DEF SameBut, EndType, Arrived
<1>5. ASSUME NEW x \in EndType
      PROVE  /\ Hung(x) \in EndType /\ Hung(x).inbox = x.inbox
             /\ SameBut(x, Hung(x))
  <2>1. [x EXCEPT !.eof = TRUE] \in EndType
    BY EndUpdates, Zenon
  <2> QED BY <2>1, SMT DEF SameBut, EndType, Hung
<1>6. d \in EndType
  BY <1>4, Zenon DEF SameBut
<1>7. SameBut(e, Hung(d))
  BY <1>4, <1>5, <1>6, SMT DEF SameBut, EndType
<1> QED BY <1>3, <1>4, <1>5, <1>6, <1>7, Zenon

-----------------------------------------------------------------------------
(* Put.                                                                    *)

(* A connection whose two ends satisfy the invariant is put in its slot;   *)
(* one without sockets is cleared.                                         *)
LEMMA PutInv ==
    ASSUME NEW c \in Slots, NEW n \in Nodes, NEW mine, NEW theirs,
           end \in [Slots -> Pairs], NEW p \in Pairs, mine = p[n], theirs = p[Peer(n)],
           HandshakeInv(p), \A m \in Nodes : EndInv(p[m]),
           ~Vacant(p) => p[1].hs.role # p[2].hs.role,
           Put(c, n, mine, theirs)
    PROVE  /\ end' \in [Slots -> Pairs] /\ PairInv(end'[c])
           /\ \A d \in Slots \ {c} : end'[d] = end[d]
           /\ \A m \in Nodes : /\ end'[c][m].stage = p[m].stage
                               /\ end'[c][m].reader = p[m].reader
                               /\ end'[c][m].late = p[m].late
<1> DEFINE q == [m \in Nodes |-> [NoEnd EXCEPT !.late = p[m].late]]
<1>1. p = [m \in Nodes |-> IF m = n THEN mine ELSE theirs]
  BY TwoNodes, Zenon DEF Pairs
<1>2. Vacant(p) <=> mine.stage = "none" /\ theirs.stage = "none"
  BY TwoNodes, Zenon DEF Vacant
<1>3. end' = [end EXCEPT ![c] = IF Vacant(p) THEN q ELSE p]
  <2>1. [m \in Nodes |-> LET e == IF m = n THEN mine ELSE theirs IN
           IF mine.stage = "none" /\ theirs.stage = "none" THEN [NoEnd EXCEPT !.late = e.late] ELSE e]
          = IF Vacant(p) THEN q ELSE p
    <3>1. CASE Vacant(p)
      BY <1>1, <1>2, <3>1, Zenon
    <3>2. CASE ~Vacant(p)
      BY <1>1, <1>2, <3>2, Zenon
    <3> QED BY <3>1, <3>2, Zenon
  <2> QED BY <2>1, Zenon DEF Put
<1>4. \A m \in Nodes : p[m] \in EndType /\ p[m].late \in BOOLEAN
  BY SMT DEF Pairs, EndType
<1>5. \A m \in Nodes : q[m] \in EndType
  BY <1>4, NoEndType
<1>6. q \in Pairs
  BY <1>5 DEF Pairs
<1>7. ASSUME NEW m \in Nodes
      PROVE  /\ q[m].stage = "none" /\ q[m].reader = "off" /\ q[m].late = p[m].late
             /\ q[m].inbox = <<>> /\ q[m].hs.state = "AwaitingHello" /\ q[m].writer = "off"
  <2> DEFINE z == NoEnd
  <2>1. /\ z.stage = "none" /\ z.reader = "off" /\ z.inbox = <<>>
        /\ z.hs.state = "AwaitingHello" /\ z.writer = "off"
    BY DEF NoEnd, NewHandshake
  <2>2. q[m] = [z EXCEPT !.late = p[m].late] /\ z \in EndType
    BY NoEndType
  <2> HIDE DEF z, q
  <2> QED BY <2>1, <2>2, Zenon DEF EndType
<1> HIDE DEF q
<1>8. PairInv(q)
  <2>1. \A m \in Nodes : EndInv(q[m])
    BY <1>7, Zenon DEF EndInv
  <2>2. RolesInv(q)
    BY <1>7, Zenon DEF RolesInv, Vacant, Nodes
  <2>3. HandshakeInv(q)
    <3>1. \A m \in Nodes : q[m].inbox \in Seq(Plain \cup AuthSent(Peer(m), q[Peer(m)].hs))
      BY <1>7, EmptySeq, Zenon
    <3> QED BY <1>7, <3>1, Zenon DEF HandshakeInv
  <2> QED BY <1>6, <2>1, <2>2, <2>3, Zenon DEF PairInv
<1>9. CASE Vacant(p)
  <2>1. end' = [end EXCEPT ![c] = q]
    BY <1>3, <1>9, Zenon
  <2>2. end' \in [Slots -> Pairs] /\ end'[c] = q /\ \A d \in Slots \ {c} : end'[d] = end[d]
    BY <1>6, <2>1, Zenon
  <2>3. \A m \in Nodes : p[m].stage = "none" /\ p[m].reader = "off"
    BY <1>9, Zenon DEF Vacant, EndInv
  <2> QED BY <1>7, <1>8, <2>2, <2>3, ZenonT(40)
<1>10. CASE ~Vacant(p)
  <2>1. end' = [end EXCEPT ![c] = p]
    BY <1>3, <1>10, Zenon
  <2>2. end' \in [Slots -> Pairs] /\ end'[c] = p /\ \A d \in Slots \ {c} : end'[d] = end[d]
    BY <2>1, Zenon
  <2>3. PairInv(p)
    BY <1>10, Zenon DEF PairInv, RolesInv
  <2> QED BY <2>2, <2>3, Zenon
<1> QED BY <1>9, <1>10, Zenon

(* A step that puts a connection in its slot and may change the table.     *)
LEMMA PutStepInv ==
    ASSUME IInv, NEW c \in Slots, NEW n \in Nodes, NEW mine, NEW theirs, NEW p \in Pairs,
           mine = p[n], theirs = p[Peer(n)],
           HandshakeInv(p), \A m \in Nodes : EndInv(p[m]),
           ~Vacant(p) => p[1].hs.role # p[2].hs.role,
           Put(c, n, mine, theirs),
           links' \in [Nodes -> Slots \cup {NoLink}],
           \A m \in Nodes :
             /\ links'[m] = c => /\ p[m].stage \in {"none", "running"}
                                 /\ p[m].reader # "reading" => p[m].late
             /\ links'[m] \in {NoLink, c, links[m]}
    PROVE  IInv'
<1>1. end \in [Slots -> Pairs]
  BY Zenon DEF IInv
<1>2. /\ end' \in [Slots -> Pairs] /\ PairInv(end'[c])
      /\ \A d \in Slots \ {c} : end'[d] = end[d]
      /\ \A m \in Nodes : /\ end'[c][m].stage = p[m].stage
                          /\ end'[c][m].reader = p[m].reader
                          /\ end'[c][m].late = p[m].late
  BY <1>1, PutInv
<1>3. ASSUME NEW m \in Nodes, links'[m] # NoLink
      PROVE  LET e == end'[links'[m]][m] IN
             e.stage \in {"none", "running"} /\ (e.reader # "reading" => e.late)
  <2>1. links'[m] \in Slots
    BY <1>3, Zenon
  <2>2. CASE links'[m] # c
    <3>1. links'[m] = links[m] /\ end'[links'[m]] = end[links[m]]
      BY <1>2, <1>3, <2>1, <2>2, Zenon
    <3> QED BY <1>3, <3>1, Zenon DEF IInv, TableInv
  <2>3. CASE links'[m] = c
    <3>1. p[m].stage \in {"none", "running"} /\ (p[m].reader # "reading" => p[m].late)
      BY <2>3, Zenon
    <3>2. end'[links'[m]][m] = end'[c][m]
      BY <2>3, Zenon
    <3> QED BY <1>2, <3>1, <3>2
  <2> QED BY <2>2, <2>3, Zenon
<1>4. TableInv'
  BY <1>3, Zenon DEF TableInv
<1>5. \A d \in Slots : PairInv(end'[d])
  BY <1>2, Zenon DEF IInv
<1> QED BY <1>2, <1>4, <1>5, Zenon DEF IInv

(* A step of node n on connection c that leaves the handshakes alone: its  *)
(* end becomes mine, frames or the end of the stream reach the other, and  *)
(* n's entry in the table may change.                                      *)
LEMMA EndStepInv ==
    ASSUME IInv, NEW c \in Slots, NEW n \in Nodes, NEW mine \in EndType, NEW theirs,
           EndInv(mine), end[c][n].stage # "none", mine.hs = end[c][n].hs,
           mine.inbox \in Seq(Plain \cup AuthSent(Peer(n), end[c][Peer(n)].hs)),
           SameBut(end[c][Peer(n)], theirs),
           theirs.inbox \in Seq(Plain \cup AuthSent(n, end[c][n].hs)),
           Put(c, n, mine, theirs),
           links' \in [Nodes -> Slots \cup {NoLink}], links'[Peer(n)] = links[Peer(n)],
           links'[n] \in {NoLink, c, links[n]},
           links'[n] = c => /\ mine.stage \in {"none", "running"}
                            /\ mine.reader # "reading" => mine.late
    PROVE  IInv'
<1> DEFINE p == [m \in Nodes |-> IF m = n THEN mine ELSE theirs]
           o == end[c]
<1>1. p[n] = mine /\ p[Peer(n)] = theirs
  BY TwoNodes, Zenon
<1>2. theirs \in EndType
  BY Zenon DEF SameBut
<1>3. p \in Pairs
  BY <1>2, Zenon DEF Pairs
<1>4. o \in Pairs /\ PairInv(o) /\ end \in [Slots -> Pairs]
  BY Zenon DEF IInv
<1>5. p[n].hs = o[n].hs /\ p[Peer(n)].hs = o[Peer(n)].hs
  BY <1>1, Zenon DEF SameBut
<1>6. \A m \in Nodes : EndInv(p[m])
  <2>1. EndInv(o[Peer(n)])
    BY <1>4, TwoNodes, Zenon DEF PairInv
  <2>2. EndInv(theirs)
    BY <2>1, Zenon DEF EndInv, SameBut
  <2>. HIDE DEF p
  <2>. QED
    BY <1>1, <2>2, TwoNodes, Zenon
<1>7. p[1].hs.role # p[2].hs.role
  BY <1>4, <1>5 DEF PairInv, RolesInv, Vacant, Nodes, Peer
<1> HIDE DEF p
<1>8. HandshakeInv(p)
  <2>1. ASSUME NEW m \in Nodes
        PROVE  p[m].hs = o[m].hs /\ p[Peer(m)].hs = o[Peer(m)].hs
    BY <1>5, TwoNodes, Zenon
  <2>2. ASSUME NEW m \in Nodes
        PROVE  p[m].inbox \in Seq(Plain \cup AuthSent(Peer(m), p[Peer(m)].hs))
    <3>1. CASE m = n
      BY <1>1, <1>5, <3>1, Zenon
    <3>2. CASE m = Peer(n)
      BY <1>1, <1>5, <3>2, TwoNodes, Zenon
    <3> QED BY <3>1, <3>2, TwoNodes, Zenon
  <2>3. HandshakeInv(o)
    BY <1>4, Zenon DEF PairInv
  <2> HIDE DEF o
  <2> QED BY <2>1, <2>2, <2>3, ZenonT(60) DEF HandshakeInv
<1>9. ASSUME NEW m \in Nodes
      PROVE  /\ links'[m] = c => /\ p[m].stage \in {"none", "running"}
                                 /\ p[m].reader # "reading" => p[m].late
             /\ links'[m] \in {NoLink, c, links[m]}
  <2>1. CASE m = n
    BY <1>1, <2>1, Zenon
  <2>2. CASE m = Peer(n)
    <3>1. links[m] = c /\ c # NoLink =>
            o[m].stage \in {"none", "running"} /\ (o[m].reader # "reading" => o[m].late)
      BY Zenon DEF IInv, TableInv
    <3> QED BY <1>1, <2>2, <3>1, LinksAssumption, Zenon DEF SameBut
  <2> QED BY <2>1, <2>2, TwoNodes, Zenon
<1> QED BY <1>1, <1>3, <1>6, <1>7, <1>8, <1>9, PutStepInv, Zenon

-----------------------------------------------------------------------------
(* The queue and the tasks of an end.                                      *)

(* What the invariant says of an end and its peer.                         *)
LEMMA EndFacts ==
    ASSUME IInv, NEW c \in Slots, NEW n \in Nodes
    PROVE  /\ end[c][n] \in EndType /\ EndInv(end[c][n])
           /\ end[c][n].inbox \in Seq(Plain \cup AuthSent(Peer(n), end[c][Peer(n)].hs))
           /\ end[c][Peer(n)] \in EndType
           /\ end[c][Peer(n)].inbox \in Seq(Plain \cup AuthSent(n, end[c][n].hs))
           /\ links \in [Nodes -> Slots \cup {NoLink}]
           /\ links[n] = c => /\ end[c][n].stage \in {"none", "running"}
                              /\ end[c][n].reader # "reading" => end[c][n].late
<1>1. PairInv(end[c]) /\ end[c] \in Pairs /\ Peer(n) \in Nodes /\ Peer(Peer(n)) = n
  BY TwoNodes, Zenon DEF IInv
<1>2. c # NoLink
  BY LinksAssumption, Zenon
<1>3. end[c][n] \in EndType /\ end[c][Peer(n)] \in EndType
  BY <1>1, Zenon DEF Pairs
<1>4. EndInv(end[c][n]) /\ HandshakeInv(end[c])
  BY <1>1, Zenon DEF PairInv
<1>5. /\ end[c][n].inbox \in Seq(Plain \cup AuthSent(Peer(n), end[c][Peer(n)].hs))
      /\ end[c][Peer(n)].inbox \in Seq(Plain \cup AuthSent(n, end[c][n].hs))
  BY <1>1, <1>4, Zenon DEF HandshakeInv
<1> QED BY <1>2, <1>3, <1>4, <1>5, Zenon DEF IInv, TableInv

(* Inboxes and queues, as frames leave and join them.                      *)
LEMMA SeqFacts ==
    /\ \A S : \A s \in Seq(S) : s # <<>> => Tail(s) \in Seq(S) /\ Head(s) \in S
    /\ \A S : \A s, t \in Seq(S) : s \o t \in Seq(S)
    /\ \A S, T : S \subseteq T => \A s \in Seq(S) : s \in Seq(T)
    /\ \A A : QueueType \subseteq Seq(Plain \cup A)
    /\ \A q \in QueueType : /\ Append(q, Frame("ping", "")) \in QueueType
                            /\ Append(q, Frame("pong", "")) \in QueueType
<1>1. \A S : \A s \in Seq(S) : s # <<>> => Tail(s) \in Seq(S) /\ Head(s) \in S
  BY SMT
<1>2. \A S : \A s, t \in Seq(S) : s \o t \in Seq(S)
  BY SMT
<1>3. \A S, T : S \subseteq T => \A s \in Seq(S) : s \in Seq(T)
  BY SMT
<1>4. \A A : {Frame("ping", ""), Frame("pong", "")} \subseteq Plain \cup A
  BY Zenon DEF Plain
<1>5. \A A : QueueType \subseteq Seq(Plain \cup A)
  BY <1>3, <1>4 DEF QueueType
<1>6. \A S : \A s \in Seq(S), x \in S : Append(s, x) \in Seq(S)
  BY SMT
<1>7. \A q \in QueueType : /\ Append(q, Frame("ping", "")) \in QueueType
                           /\ Append(q, Frame("pong", "")) \in QueueType
  BY <1>6 DEF QueueType
<1> QED BY <1>1, <1>2, <1>3, <1>5, <1>7

(* An operation on the queue leaves the rest of the end alone.             *)
QueueOp(e, d) ==
    /\ d \in EndType /\ EndInv(d) /\ d.stage = e.stage /\ d.hs = e.hs
    /\ d.inbox = e.inbox /\ d.reader = e.reader /\ d.late = e.late

(* push, close and the end of a batch (queue.rs, link.rs).                 *)
LEMMA QueueOps ==
    ASSUME NEW e \in EndType, EndInv(e), e.stage # "handshake"
    PROVE  /\ QueueOp(e, Pushed(e, Frame("ping", ""))) /\ QueueOp(e, Pushed(e, Frame("pong", "")))
           /\ QueueOp(e, QueueClosed(e))
           /\ \A told \in BOOLEAN : QueueOp(e, Closed(e, told))
           /\ ~e.closed => QueueOp(e, [e EXCEPT !.permit = FALSE, !.queue = <<>>])
           /\ QueueOp(e, [e EXCEPT !.writer = "off", !.permit = FALSE, !.queue = <<>>])
<1>0. e.queue \in QueueType
  BY SMT DEF EndType
<1>1. ASSUME NEW f, Append(e.queue, f) \in QueueType PROVE QueueOp(e, Pushed(e, f))
  <2> DEFINE q == Append(e.queue, f)
             y == [e EXCEPT !.queue = q]
             d == [y EXCEPT !.permit = TRUE]
  <2> HIDE DEF q
  <2>3. q \in QueueType /\ y \in EndType
    BY <1>1, EndUpdates, Zenon DEF q
  <2>4. /\ y.stage = e.stage /\ y.hs = e.hs /\ y.inbox = e.inbox /\ y.reader = e.reader
        /\ y.late = e.late /\ y.writer = e.writer
    BY SMT DEF EndType
  <2> HIDE DEF y
  <2>5. d \in EndType
    BY <2>3, EndUpdates, Zenon
  <2>6. /\ d.stage = e.stage /\ d.hs = e.hs /\ d.inbox = e.inbox /\ d.reader = e.reader
        /\ d.late = e.late /\ d.writer = e.writer /\ d.permit = TRUE
    BY <2>3, <2>4, Zenon DEF EndType
  <2>7. Pushed(e, f) = e \/ Pushed(e, f) = d
    BY Zenon DEF Pushed, y, q
  <2> HIDE DEF d
  <2>8. EndInv(d)
    BY <2>6, Zenon DEF EndInv
  <2> QED BY <2>5, <2>6, <2>7, <2>8, Zenon DEF QueueOp
<1>2. ASSUME NEW x \in EndType, EndInv(x), x.stage # "handshake"
      PROVE  QueueOp(x, QueueClosed(x)) /\ QueueClosed(x).permit = TRUE
  <2> DEFINE y == [x EXCEPT !.closed = TRUE]
             d == [y EXCEPT !.permit = TRUE]
  <2>1. y \in EndType
    BY EndUpdates, Zenon
  <2>2. /\ y.stage = x.stage /\ y.hs = x.hs /\ y.inbox = x.inbox /\ y.reader = x.reader
        /\ y.late = x.late /\ y.writer = x.writer
    BY SMT DEF EndType
  <2>3. QueueClosed(x) = d
    BY Zenon DEF QueueClosed
  <2> HIDE DEF y
  <2>4. d \in EndType
    BY <2>1, EndUpdates, Zenon
  <2>5. /\ d.stage = x.stage /\ d.hs = x.hs /\ d.inbox = x.inbox /\ d.reader = x.reader
        /\ d.late = x.late /\ d.writer = x.writer /\ d.permit = TRUE
    BY <2>1, <2>2, Zenon DEF EndType
  <2> HIDE DEF d
  <2> QED BY <1>2, <2>3, <2>4, <2>5, Zenon DEF EndInv, QueueOp
<1>3. ASSUME NEW told \in BOOLEAN PROVE QueueOp(e, Closed(e, told))
  <2> DEFINE y == QueueClosed(e)
             d == [y EXCEPT !.stop = y.stop \/ told]
  <2>1. QueueOp(e, y) /\ y \in EndType
    BY <1>2, Zenon DEF QueueOp
  <2>2. Closed(e, told) = d
    BY Zenon DEF Closed
  <2> HIDE DEF y
  <2>3. (y.stop \/ told) \in BOOLEAN
    OBVIOUS
  <2>4. d \in EndType
    BY <2>1, <2>3, EndUpdates, Zenon
  <2>5. /\ d.stage = y.stage /\ d.hs = y.hs /\ d.inbox = y.inbox /\ d.reader = y.reader
        /\ d.late = y.late /\ d.writer = y.writer /\ d.permit = y.permit
        /\ d.queue = y.queue /\ d.closed = y.closed
    BY <2>1, Zenon DEF EndType
  <2> HIDE DEF d
  <2> QED BY <2>1, <2>2, <2>4, <2>5, Zenon DEF EndInv, QueueOp
<1>4. <<>> \in QueueType
  BY EmptySeq, Zenon DEF QueueType
<1>5. ASSUME NEW x \in EndType
      PROVE  LET d == [x EXCEPT !.permit = FALSE, !.queue = <<>>] IN
             /\ d \in EndType /\ d.stage = x.stage /\ d.hs = x.hs /\ d.inbox = x.inbox
             /\ d.reader = x.reader /\ d.late = x.late /\ d.writer = x.writer
             /\ d.queue = <<>> /\ d.closed = x.closed
  <2> DEFINE y == [x EXCEPT !.permit = FALSE]
             d == [y EXCEPT !.queue = <<>>]
  <2>1. y \in EndType
    BY EndUpdates, Zenon
  <2>2. /\ y.stage = x.stage /\ y.hs = x.hs /\ y.inbox = x.inbox /\ y.reader = x.reader
        /\ y.late = x.late /\ y.writer = x.writer /\ y.closed = x.closed
    BY SMT DEF EndType
  <2>3. [x EXCEPT !.permit = FALSE, !.queue = <<>>] = d
    OBVIOUS
  <2> HIDE DEF y
  <2>4. d \in EndType
    BY <1>4, <2>1, EndUpdates, Zenon
  <2>5. /\ d.stage = x.stage /\ d.hs = x.hs /\ d.inbox = x.inbox /\ d.reader = x.reader
        /\ d.late = x.late /\ d.writer = x.writer /\ d.queue = <<>> /\ d.closed = x.closed
    BY <2>1, <2>2, Zenon DEF EndType
  <2> QED BY <2>3, <2>4, <2>5, Zenon
<1>6. ~e.closed => QueueOp(e, [e EXCEPT !.permit = FALSE, !.queue = <<>>])
  <2> DEFINE d == [e EXCEPT !.permit = FALSE, !.queue = <<>>]
  <2>1. /\ d \in EndType /\ d.stage = e.stage /\ d.hs = e.hs /\ d.inbox = e.inbox
        /\ d.reader = e.reader /\ d.late = e.late /\ d.writer = e.writer
        /\ d.queue = <<>> /\ d.closed = e.closed
    BY <1>5, Zenon
  <2> HIDE DEF d
  <2>2. ~e.closed => QueueOp(e, d)
    BY <2>1, Zenon DEF EndInv, QueueOp
  <2> QED BY <2>2, Zenon DEF d
<1>7. QueueOp(e, [e EXCEPT !.writer = "off", !.permit = FALSE, !.queue = <<>>])
  <2> DEFINE y == [e EXCEPT !.writer = "off"]
  <2>1. y \in EndType
    BY EndUpdates, Zenon
  <2>2. /\ y.stage = e.stage /\ y.hs = e.hs /\ y.inbox = e.inbox /\ y.reader = e.reader
        /\ y.late = e.late /\ y.writer = "off"
    BY SMT DEF EndType
  <2>3. [e EXCEPT !.writer = "off", !.permit = FALSE, !.queue = <<>>]
          = [y EXCEPT !.permit = FALSE, !.queue = <<>>]
    OBVIOUS
  <2> HIDE DEF y
  <2> DEFINE d == [y EXCEPT !.permit = FALSE, !.queue = <<>>]
  <2>4. /\ d \in EndType /\ d.stage = e.stage /\ d.hs = e.hs /\ d.inbox = e.inbox
        /\ d.reader = e.reader /\ d.late = e.late /\ d.writer = "off"
    BY <1>5, <2>1, <2>2, Zenon
  <2> HIDE DEF d
  <2>5. QueueOp(e, d)
    BY <2>4, Zenon DEF EndInv, QueueOp
  <2> QED BY <2>3, <2>5, Zenon DEF d
<1>8. QueueOp(e, Pushed(e, Frame("ping", ""))) /\ QueueOp(e, Pushed(e, Frame("pong", "")))
  BY <1>0, <1>1, SeqFacts
<1> QED BY <1>2, <1>3, <1>6, <1>7, <1>8

-----------------------------------------------------------------------------
(* The steps of module Links.                                              *)

(* A handshake that fails drops its socket: HandshakeEof, AuthTimeout and  *)
(* a refusal.                                                              *)
LEMMA DropInv ==
    ASSUME IInv, NEW c \in Slots, NEW n \in Nodes, end[c][n].stage = "handshake",
           Drop(c, n), links' = links
    PROVE  IInv'
<1> DEFINE e == end[c][n]
           o == end[c][Peer(n)]
<1>1. e \in EndType /\ o \in EndType
  BY EndFacts, Zenon
<1>2. /\ Gone(e) \in EndType /\ EndInv(Gone(e)) /\ Gone(e).hs = e.hs
      /\ Gone(e).inbox \in Seq(Plain \cup AuthSent(Peer(n), o.hs))
  BY <1>1, GoneEnd, EmptySeq, Zenon
<1>3. SameBut(o, Hung(o)) /\ Hung(o).inbox \in Seq(Plain \cup AuthSent(n, e.hs))
  BY <1>1, ReachedEnd, EmptySeq, EndFacts, Zenon
<1>4. links[n] # c
  BY EndFacts, Zenon
<1>5. Put(c, n, Gone(e), Hung(o))
  BY DEF Drop
<1>6. links \in [Nodes -> Slots \cup {NoLink}]
  BY EndFacts, Zenon
<1> HIDE DEF e, o
<1> QED BY <1>2, <1>3, <1>4, <1>5, <1>6, EndStepInv, Zenon DEF e, o

(* register.                                                               *)
LEMMA RegisterInv ==
    ASSUME IInv, NEW c \in Slots, NEW n \in Nodes, Register(c, n)
    PROVE  IInv'
<1> DEFINE s == end[c][n]
           e == [s EXCEPT !.stage = "running"]
           o == end[c][Peer(n)]
<1>1. /\ s \in EndType /\ EndInv(s) /\ s.stage = "spawned" /\ o \in EndType
      /\ s.inbox \in Seq(Plain \cup AuthSent(Peer(n), o.hs))
      /\ o.inbox \in Seq(Plain \cup AuthSent(n, s.hs))
      /\ links \in [Nodes -> Slots \cup {NoLink}] /\ links[n] # c
  BY EndFacts, Zenon DEF Register
<1>2. SameBut(o, o)
  BY <1>1, ReachedEnd, EmptySeq, Zenon
<1>3. e \in EndType
  BY <1>1, EndUpdates, Zenon
<1>4. /\ e.stage = "running" /\ e.hs = s.hs /\ e.inbox = s.inbox /\ e.reader = s.reader
      /\ e.writer = s.writer /\ e.queue = s.queue /\ e.closed = s.closed /\ e.permit = s.permit
  <2> HIDE DEF s
  <2> QED BY <1>1, Zenon DEF EndType
<1>5. EndInv(e)
  <2> HIDE DEF s, e
  <2> QED BY <1>1, <1>4, Zenon DEF EndInv
<1>6. <<>> \in Seq(Plain \cup AuthSent(Peer(n), o.hs))
  BY EmptySeq, Zenon
<1>7. CASE links' = links /\ \E told \in BOOLEAN : Put(c, n, Reaped(Closed(e, told)), o)
  <2>1. PICK told \in BOOLEAN : Put(c, n, Reaped(Closed(e, told)), o)
    BY <1>7, Zenon
  <2> DEFINE d == Closed(e, told)
  <2>2. QueueOp(e, d)
    BY <1>3, <1>4, <1>5, QueueOps, Zenon
  <2> HIDE DEF d, e
  <2>3. /\ Reaped(d) \in EndType /\ EndInv(Reaped(d)) /\ Reaped(d).hs = s.hs
        /\ Reaped(d).inbox \in {s.inbox, <<>>}
    BY <1>4, <2>2, ReapedEnd, Zenon DEF QueueOp
  <2>4. Put(c, n, Reaped(d), o)
    BY <2>1, Zenon DEF d
  <2> QED BY <1>1, <1>2, <1>6, <1>7, <2>3, <2>4, EndStepInv, Zenon
<1>8. CASE /\ links[n] = NoLink /\ links' = [links EXCEPT ![n] = c]
           /\ Put(c, n, Reaped([e EXCEPT !.late = (e.reader = "done")]), o)
  <2> HIDE DEF e
  <2> DEFINE l == (e.reader = "done")
             d == [e EXCEPT !.late = l]
  <2>1. d \in EndType
    <3>1. l \in BOOLEAN
      OBVIOUS
    <3> HIDE DEF l
    <3> QED BY <1>3, <3>1, EndUpdates, Zenon
  <2>2. /\ d.stage = "running" /\ d.hs = s.hs /\ d.inbox = s.inbox /\ d.reader = s.reader
        /\ d.writer = s.writer /\ d.queue = s.queue /\ d.closed = s.closed
        /\ d.permit = s.permit /\ d.late = l
    <3> HIDE DEF l, s
    <3> QED BY <1>3, <1>4, Zenon DEF EndType
  <2>3. s.reader \in {"reading", "done"}
    <3> HIDE DEF s
    <3> QED BY <1>1, Zenon DEF EndInv, EndType
  <2>4. d.reader # "reading" => d.late
    BY <1>4, <2>2, <2>3, Zenon
  <2>5. EndInv(d)
    <3> HIDE DEF d
    <3> QED BY <1>1, <2>2, Zenon DEF EndInv
  <2> HIDE DEF d
  <2>6. /\ Reaped(d) \in EndType /\ EndInv(Reaped(d)) /\ Reaped(d).hs = s.hs
        /\ Reaped(d).inbox \in {s.inbox, <<>>} /\ Reaped(d).stage \in {"none", "running"}
        /\ Reaped(d).reader # "reading" => Reaped(d).late
    BY <2>1, <2>2, <2>4, <2>5, ReapedEnd, Zenon
  <2>7. Put(c, n, Reaped(d), o)
    BY <1>8, Zenon DEF d
  <2>8. /\ links' \in [Nodes -> Slots \cup {NoLink}] /\ links'[n] = c
        /\ links'[Peer(n)] = links[Peer(n)]
    BY <1>1, <1>8, TwoNodes, Zenon
  <2> QED BY <1>1, <1>2, <1>6, <2>6, <2>7, <2>8, EndStepInv, Zenon
<1> QED BY <1>7, <1>8, Zenon DEF Register

(* writer_loop.                                                            *)
LEMMA WriterWakeInv ==
    ASSUME IInv, NEW c \in Slots, NEW n \in Nodes, WriterWake(c, n)
    PROVE  IInv'
<1> DEFINE e == end[c][n]
           o == end[c][Peer(n)]
           a == Arrived(o, e.queue)
<1>1. /\ e \in EndType /\ EndInv(e) /\ e.writer = "wait" /\ o \in EndType
      /\ e.inbox \in Seq(Plain \cup AuthSent(Peer(n), o.hs))
      /\ o.inbox \in Seq(Plain \cup AuthSent(n, e.hs))
      /\ links \in [Nodes -> Slots \cup {NoLink}]
      /\ links[n] = c => /\ e.stage \in {"none", "running"}
                         /\ e.reader # "reading" => e.late
  BY EndFacts, Zenon DEF WriterWake
<1>2. links' = links /\ e.stage \notin {"none", "handshake"} /\ e.queue \in QueueType
  <2>1. links' = links
    BY Zenon DEF WriterWake
  <2> HIDE DEF e
  <2> QED BY <1>1, <2>1, Zenon DEF EndInv, EndType
<1>3. /\ e.queue \in Seq(Plain \cup Auths)
      /\ e.queue \in Seq(Plain \cup AuthSent(n, e.hs))
  BY <1>2, SeqFacts
<1>4. /\ SameBut(o, a) /\ SameBut(o, Hung(a)) /\ Hung(a).inbox = a.inbox
      /\ a.inbox \in Seq(Plain \cup AuthSent(n, e.hs))
  <2>1. o.inbox \o e.queue \in Seq(Plain \cup AuthSent(n, e.hs))
    BY <1>1, <1>3, SeqFacts
  <2> HIDE DEF e, o
  <2> QED BY <1>1, <1>3, <2>1, ReachedEnd, Zenon
<1>5. <<>> \in Seq(Plain \cup AuthSent(Peer(n), o.hs))
  BY EmptySeq, Zenon
<1> DEFINE k == [e EXCEPT !.permit = FALSE, !.queue = <<>>]
           d == [e EXCEPT !.writer = "off", !.permit = FALSE, !.queue = <<>>]
<1>6. (~e.closed => QueueOp(e, k)) /\ QueueOp(e, d)
  BY <1>1, <1>2, QueueOps, Zenon
<1>7. \/ ~e.closed /\ Put(c, n, k, a)
      \/ Put(c, n, Reaped(d), Hung(a))
  BY Zenon DEF WriterWake
<1> HIDE DEF k, d, a
<1>8. CASE ~e.closed /\ Put(c, n, k, a)
  BY <1>1, <1>2, <1>4, <1>6, <1>8, EndStepInv, Zenon DEF QueueOp
<1>9. CASE Put(c, n, Reaped(d), Hung(a))
  <2>1. /\ Reaped(d) \in EndType /\ EndInv(Reaped(d)) /\ Reaped(d).hs = e.hs
        /\ Reaped(d).inbox \in {e.inbox, <<>>} /\ Reaped(d).late = e.late
        /\ e.stage = "running" => Reaped(d).stage \in {"none", "running"}
        /\ Reaped(d).reader = "reading" <=> e.reader = "reading"
    BY <1>6, ReapedEnd DEF QueueOp
  <2> QED BY <1>1, <1>2, <1>4, <1>5, <1>9, <2>1, EndStepInv, Zenon
<1> QED BY <1>7, <1>8, <1>9, Zenon

(* dispatch.                                                               *)
LEMMA ReaderFrameInv ==
    ASSUME IInv, NEW c \in Slots, NEW n \in Nodes, ReaderFrame(c, n)
    PROVE  IInv'
<1> DEFINE e == end[c][n]
           o == end[c][Peer(n)]
           t == Tail(e.inbox)
           y == [e EXCEPT !.inbox = t]
           d == IF Head(e.inbox).kind = "ping" THEN Pushed(y, Frame("pong", "")) ELSE y
<1>1. /\ e \in EndType /\ EndInv(e) /\ e.reader = "reading" /\ o \in EndType
      /\ e.inbox # <<>> /\ e.inbox \in Seq(Plain \cup AuthSent(Peer(n), o.hs))
      /\ o.inbox \in Seq(Plain \cup AuthSent(n, e.hs))
      /\ links \in [Nodes -> Slots \cup {NoLink}] /\ links' = links
      /\ links[n] = c => e.stage \in {"none", "running"}
  BY EndFacts DEF ReaderFrame
<1>2. Put(c, n, d, o)
  BY DEF ReaderFrame
<1>3. e.inbox \in Seq(Plain \cup Auths)
  <2> HIDE DEF e
  <2> QED BY <1>1, Zenon DEF EndType
<1>4. t \in Seq(Plain \cup Auths) /\ t \in Seq(Plain \cup AuthSent(Peer(n), o.hs))
  BY <1>1, <1>3, SeqFacts
<1>5. SameBut(o, o) /\ e.stage \notin {"none", "handshake"}
  BY <1>1, ReachedEnd, EmptySeq, Zenon DEF EndInv
<1> HIDE DEF e, t
<1>6. y \in EndType
  BY <1>1, <1>4, EndUpdates, Zenon
<1>7. /\ y.inbox = t /\ y.stage = e.stage /\ y.hs = e.hs /\ y.reader = e.reader
      /\ y.writer = e.writer /\ y.queue = e.queue /\ y.closed = e.closed
      /\ y.permit = e.permit /\ y.late = e.late
  BY <1>1, Zenon DEF EndType
<1> HIDE DEF y
<1>8. EndInv(y)
  BY <1>1, <1>7, Zenon DEF EndInv
<1>9. QueueOp(y, d)
  BY <1>5, <1>6, <1>7, <1>8, QueueOps, Zenon DEF QueueOp
<1> HIDE DEF d
<1> QED BY <1>1, <1>2, <1>4, <1>5, <1>7, <1>9, EndStepInv, Zenon DEF QueueOp, e

(* The reader's end and on_link_closed.                                    *)
LEMMA ReaderEndInv ==
    ASSUME IInv, NEW c \in Slots, NEW n \in Nodes, ReaderEnd(c, n)
    PROVE  IInv'
<1> DEFINE e == end[c][n]
           o == end[c][Peer(n)]
           x == [e EXCEPT !.reader = "done"]
           y == [x EXCEPT !.inbox = <<>>]
           d == QueueClosed(y)
<1>1. /\ e \in EndType /\ EndInv(e) /\ e.reader = "reading" /\ o \in EndType
      /\ o.inbox \in Seq(Plain \cup AuthSent(n, e.hs))
      /\ links \in [Nodes -> Slots \cup {NoLink}] /\ links' = [links EXCEPT ![n] = NoLink]
  BY EndFacts, Zenon DEF ReaderEnd, ReaderEnds
<1>2. Put(c, n, Reaped(d), o)
  BY DEF ReaderEnd, AfterReader
<1>3. SameBut(o, o) /\ e.stage \notin {"none", "handshake"}
  BY <1>1, ReachedEnd, EmptySeq, Zenon DEF EndInv
<1>4. <<>> \in Seq(Plain \cup Auths) /\ <<>> \in Seq(Plain \cup AuthSent(Peer(n), o.hs))
  BY EmptySeq, Zenon
<1> HIDE DEF e
<1>5. x \in EndType
  BY <1>1, EndUpdates, Zenon
<1>6. /\ x.stage = e.stage /\ x.hs = e.hs /\ x.reader = "done" /\ x.writer = e.writer
      /\ x.queue = e.queue /\ x.closed = e.closed /\ x.permit = e.permit
  BY <1>1, Zenon DEF EndType
<1> HIDE DEF x
<1>7. y \in EndType
  BY <1>4, <1>5, EndUpdates, Zenon
<1>8. /\ y.stage = e.stage /\ y.hs = e.hs /\ y.reader = "done" /\ y.writer = e.writer
      /\ y.queue = e.queue /\ y.closed = e.closed /\ y.permit = e.permit /\ y.inbox = <<>>
  BY <1>5, <1>6, Zenon DEF EndType
<1> HIDE DEF y
<1>9. EndInv(y)
  BY <1>1, <1>8, Zenon DEF EndInv
<1>10. QueueOp(y, d)
  BY <1>3, <1>7, <1>8, <1>9, QueueOps, Zenon
<1> HIDE DEF d
<1>11. /\ Reaped(d) \in EndType /\ EndInv(Reaped(d)) /\ Reaped(d).hs = e.hs
       /\ Reaped(d).inbox = <<>>
  BY <1>8, <1>10, ReapedEnd, Zenon DEF QueueOp
<1>12. /\ links' \in [Nodes -> Slots \cup {NoLink}] /\ links'[n] = NoLink
       /\ links'[Peer(n)] = links[Peer(n)] /\ NoLink # c
  BY <1>1, TwoNodes, LinksAssumption, Zenon
<1> QED BY <1>1, <1>2, <1>3, <1>4, <1>11, <1>12, EndStepInv, Zenon DEF e

(* keepalive_loop: a ping, or the end of a link on which nothing was told. *)
LEMMA KeepaliveInv ==
    ASSUME IInv, NEW c \in Slots, NEW n \in Nodes, SendPing(c, n) \/ IdleDead(c, n)
    PROVE  IInv'
<1> DEFINE e == end[c][n]
           o == end[c][Peer(n)]
<1>1. /\ e \in EndType /\ EndInv(e) /\ e.stage = "running" /\ o \in EndType
      /\ e.inbox \in Seq(Plain \cup AuthSent(Peer(n), o.hs))
      /\ o.inbox \in Seq(Plain \cup AuthSent(n, e.hs))
      /\ links \in [Nodes -> Slots \cup {NoLink}] /\ links' = links
      /\ links[n] = c => (e.reader # "reading" => e.late)
  BY EndFacts, Zenon DEF SendPing, IdleDead
<1>2. SameBut(o, o)
  BY <1>1, ReachedEnd, EmptySeq, Zenon
<1>3. PICK d : QueueOp(e, d) /\ Put(c, n, d, o)
  BY <1>1, QueueOps, Zenon DEF SendPing, IdleDead
<1> QED BY <1>1, <1>2, <1>3, EndStepInv, Zenon DEF QueueOp

(* Only a HELLO frame is of that kind, and only an AUTH of the other.      *)
LEMMA HelloFrames ==
    ASSUME NEW n, NEW hs, NEW f \in Plain \cup AuthSent(n, hs)
    PROVE  /\ f.kind = "hello" => f.body \in Heard
           /\ f.kind = "auth" => f \in AuthSent(n, hs)
<1>1. CASE f \in AuthSent(n, hs)
  BY <1>1 DEF AuthSent, Frame
<1>2. CASE f \in Plain
  <2>1. \/ \E h \in Heard : f = Frame("hello", h)
        \/ f \in {Frame("challenge", "nonce"), Frame("ping", ""), Frame("pong", "")}
    BY <1>2 DEF Plain
  <2>2. CASE \E h \in Heard : f = Frame("hello", h)
    BY <2>2 DEF Frame
  <2>3. CASE f \in {Frame("challenge", "nonce"), Frame("ping", ""), Frame("pong", "")}
    <3>1. /\ Frame("challenge", "nonce").kind = "challenge"
          /\ Frame("ping", "").kind = "ping" /\ Frame("pong", "").kind = "pong"
      BY Zenon DEF Frame
    <3> QED BY <2>3, <3>1
  <2> QED BY <2>1, <2>2, <2>3
<1> QED BY <1>1, <1>2, Zenon

(* A HELLO arrives altered.                                                *)
LEMMA AlterInv ==
    ASSUME IInv, NEW c \in Slots, NEW n \in Nodes, Alter(c, n)
    PROVE  IInv'
<1> DEFINE e == end[c][n]
           o == end[c][Peer(n)]
           f == Head(e.inbox)
           other == Frame("hello", [f.body EXCEPT !.features = {}])
           t == <<other>> \o Tail(e.inbox)
           d == [e EXCEPT !.inbox = t]
<1>1. /\ e \in EndType /\ EndInv(e) /\ o \in EndType
      /\ e.inbox # <<>> /\ e.inbox \in Seq(Plain \cup AuthSent(Peer(n), o.hs))
      /\ o.inbox \in Seq(Plain \cup AuthSent(n, e.hs))
      /\ links \in [Nodes -> Slots \cup {NoLink}] /\ links' = links
      /\ links[n] = c => /\ e.stage \in {"none", "running"}
                         /\ e.reader # "reading" => e.late
  BY EndFacts, Zenon DEF Alter
<1>2. Put(c, n, d, o) /\ f.kind = "hello" /\ e.stage = "handshake"
  BY Zenon DEF Alter
<1>3. SameBut(o, o)
  BY <1>1, ReachedEnd, EmptySeq, Zenon
<1>4. f \in Plain \cup AuthSent(Peer(n), o.hs) /\ e.inbox \in Seq(Plain \cup Auths)
  <2>1. e.inbox \in Seq(Plain \cup Auths)
    <3> HIDE DEF e
    <3> QED BY <1>1, Zenon DEF EndType
  <2>2. \A S : \A s \in Seq(S) : s # <<>> => Head(s) \in S
    BY SeqFacts
  <2> HIDE DEF e
  <2> QED BY <1>1, <2>1, <2>2, Zenon
<1>5. f.body \in Heard
  BY <1>2, <1>4, HelloFrames, Zenon
<1>6. other \in Plain
  <2>1. \A h \in Heard : [h EXCEPT !.features = {}] \in Heard
    BY SMT DEF Heard
  <2> QED BY <1>5, <2>1 DEF Plain
<1> HIDE DEF other
<1>7. t \in Seq(Plain \cup Auths) /\ t \in Seq(Plain \cup AuthSent(Peer(n), o.hs))
  <2>1. \A S : \A x \in S : <<x>> \in Seq(S)
    BY SMT
  <2>2. \A A : <<other>> \in Seq(Plain \cup A)
    BY <1>6, <2>1, Zenon
  <2> QED BY <1>1, <1>4, <2>2, SeqFacts
<1> HIDE DEF e, t
<1>8. d \in EndType
  BY <1>1, <1>7, EndUpdates, Zenon
<1>9. /\ d.inbox = t /\ d.stage = e.stage /\ d.hs = e.hs /\ d.reader = e.reader
      /\ d.writer = e.writer /\ d.queue = e.queue /\ d.closed = e.closed
      /\ d.permit = e.permit /\ d.late = e.late
  BY <1>1, Zenon DEF EndType
<1> HIDE DEF d
<1>10. EndInv(d)
  BY <1>1, <1>9, Zenon DEF EndInv
<1> QED BY <1>1, <1>2, <1>3, <1>7, <1>8, <1>9, <1>10, EndStepInv, Zenon DEF e

(* The connection breaks.                                                  *)
LEMMA BreakInv ==
    ASSUME IInv, NEW c \in Slots, Break(c)
    PROVE  IInv'
<1> DEFINE o == end[c]
           x(m) == [o[m] EXCEPT !.inbox = <<>>]
           p == [m \in Nodes |-> Hung(x(m))]
<1>1. end \in [Slots -> Pairs] /\ o \in Pairs /\ PairInv(o)
  BY DEF IInv
<1>2. end' = [end EXCEPT ![c] = p] /\ links' = links
  BY Zenon DEF Break
<1>3. ASSUME NEW m \in Nodes
      PROVE  SameBut(o[m], p[m]) /\ p[m].inbox = <<>>
  <2> DEFINE e == o[m]
             y == [e EXCEPT !.inbox = <<>>]
  <2>1. e \in EndType /\ <<>> \in Seq(Plain \cup Auths)
    BY <1>1, EmptySeq, Zenon DEF Pairs
  <2>2. p[m] = Hung(y)
    OBVIOUS
  <2> HIDE DEF e
  <2>3. y \in EndType
    BY <2>1, EndUpdates, Zenon
  <2>4. SameBut(e, y) /\ y.inbox = <<>>
    BY <2>1, <2>3, Zenon DEF SameBut, EndType
  <2> HIDE DEF y
  <2>5. SameBut(y, Hung(y)) /\ Hung(y).inbox = y.inbox
    BY <2>1, <2>3, ReachedEnd, Zenon
  <2> QED BY <2>2, <2>4, <2>5, Zenon DEF SameBut, e
<1>4. p \in Pairs
  <2>1. p = [m \in Nodes |-> p[m]]
    OBVIOUS
  <2>2. \A m \in Nodes : p[m] \in EndType
    BY <1>3, Zenon DEF SameBut
  <2> HIDE DEF p
  <2> QED BY <2>1, <2>2, Zenon DEF Pairs
<1> HIDE DEF p, o
<1>5. PairInv(p)
  <2>1. \A m \in Nodes : p[m].hs = o[m].hs /\ p[Peer(m)].hs = o[Peer(m)].hs
    BY <1>3, TwoNodes, Zenon DEF SameBut
  <2>2. HandshakeInv(p)
    <3>1. \A m \in Nodes : p[m].inbox \in Seq(Plain \cup AuthSent(Peer(m), p[Peer(m)].hs))
      BY <1>3, EmptySeq, Zenon
    <3>2. HandshakeInv(o)
      BY <1>1, Zenon DEF PairInv
    <3> QED BY <2>1, <3>1, <3>2, Zenon DEF HandshakeInv
  <2>3. RolesInv(p)
    <3>1. Vacant(p) <=> Vacant(o)
      BY <1>3, Zenon DEF SameBut, Vacant
    <3>2. p[1].hs = o[1].hs /\ p[2].hs = o[2].hs
      BY <2>1, Zenon DEF Nodes
    <3> QED BY <1>1, <1>3, <2>1, <3>1, <3>2, Zenon DEF PairInv, RolesInv
  <2>4. \A m \in Nodes : EndInv(p[m])
    BY <1>1, <1>3 DEF SameBut, EndInv, PairInv
  <2> QED BY <1>4, <2>2, <2>3, <2>4, Zenon DEF PairInv
<1>6. /\ end' \in [Slots -> Pairs] /\ end'[c] = p
      /\ \A d \in Slots \ {c} : end'[d] = end[d]
  BY <1>1, <1>2, <1>4, Zenon
<1>7. \A d \in Slots : PairInv(end'[d])
  BY <1>5, <1>6, Zenon DEF IInv
<1>8. ASSUME NEW m \in Nodes, links[m] # NoLink
      PROVE  LET e == end'[links[m]][m] IN
             e.stage \in {"none", "running"} /\ (e.reader # "reading" => e.late)
  <2>1. links[m] \in Slots
    BY <1>8, Zenon DEF IInv, TableInv
  <2>2. LET e == end[links[m]][m] IN
        e.stage \in {"none", "running"} /\ (e.reader # "reading" => e.late)
    BY <1>8, Zenon DEF IInv, TableInv
  <2>3. CASE links[m] = c
    BY <1>3, <1>6, <2>2, <2>3, Zenon DEF SameBut, o
  <2>4. CASE links[m] # c
    BY <1>6, <2>1, <2>2, <2>4, Zenon
  <2> QED BY <2>3, <2>4, Zenon
<1>9. TableInv'
  BY <1>2, <1>8, Zenon DEF IInv, TableInv
<1> QED BY <1>6, <1>7, <1>9, Zenon DEF IInv

(* dial_loop and accept_loop open a connection.                            *)
LEMMA DialInv ==
    ASSUME IInv, NEW c \in Slots, NEW n \in Nodes, Dial(n, c)
    PROVE  IInv'
<1> DEFINE mine == Opened(n, "initiator")
           theirs == Opened(Peer(n), "responder")
           p == [m \in Nodes |-> IF m = n THEN mine ELSE theirs]
<1>1. Put(c, n, mine, theirs) /\ links' = links /\ \A m \in Nodes : links[m] # c
  BY Zenon DEF Dial, Free
<1>2. ASSUME NEW m \in Nodes, NEW r \in Roles
      PROVE  /\ Opened(m, r) \in EndType /\ EndInv(Opened(m, r))
             /\ Opened(m, r).stage = "handshake" /\ Opened(m, r).hs = NewHandshake(r)
             /\ \A A : Opened(m, r).inbox \in Seq(Plain \cup A)
  <2> DEFINE f == Frame("hello", HelloOf(Cfg[Peer(m)]))
             z == NoEnd
             x == [z EXCEPT !.stage = "handshake"]
             h == NewHandshake(r)
             y == [x EXCEPT !.hs = h]
             b == <<f>>
             d == [y EXCEPT !.inbox = b]
  <2>1. f \in Plain
    <3>1. Peer(m) \in Nodes
      BY TwoNodes, Zenon
    <3>2. HelloOf(Cfg[Peer(m)]) \in Heard
      BY <3>1, Zenon DEF HelloOf, Heard
    <3> QED BY <3>2 DEF Plain
  <2> HIDE DEF f
  <2>2. \A A : b \in Seq(Plain \cup A)
    <3>1. \A S : \A v \in S : <<v>> \in Seq(S)
      BY SMT
    <3> QED BY <2>1, <3>1, Zenon
  <2>3. Opened(m, r) = d
    BY Zenon DEF Opened, f
  <2>4. /\ z \in EndType /\ z.reader = "off" /\ z.writer = "off" /\ h \in HsType
        /\ z.queue = <<>> /\ ~z.closed /\ h.state = "AwaitingHello"
    BY NoEndType, Zenon DEF NoEnd, NewHandshake
  <2> HIDE DEF z, h, b
  <2>5. x \in EndType
    BY <2>4, EndUpdates, Zenon
  <2>6. /\ x.stage = "handshake" /\ x.reader = "off" /\ x.writer = "off"
        /\ x.queue = <<>> /\ ~x.closed
    BY <2>4, Zenon DEF EndType
  <2> HIDE DEF x
  <2>7. y \in EndType
    BY <2>4, <2>5, EndUpdates, Zenon
  <2>8. /\ y.stage = "handshake" /\ y.reader = "off" /\ y.writer = "off" /\ y.hs = h
        /\ y.queue = <<>> /\ ~y.closed
    BY <2>5, <2>6, Zenon DEF EndType
  <2> HIDE DEF y
  <2>9. d \in EndType
    BY <2>2, <2>7, EndUpdates, Zenon
  <2>10. /\ d.stage = "handshake" /\ d.reader = "off" /\ d.writer = "off" /\ d.hs = h
         /\ d.inbox = b /\ d.queue = <<>> /\ ~d.closed
    BY <2>7, <2>8, Zenon DEF EndType
  <2> HIDE DEF d
  <2>11. EndInv(d)
    BY <2>4, <2>10, Zenon DEF EndInv
  <2> QED BY <2>2, <2>3, <2>9, <2>10, <2>11, Zenon DEF h
<1>3. "initiator" \in Roles /\ "responder" \in Roles /\ Peer(n) \in Nodes
  BY TwoNodes, Zenon DEF Roles
<1>4. p[n] = mine /\ p[Peer(n)] = theirs
  BY TwoNodes, Zenon
<1>5. \A m \in Nodes : p[m] \in EndType
  BY <1>2, <1>3, <1>4, TwoNodes, Zenon
<1>6. p \in Pairs
  BY <1>5, Zenon DEF Pairs
<1>7. \A m \in Nodes : EndInv(p[m])
  BY <1>2, <1>3, <1>4, TwoNodes, Zenon
<1>8. /\ p[n].hs.role = "initiator" /\ p[Peer(n)].hs.role = "responder"
      /\ \A m \in Nodes : p[m].hs.state = "AwaitingHello"
  <2>1. p[n].hs = NewHandshake("initiator") /\ p[Peer(n)].hs = NewHandshake("responder")
    BY <1>2, <1>3, <1>4, Zenon
  <2> HIDE DEF p
  <2> QED BY <2>1, TwoNodes DEF NewHandshake
<1>9. \A m \in Nodes : \A A : p[m].inbox \in Seq(Plain \cup A)
  BY <1>2, <1>3, <1>4, TwoNodes, Zenon
<1> HIDE DEF p, mine, theirs
<1>10. HandshakeInv(p)
  BY <1>8, <1>9, Zenon DEF HandshakeInv
<1>11. p[1].hs.role # p[2].hs.role
  <2>1. (n = 1 /\ Peer(n) = 2) \/ (n = 2 /\ Peer(n) = 1)
    BY SMT DEF Nodes, Peer
  <2> QED BY <1>8, <2>1, Zenon
<1>12. links \in [Nodes -> Slots \cup {NoLink}]
  BY Zenon DEF IInv, TableInv
<1> QED BY <1>1, <1>4, <1>6, <1>7, <1>10, <1>11, <1>12, PutStepInv, Zenon

-----------------------------------------------------------------------------
(* The handshake.                                                          *)

(* A frame that the machine of handshake.rs accepts.  The AUTH is where    *)
(* the two transcripts are compared: the peer's MAC is over the HELLOs as  *)
(* the peer has them.                                                      *)
LEMMA FrameAccepted ==
    ASSUME NEW n \in Nodes, NEW h \in HsType, h.state # "Done",
           h.state = "AwaitingChallenge" => h.role = "initiator",
           NEW k \in HsType, NEW f \in Plain \cup AuthSent(Peer(n), k), h.role # k.role,
           OnFrame(Cfg[n], h, f).hs.state # "Refused"
    PROVE  LET g == OnFrame(Cfg[n], h, f).hs IN
           /\ g \in HsType /\ g.role = h.role
           /\ AuthSent(n, h) \subseteq AuthSent(n, g)
           /\ OnFrame(Cfg[n], h, f).send \in Seq(Plain \cup AuthSent(n, g))
           /\ g.state = "AwaitingChallenge" => g.role = "initiator"
           /\ g.state = "Done" => /\ g.peer = HelloOf(Cfg[Peer(n)])
                                  /\ g.role = "initiator" => k.state = "Done"
<1> DEFINE step == OnFrame(Cfg[n], h, f)
           g == step.hs
<1>1. h.state \in {"AwaitingHello", "AwaitingChallenge", "AwaitingAuth"} /\ h.role \in Roles
  BY SMT DEF HsType
<1>2. \A S : <<>> \in Seq(S) /\ \A x \in S : <<x>> \in Seq(S)
  BY SMT
<1>3. Refuse(h).hs.state = "Refused"
  <2>1. [h EXCEPT !.state = "Refused"].state = "Refused"
    BY SMT DEF HsType
  <2> QED BY <2>1, Zenon DEF Refuse
<1>4. ASSUME NEW s \in {"AwaitingChallenge", "AwaitingAuth", "Done"}
      PROVE  LET x == [h EXCEPT !.state = s] IN
             x \in HsType /\ x.state = s /\ x.role = h.role /\ x.peer = h.peer
  BY SMT DEF HsType
<1>5. CASE h.state = "AwaitingHello"
  <2> DEFINE y(s) == [h EXCEPT !.state = s]
             x(s) == [h EXCEPT !.state = s, !.peer = f.body]
  <2>1. step = OnHello(Cfg[n], h, f)
    BY <1>5, Zenon DEF OnFrame
  <2>2. f.kind = "hello" /\ Refusal(Cfg[n], f.body) = "none"
    BY <1>3, <2>1, Zenon DEF OnHello
  <2>3. f.body \in Hellos
    BY <2>2, HelloFrames, Zenon DEF Hellos
  <2>4. ASSUME NEW s \in {"AwaitingChallenge", "AwaitingAuth"}
        PROVE  x(s) \in HsType /\ x(s).state = s /\ x(s).role = h.role
    <3> DEFINE z == y(s)
    <3>1. z \in HsType /\ z.state = s /\ z.role = h.role
      BY <1>4, Zenon
    <3>2. x(s) = [z EXCEPT !.peer = f.body]
      OBVIOUS
    <3> HIDE DEF z, x
    <3> QED BY <2>3, <3>1, <3>2, Zenon DEF HsType
  <2>5. CASE h.role = "responder"
    <3>1. step = [hs |-> x("AwaitingAuth"), send |-> <<Frame("challenge", "nonce")>>]
      BY <2>1, <2>2, <2>5, Zenon DEF OnHello
    <3> HIDE DEF x
    <3>2. g = x("AwaitingAuth") /\ step.send = <<Frame("challenge", "nonce")>>
      BY <3>1
    <3>3. AuthSent(n, h) = {} /\ Frame("challenge", "nonce") \in Plain \cup AuthSent(n, g)
      BY <1>5 DEF AuthSent, Plain
    <3>4. step.send \in Seq(Plain \cup AuthSent(n, g))
      BY <1>2, <3>2, <3>3, Zenon
    <3> HIDE DEF step
    <3> QED BY <2>4, <3>2, <3>3, <3>4, Zenon DEF step
  <2>6. CASE h.role # "responder"
    <3>1. step = [hs |-> x("AwaitingChallenge"), send |-> <<>>]
      BY <2>1, <2>2, <2>6, Zenon DEF OnHello
    <3> HIDE DEF x
    <3>2. g = x("AwaitingChallenge") /\ step.send = <<>>
      BY <3>1
    <3>3. AuthSent(n, h) = {} /\ h.role = "initiator"
      BY <1>1, <1>5, <2>6, Zenon DEF AuthSent, Roles
    <3>4. step.send \in Seq(Plain \cup AuthSent(n, g))
      BY <1>2, <3>2, Zenon
    <3> QED BY <2>4, <3>2, <3>3, <3>4, Zenon
  <2> QED BY <2>5, <2>6, Zenon
<1>6. CASE h.state = "AwaitingChallenge"
  <2> DEFINE x == [h EXCEPT !.state = "AwaitingAuth"]
             a == Frame("auth", AuthMac(Cfg[n], h, h.role))
  <2>1. step = OnChallenge(Cfg[n], h, f)
    BY <1>6, Zenon DEF OnFrame
  <2>2. step = [hs |-> x, send |-> <<a>>]
    BY <1>3, <2>1, Zenon DEF OnChallenge
  <2>3. x \in HsType /\ x.state = "AwaitingAuth" /\ x.role = h.role /\ x.peer = h.peer
    BY <1>4, Zenon
  <2> HIDE DEF x
  <2>4. g = x /\ step.send = <<a>>
    BY <2>2
  <2>5. AuthSent(n, h) = {}
    BY <1>6, Zenon DEF AuthSent
  <2>6. AuthMac(Cfg[n], x, x.role) = AuthMac(Cfg[n], h, h.role)
    BY <2>3, Zenon DEF AuthMac, Transcript
  <2>7. a \in AuthSent(n, x)
    BY <1>6, <2>3, <2>6, Zenon DEF AuthSent
  <2> HIDE DEF a
  <2>8. step.send \in Seq(Plain \cup AuthSent(n, g))
    BY <1>2, <2>4, <2>7, Zenon
  <2> QED BY <2>3, <2>4, <2>5, <2>8, Zenon
<1>7. CASE h.state = "AwaitingAuth"
  <2> DEFINE x == [h EXCEPT !.state = "Done"]
             a == Frame("auth", AuthMac(Cfg[n], h, "responder"))
             b == Frame("auth", AuthMac(Cfg[Peer(n)], k, k.role))
  <2>1. step = OnAuth(Cfg[n], h, f)
    BY <1>7, Zenon DEF OnFrame
  <2>2. f.kind = "auth" /\ f.body = AuthMac(Cfg[n], h, OtherRole(h.role))
    BY <1>3, <2>1, Zenon DEF OnAuth
  <2>3. step = [hs |-> x, send |-> IF h.role = "responder" THEN <<a>> ELSE <<>>]
    BY <2>1, <2>2, Zenon DEF OnAuth
  <2>4. x \in HsType /\ x.state = "Done" /\ x.role = h.role /\ x.peer = h.peer
    BY <1>4, Zenon
  <2> HIDE DEF x
  <2>5. g = x /\ step.send = IF h.role = "responder" THEN <<a>> ELSE <<>>
    BY <2>3
  <2>6. AuthMac(Cfg[n], x, x.role) = AuthMac(Cfg[n], h, h.role)
    BY <2>4, Zenon DEF AuthMac, Transcript
  <2>7. AuthSent(n, x) = {Frame("auth", AuthMac(Cfg[n], h, h.role))}
    BY <2>4, <2>6, Zenon DEF AuthSent
  <2>8. AuthSent(n, h) \subseteq AuthSent(n, x)
    BY <2>7, Zenon DEF AuthSent
  <2>9. step.send \in Seq(Plain \cup AuthSent(n, g))
    BY <1>2, <2>5, <2>7, Zenon
  <2>10. f \in AuthSent(Peer(n), k)
    BY <2>2, HelloFrames, Zenon
  <2>11. /\ f = b
         /\ k.state = "Done" \/ (k.role = "initiator" /\ k.state = "AwaitingAuth")
    BY <2>10, Zenon DEF AuthSent
  <2>12. AuthMac(Cfg[Peer(n)], k, k.role) = AuthMac(Cfg[n], h, OtherRole(h.role))
    BY <2>2, <2>11, Zenon DEF Frame
  <2>13. Transcript(Cfg[Peer(n)], k) = Transcript(Cfg[n], h)
    BY <2>12, Zenon DEF AuthMac
  <2>14. h.peer = HelloOf(Cfg[Peer(n)])
    <3>1. k.role \in Roles
      BY SMT DEF HsType
    <3>2. CASE h.role = "initiator"
      BY <2>13, <3>1, <3>2, Zenon DEF Transcript, Roles
    <3>3. CASE h.role = "responder"
      BY <2>13, <3>1, <3>3, Zenon DEF Transcript, Roles
    <3> QED BY <1>1, <3>2, <3>3, Zenon DEF Roles
  <2>15. h.role = "initiator" => k.state = "Done"
    BY <2>11, Zenon
  <2> HIDE DEF a, b
  <2> QED BY <2>4, <2>5, <2>8, <2>9, <2>14, <2>15, Zenon
<1> QED BY <1>1, <1>5, <1>6, <1>7, Zenon

(* run_handshake reads a frame.                                            *)
LEMMA HandshakeStepInv ==
    ASSUME IInv, NEW c \in Slots, NEW n \in Nodes, HandshakeStep(c, n)
    PROVE  IInv'
<1> DEFINE e == end[c][n]
           o == end[c][Peer(n)]
           h == e.hs
           k == o.hs
           f == Head(e.inbox)
           step == OnFrame(Cfg[n], h, f)
           g == step.hs
           t == Tail(e.inbox)
           x == [e EXCEPT !.hs = g]
           y == [x EXCEPT !.inbox = t]
           z == [y EXCEPT !.stage = "spawned", !.reader = "reading", !.writer = "wait"]
           mine == IF g.state = "Done" THEN z ELSE y
           theirs == Arrived(o, step.send)
<1>1. /\ e \in EndType /\ EndInv(e) /\ e.stage = "handshake" /\ e.inbox # <<>>
      /\ e.inbox \in Seq(Plain \cup AuthSent(Peer(n), k))
      /\ o \in EndType /\ o.inbox \in Seq(Plain \cup AuthSent(n, h))
      /\ links \in [Nodes -> Slots \cup {NoLink}] /\ links' = links /\ links[n] # c
  BY EndFacts, Zenon DEF HandshakeStep
<1>2. CASE g.state = "Refused"
  BY <1>1, <1>2, DropInv, Zenon DEF HandshakeStep
<1>3. CASE g.state # "Refused"
  <2>1. Put(c, n, mine, theirs)
    BY <1>3, Zenon DEF HandshakeStep
  <2>2. /\ PairInv(end[c]) /\ h.state # "Done" /\ h \in HsType /\ k \in HsType
        /\ e.inbox \in Seq(Plain \cup Auths)
    <3>1. PairInv(end[c]) /\ h.state # "Done"
      BY <1>1, Zenon DEF IInv, EndInv
    <3> HIDE DEF e, o
    <3> QED BY <1>1, <3>1, Zenon DEF EndType
  <2>3. /\ h.state = "AwaitingChallenge" => h.role = "initiator"
        /\ k.state = "AwaitingChallenge" => k.role = "initiator"
        /\ k.state = "Done" => k.peer = HelloOf(Cfg[n]) /\ k.role # "initiator"
    <3>1. HandshakeInv(end[c]) /\ Peer(n) \in Nodes /\ Peer(Peer(n)) = n
      BY <2>2, TwoNodes, Zenon DEF PairInv
    <3>2. h.state = "AwaitingChallenge" => h.role = "initiator"
      BY <3>1, Zenon DEF HandshakeInv
    <3>3. /\ k.state = "AwaitingChallenge" => k.role = "initiator"
          /\ k.state = "Done" => /\ k.peer = HelloOf(Cfg[n])
                                 /\ k.role = "initiator" => h.state = "Done"
      BY <3>1, Zenon DEF HandshakeInv
    <3> QED BY <2>2, <3>2, <3>3, Zenon
  <2>4. h.role # k.role
    BY <1>1, <2>2 DEF PairInv, RolesInv, Vacant, Nodes, Peer
  <2>5. /\ f \in Plain \cup AuthSent(Peer(n), k) /\ t \in Seq(Plain \cup Auths)
        /\ t \in Seq(Plain \cup AuthSent(Peer(n), k))
    <3>1. \A S : \A q \in Seq(S) : q # <<>> => Tail(q) \in Seq(S) /\ Head(q) \in S
      BY SeqFacts
    <3> HIDE DEF e, k
    <3> QED BY <1>1, <2>2, <3>1, Zenon
  <2> HIDE DEF f, t
  <2>6. /\ g \in HsType /\ g.role = h.role
        /\ AuthSent(n, h) \subseteq AuthSent(n, g)
        /\ step.send \in Seq(Plain \cup AuthSent(n, g))
        /\ g.state = "AwaitingChallenge" => g.role = "initiator"
        /\ g.state = "Done" => /\ g.peer = HelloOf(Cfg[Peer(n)])
                               /\ g.role = "initiator" => k.state = "Done"
    BY <1>3, <2>2, <2>3, <2>4, <2>5, FrameAccepted, Zenon
  <2> HIDE DEF step
  <2>7. AuthSent(n, g) \subseteq Auths
    BY <2>6 DEF AuthSent, Auths
  <2>8. /\ step.send \in Seq(Plain \cup Auths)
        /\ o.inbox \in Seq(Plain \cup AuthSent(n, g))
    <3>1. Plain \cup AuthSent(n, g) \subseteq Plain \cup Auths
      BY <2>7, Zenon
    <3>2. Plain \cup AuthSent(n, h) \subseteq Plain \cup AuthSent(n, g)
      BY <2>6, Zenon
    <3>3. \A S, T : S \subseteq T => \A q \in Seq(S) : q \in Seq(T)
      BY SeqFacts
    <3> HIDE DEF o, h, g
    <3> QED BY <1>1, <2>6, <3>1, <3>2, <3>3, Zenon
  <2>9. SameBut(o, theirs) /\ theirs.inbox \in Seq(Plain \cup AuthSent(n, g))
    <3>1. o.inbox \o step.send \in Seq(Plain \cup AuthSent(n, g))
      BY <2>6, <2>8, SeqFacts, Zenon
    <3> HIDE DEF o
    <3> QED BY <1>1, <2>8, <3>1, ReachedEnd, Zenon
  <2> HIDE DEF theirs, g
  <2>10. x \in EndType
    <3> HIDE DEF e
    <3> QED BY <1>1, <2>6, EndUpdates, Zenon
  <2>11. /\ x.stage = "handshake" /\ x.hs = g /\ x.reader = e.reader /\ x.writer = e.writer
         /\ x.queue = e.queue /\ x.closed = e.closed /\ x.permit = e.permit
    <3> HIDE DEF e
    <3> QED BY <1>1, Zenon DEF EndType
  <2> HIDE DEF x
  <2>12. y \in EndType
    BY <2>5, <2>10, EndUpdates, Zenon
  <2>13. /\ y.stage = "handshake" /\ y.hs = g /\ y.reader = e.reader /\ y.writer = e.writer
         /\ y.queue = e.queue /\ y.closed = e.closed /\ y.permit = e.permit /\ y.inbox = t
    <3> HIDE DEF e
    <3> QED BY <2>10, <2>11, Zenon DEF EndType
  <2> HIDE DEF y
  <2>14. z \in EndType /\ z.inbox = t /\ z.hs = g /\ (g.state = "Done" => EndInv(z))
    <3> DEFINE a == [y EXCEPT !.stage = "spawned"]
               b == [a EXCEPT !.reader = "reading"]
               d == [b EXCEPT !.writer = "wait"]
    <3>1. a \in EndType
      BY <2>12, EndUpdates, Zenon
    <3>2. /\ a.stage = "spawned" /\ a.hs = g /\ a.queue = e.queue /\ a.closed = e.closed
          /\ a.inbox = t
      <4> HIDE DEF e
      <4> QED BY <2>12, <2>13, Zenon DEF EndType
    <3>3. z = d
      OBVIOUS
    <3> HIDE DEF a
    <3>4. b \in EndType
      BY <3>1, EndUpdates, Zenon
    <3>5. /\ b.stage = "spawned" /\ b.hs = g /\ b.queue = e.queue /\ b.closed = e.closed
          /\ b.inbox = t /\ b.reader = "reading"
      <4> HIDE DEF e
      <4> QED BY <3>1, <3>2, Zenon DEF EndType
    <3> HIDE DEF b
    <3>6. d \in EndType
      BY <3>4, EndUpdates, Zenon
    <3>7. /\ d.stage = "spawned" /\ d.hs = g /\ d.queue = e.queue /\ d.closed = e.closed
          /\ d.inbox = t /\ d.reader = "reading"
      <4> HIDE DEF e
      <4> QED BY <3>4, <3>5, Zenon DEF EndType
    <3> HIDE DEF d, z
    <3>8. EndInv(d)
      BY <1>1, <3>7, Zenon DEF EndInv
    <3> QED BY <3>3, <3>6, <3>7, <3>8, Zenon
  <2>15. g.state # "Done" => EndInv(y)
    BY <1>1, <2>13, Zenon DEF EndInv
  <2>16. mine \in EndType /\ EndInv(mine) /\ mine.inbox = t /\ mine.hs = g
    BY <2>12, <2>13, <2>14, <2>15, Zenon
  <2> HIDE DEF mine
  <2> DEFINE p == [m \in Nodes |-> IF m = n THEN mine ELSE theirs]
  <2>17. p[n] = mine /\ p[Peer(n)] = theirs
    BY TwoNodes, Zenon
  <2>18. theirs \in EndType /\ theirs.hs = k /\ EndInv(theirs)
    <3>1. EndInv(o)
      BY <2>2, TwoNodes, Zenon DEF PairInv
    <3> HIDE DEF o
    <3> QED BY <2>9, <3>1, Zenon DEF SameBut, EndInv
  <2>19. p \in Pairs
    BY <2>16, <2>18, Zenon DEF Pairs
  <2> HIDE DEF p
  <2>20. \A m \in Nodes : EndInv(p[m])
    BY <2>16, <2>17, <2>18, TwoNodes, Zenon
  <2>21. p[1].hs.role # p[2].hs.role
    <3>1. (n = 1 /\ Peer(n) = 2) \/ (n = 2 /\ Peer(n) = 1)
      BY SMT DEF Nodes, Peer
    <3>2. p[n].hs.role = h.role /\ p[Peer(n)].hs.role = k.role
      BY <2>6, <2>16, <2>17, <2>18, Zenon
    <3> QED BY <2>4, <3>1, <3>2, Zenon
  <2>22. HandshakeInv(p)
    <3> DEFINE Ok(m) ==
          /\ p[m].inbox \in Seq(Plain \cup AuthSent(Peer(m), p[Peer(m)].hs))
          /\ p[m].hs.state = "AwaitingChallenge" => p[m].hs.role = "initiator"
          /\ p[m].hs.state = "Done" =>
               /\ p[m].hs.peer = HelloOf(Cfg[Peer(m)])
               /\ p[m].hs.role = "initiator" => p[Peer(m)].hs.state = "Done"
    <3>1. Peer(Peer(n)) = n
      BY TwoNodes, Zenon
    <3>2. Ok(n)
      BY <2>5, <2>6, <2>16, <2>17, <2>18, Zenon
    <3>3. Ok(Peer(n))
      BY <2>3, <2>9, <2>16, <2>17, <2>18, <3>1, Zenon
    <3>4. \A m \in Nodes : Ok(m)
      BY <3>2, <3>3, TwoNodes, Zenon
    <3> QED BY <3>4, Zenon DEF HandshakeInv
  <2>23. ASSUME NEW m \in Nodes, links'[m] = c
         PROVE  p[m].stage \in {"none", "running"} /\ (p[m].reader # "reading" => p[m].late)
    <3>1. m = Peer(n) /\ links[m] = c /\ c # NoLink
      BY <1>1, <2>23, TwoNodes, LinksAssumption, Zenon
    <3>2. o.stage \in {"none", "running"} /\ (o.reader # "reading" => o.late)
      BY <3>1, Zenon DEF IInv, TableInv
    <3> HIDE DEF o
    <3> QED BY <2>9, <2>17, <3>1, <3>2, Zenon DEF SameBut
  <2> QED BY <1>1, <2>1, <2>17, <2>19, <2>20, <2>21, <2>22, <2>23, PutStepInv, ZenonT(40)
<1> QED BY <1>2, <1>3, Zenon

-----------------------------------------------------------------------------
(* No connection is open at first.                                         *)
LEMMA InitInv == Init => IInv
<1> SUFFICES ASSUME Init PROVE IInv
    OBVIOUS
<1> DEFINE p == [n \in Nodes |-> NoEnd]
<1>1. end = [c \in Slots |-> p] /\ links = [n \in Nodes |-> NoLink]
  BY DEF Init
<1>2. p \in Pairs
  BY NoEndType, Zenon DEF Pairs
<1>3. \A n \in Nodes : /\ p[n].stage = "none" /\ p[n].reader = "off" /\ p[n].writer = "off"
                       /\ p[n].inbox = <<>> /\ p[n].hs.state = "AwaitingHello"
  BY Zenon DEF NoEnd, NewHandshake
<1> HIDE DEF p
<1>4. PairInv(p)
  <2>1. \A n \in Nodes : EndInv(p[n])
    BY <1>3, Zenon DEF EndInv
  <2>2. RolesInv(p)
    BY <1>3, Zenon DEF RolesInv, Vacant, Nodes
  <2>3. HandshakeInv(p)
    BY <1>3, EmptySeq, Zenon DEF HandshakeInv
  <2> QED BY <1>2, <2>1, <2>2, <2>3, Zenon DEF PairInv
<1>5. TableInv
  BY <1>1, Zenon DEF TableInv
<1> QED BY <1>1, <1>2, <1>4, <1>5, Zenon DEF IInv

(* Every step keeps the invariant.                                         *)
LEMMA NextInv == IInv /\ [Next]_vars => IInv'
<1> SUFFICES ASSUME IInv, [Next]_vars PROVE IInv'
    OBVIOUS
<1>1. CASE UNCHANGED vars
  BY <1>1, Zenon DEF vars, IInv, TableInv
<1>2. ASSUME NEW c \in Slots, NEW n \in Nodes, Dial(n, c) PROVE IInv'
  BY <1>2, DialInv, Zenon
<1>3. ASSUME NEW c \in Slots, NEW n \in Nodes, EndStep(c, n) PROVE IInv'
  <2>1. CASE HandshakeEof(c, n)
    BY <2>1, DropInv, Zenon DEF HandshakeEof
  <2> QED BY <1>3, <2>1, HandshakeStepInv, RegisterInv, WriterWakeInv, ReaderFrameInv,
             ReaderEndInv, Zenon DEF EndStep
<1>4. ASSUME NEW c \in Slots, NEW n \in Nodes, SendPing(c, n) \/ IdleDead(c, n) PROVE IInv'
  BY <1>4, KeepaliveInv, Zenon
<1>5. ASSUME NEW c \in Slots, NEW n \in Nodes, AuthTimeout(c, n) PROVE IInv'
  BY <1>5, DropInv, Zenon DEF AuthTimeout
<1>6. ASSUME NEW c \in Slots, NEW n \in Nodes, Alter(c, n) PROVE IInv'
  BY <1>6, AlterInv, Zenon
<1>7. ASSUME NEW c \in Slots, Break(c) PROVE IInv'
  BY <1>7, BreakInv, Zenon
<1> QED BY <1>1, <1>2, <1>3, <1>4, <1>5, <1>6, <1>7, Zenon DEF Next

(* The inductive invariant of the theorems below.                          *)
THEOREM Invariance == Spec => []IInv
BY InitInv, NextInv, PTL DEF Spec

(* A writer that has something to do has a wakeup stored, however push,    *)
(* close and the writer's loop interleave (queue.rs, writer_loop).         *)
THEOREM WakeupsArrive == Spec => []NoLostWakeup
<1>1. IInv => NoLostWakeup
  BY Zenon DEF IInv, PairInv, EndInv, NoLostWakeup
<1> QED BY <1>1, Invariance, PTL

(* The table of links goes stale in one way only: with a link that was     *)
(* dead before register put it there (register, on_link_closed).           *)
THEOREM StaleEntriesWereDead == Spec => []StaleOnlyIfDeadOnArrival
<1>1. IInv => StaleOnlyIfDeadOnArrival
  BY Zenon DEF IInv, TableInv, StaleOnlyIfDeadOnArrival
<1> QED BY <1>1, Invariance, PTL

(* Whatever two nodes are configured to, and whatever happens to the       *)
(* HELLOs on the way, the ends of a link that is through the handshake     *)
(* have each other's HELLO and negotiated the same (handshake.rs).         *)
THEOREM EndsOfALinkAgree == Spec => []EndsAgree
<1>1. IInv => EndsAgree
  <2> SUFFICES ASSUME IInv, NEW c \in Slots, NEW n \in Nodes, Established(c, n)
               PROVE  /\ end[c][n].hs.peer = HelloOf(Cfg[Peer(n)])
                      /\ end[c][n].hs.role = "initiator" =>
                           /\ Established(c, Peer(n))
                           /\ Negotiated(Cfg[n], end[c][n].hs.peer)
                                = Negotiated(Cfg[Peer(n)], end[c][Peer(n)].hs.peer)
    BY Zenon DEF EndsAgree
  <2>1. HandshakeInv(end[c]) /\ Peer(n) \in Nodes /\ Peer(Peer(n)) = n
    BY TwoNodes, Zenon DEF IInv, PairInv
  <2>2. /\ end[c][n].hs.peer = HelloOf(Cfg[Peer(n)])
        /\ end[c][n].hs.role = "initiator" => Established(c, Peer(n))
    BY <2>1, Zenon DEF HandshakeInv, Established
  <2>3. Established(c, Peer(n)) => end[c][Peer(n)].hs.peer = HelloOf(Cfg[n])
    BY <2>1, Zenon DEF HandshakeInv, Established
  <2>4. Negotiated(Cfg[n], HelloOf(Cfg[Peer(n)])) = Negotiated(Cfg[Peer(n)], HelloOf(Cfg[n]))
    BY <2>1, NegotiationAgrees, LinksAssumption, Zenon DEF Sizes
  <2> QED BY <2>2, <2>3, <2>4, Zenon
<1> QED BY <1>1, Invariance, PTL
=============================================================================
