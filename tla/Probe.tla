------------------------------- MODULE Probe --------------------------------
(***************************************************************************)
(* The UDP probe plane (probe.rs): each node pings one member per period,  *)
(* asks helpers to ping it when no answer comes, and suspects it when they *)
(* get none either.  PING and PING-REQ carry the sender's (incarnation,    *)
(* seq); a receiver keeps the highest per sender and drops the rest as     *)
(* replays.                                                                *)
(*                                                                         *)
(* A packet once sent may arrive at any time, never or several times: net  *)
(* only grows.  Packets that fail to decode or to authenticate change      *)
(* nothing but counters.  The TCP plane appears as Refute: a running node  *)
(* that is held Suspect or Dead takes a new incarnation, and all see it    *)
(* Alive.                                                                  *)
(***************************************************************************)
EXTENDS Naturals, FiniteSets

CONSTANTS
    Members,    \* node ids
    Mortal,     \* the nodes that may crash
    IndirectK,  \* params.indirect_k
    NoNode,     \* no probe target
    MaxSeq,     \* bound: node -> the probes it starts
    MaxInc      \* bound: node -> its incarnations

ASSUME ProbeAssumption ==
    /\ Mortal \subseteq Members /\ NoNode \notin Members
    /\ IndirectK \in Nat /\ MaxSeq \in [Members -> Nat] /\ MaxInc \in [Members -> Nat]

VARIABLES
    up,        \* the nodes that are running
    inc,       \* node -> its incarnation
    state,     \* node -> peer -> state in the member table
    phase,     \* probe_loop: "sleep", "direct" or "indirect"
    target,    \* node -> the member it is probing
    seq,       \* node -> the last seq it used
    pending,   \* node -> seqs without an answer, with their targets
    mark,      \* node -> sender -> highest stamp accepted
    net,       \* packets sent
    handled,   \* history: packets accepted, with their receivers
    heard,     \* history: node -> its running probe was answered by its target
    relayed    \* history: node -> targets it pinged on behalf of others

loopVars == <<phase, target, seq, pending, heard>>
probeVars == <<up, inc, state, loopVars, mark, net, handled, relayed>>

Stamp(i, s) == [inc |-> i, seq |-> s]

\* The order of the stamps, off by one in the seq.
AboveNext(a, b) == a.inc > b.inc \/ (a.inc = b.inc /\ a.seq > b.seq + 1)

\* The order of the stamps: by incarnation, then by seq.
Above(a, b) == a.inc > b.inc \/ (a.inc = b.inc /\ a.seq > b.seq)

Ping(from, to, s, i, replyTo) ==
    [kind |-> "ping", from |-> from, to |-> to, stamp |-> Stamp(i, s), aux |-> replyTo]
PingReq(from, to, s, i, of) ==
    [kind |-> "pingReq", from |-> from, to |-> to, stamp |-> Stamp(i, s), aux |-> of]
Ack(from, to, s, i) ==
    [kind |-> "ack", from |-> from, to |-> to, stamp |-> Stamp(i, s), aux |-> to]

ProbeInit ==
    /\ up = Members
    /\ inc = [n \in Members |-> 1]
    /\ state = [n \in Members |-> [p \in Members |-> "Alive"]]
    /\ phase = [n \in Members |-> "sleep"]
    /\ target = [n \in Members |-> NoNode]
    /\ seq = [n \in Members |-> 0]
    /\ pending = [n \in Members |-> {}]
    /\ mark = [n \in Members |-> [p \in Members |-> Stamp(0, 0)]]
    /\ net = {} /\ handled = {}
    /\ heard = [n \in Members |-> FALSE]
    /\ relayed = [n \in Members |-> {}]

-----------------------------------------------------------------------------
(* probe_loop.                                                             *)

Current(n) == [seq |-> seq[n], of |-> target[n]]

\* expire_suspects: the suspicions in late have timed out.
Expired(n, late) == [state EXCEPT ![n] = [p \in Members |-> IF p \in late THEN "Dead" ELSE @[p]]]

\* next_probe_target goes round the members that are not Dead, in any order.
ProbeTargets(n, late) == {p \in Members \ {n} : state[n][p] # "Dead" /\ p \notin late}

\* A period has passed: suspicions time out and a member is pinged.
StartProbe(n) ==
    /\ n \in up
    /\ phase[n] = "sleep" /\ seq[n] < MaxSeq[n]
    /\ \E late \in SUBSET {p \in Members : state[n][p] = "Suspect"} :
       \E t \in ProbeTargets(n, late) :
        /\ state' = Expired(n, late)
        /\ target' = [target EXCEPT ![n] = t]
        /\ seq' = [seq EXCEPT ![n] = @ + 1]
        /\ pending' = [pending EXCEPT ![n] = @ \cup {[seq |-> seq[n] + 1, of |-> t]}]
        /\ net' = net \cup {Ping(n, t, seq[n] + 1, inc[n], n)}
    /\ phase' = [phase EXCEPT ![n] = "direct"]
    /\ heard' = [heard EXCEPT ![n] = FALSE]
    /\ UNCHANGED <<up, inc, mark, handled, relayed>>

\* A period has passed and nobody is left to ping.
NobodyToProbe(n) ==
    /\ n \in up
    /\ phase[n] = "sleep"
    /\ \E late \in SUBSET {p \in Members : state[n][p] = "Suspect"} :
        /\ late # {} /\ ProbeTargets(n, late) = {}
        /\ state' = Expired(n, late)
    /\ UNCHANGED <<up, inc, loopVars, mark, net, handled, relayed>>

Waiting(n) == \E x \in pending[n] : x.seq = seq[n]

\* indirect_helpers: k Alive members other than the target, or all of them.
Helpers(n) == {h \in Members \ {n, target[n]} : state[n][h] = "Alive"}

\* The first timeout.  Answered: the round is over; else the helpers are asked.
DirectTimeout(n) ==
    /\ n \in up /\ phase[n] = "direct"
    /\ \/ /\ ~Waiting(n)
          /\ phase' = [phase EXCEPT ![n] = "sleep"]
          /\ UNCHANGED net
       \/ /\ Waiting(n)
          /\ \E hs \in SUBSET Helpers(n) :
              /\ Cardinality(hs) = IF Cardinality(Helpers(n)) < IndirectK
                                     THEN Cardinality(Helpers(n)) ELSE IndirectK
              /\ net' = net \cup {PingReq(n, h, seq[n], inc[n], target[n]) : h \in hs}
          /\ phase' = [phase EXCEPT ![n] = "indirect"]
    /\ UNCHANGED <<up, inc, state, target, seq, pending, heard, mark, handled, relayed>>

\* A second timeout that forgets to take the probe out of pending.
IndirectTimeoutLeaks(n) ==
    /\ n \in up /\ phase[n] = "indirect"
    /\ state' = IF Waiting(n) /\ state[n][target[n]] = "Alive"
                  THEN [state EXCEPT ![n][target[n]] = "Suspect"] ELSE state
    /\ phase' = [phase EXCEPT ![n] = "sleep"]
    /\ UNCHANGED <<up, inc, target, seq, pending, heard, mark, net, handled, relayed>>

\* The second timeout.  Still no answer: the probe is withdrawn and the target
\* suspected.
IndirectTimeout(n) ==
    /\ n \in up /\ phase[n] = "indirect"
    /\ state' = IF Waiting(n) /\ state[n][target[n]] = "Alive"
                  THEN [state EXCEPT ![n][target[n]] = "Suspect"] ELSE state
    /\ pending' = [pending EXCEPT ![n] = {x \in @ : x.seq # seq[n]}]
    /\ phase' = [phase EXCEPT ![n] = "sleep"]
    /\ UNCHANGED <<up, inc, target, seq, heard, mark, net, handled, relayed>>

-----------------------------------------------------------------------------
(* recv_loop and handle.                                                   *)

\* note_direct_ack.
Cleared(n, p) == [state EXCEPT ![n][p] = IF @ = "Suspect" THEN "Alive" ELSE @]

\* accept_stamp without the mark.
FreshAlways(n, pkt) == TRUE

\* accept_stamp: strictly above the sender's mark.
Fresh(n, pkt) == Above(pkt.stamp, mark[n][pkt.from])

Accept(n, pkt) ==
    /\ pkt \in net /\ pkt.to = n /\ n \in up
    /\ Fresh(n, pkt)
    /\ mark' = [mark EXCEPT ![n][pkt.from] = pkt.stamp]
    /\ handled' = handled \cup {pkt}

\* PING: proof of life of the sender; answered to the origin of the probe,
\* with the probe's seq.
RecvPing(n, pkt) ==
    /\ pkt.kind = "ping"
    /\ Accept(n, pkt)
    /\ state' = Cleared(n, pkt.from)
    /\ net' = net \cup {Ack(n, pkt.aux, pkt.stamp.seq, inc[n])}
    /\ UNCHANGED <<up, inc, loopVars, relayed>>

\* PING-REQ: a PING of our own, with the origin's seq and our incarnation.
RecvPingReq(n, pkt) ==
    /\ pkt.kind = "pingReq"
    /\ Accept(n, pkt)
    /\ net' = net \cup {Ping(n, pkt.aux, pkt.stamp.seq, inc[n], pkt.from)}
    /\ relayed' = [relayed EXCEPT ![n] = @ \cup {pkt.aux}]
    /\ UNCHANGED <<up, inc, state, loopVars>>

\* ACK that does not look at what is pending.
RecvAckAny(n, pkt) ==
    /\ pkt \in net /\ pkt.kind = "ack" /\ pkt.to = n /\ n \in up
    /\ \E x \in pending[n] : TRUE
    /\ pending' = [pending EXCEPT ![n] = {}]
    /\ state' = Cleared(n, pkt.from)
    /\ heard' = [heard EXCEPT ![n] =
                   @ \/ (pkt.stamp.seq = seq[n] /\ pkt.from = target[n])]
    /\ UNCHANGED <<up, inc, phase, target, seq, mark, net, handled, relayed>>

\* ACK: matched by its seq.  The entry goes even when another node than the
\* target answers; only the target's answer is proof of life.
RecvAck(n, pkt) ==
    /\ pkt \in net /\ pkt.kind = "ack" /\ pkt.to = n /\ n \in up
    /\ \E x \in pending[n] :
        /\ x.seq = pkt.stamp.seq
        /\ pending' = [pending EXCEPT ![n] = @ \ {x}]
        /\ state' = IF x.of = pkt.from THEN Cleared(n, pkt.from) ELSE state
    /\ heard' = [heard EXCEPT ![n] =
                   @ \/ (pkt.stamp.seq = seq[n] /\ pkt.from = target[n])]
    /\ UNCHANGED <<up, inc, phase, target, seq, mark, net, handled, relayed>>

-----------------------------------------------------------------------------
Crash(n) ==
    /\ n \in up \cap Mortal
    /\ up' = up \ {n}
    /\ UNCHANGED <<inc, state, loopVars, mark, net, handled, relayed>>

\* The TCP plane: a running node hears that it is Suspect or Dead somewhere
\* and outbids the claim.
Refute(p) ==
    /\ p \in up /\ inc[p] < MaxInc[p]
    /\ \E n \in Members : state[n][p] # "Alive"
    /\ inc' = [inc EXCEPT ![p] = @ + 1]
    /\ state' = [n \in Members |-> [state[n] EXCEPT ![p] = "Alive"]]
    /\ UNCHANGED <<up, loopVars, mark, net, handled, relayed>>

ProbeNext ==
    \/ \E n \in Members : \/ StartProbe(n) \/ NobodyToProbe(n) \/ DirectTimeout(n)
                          \/ IndirectTimeout(n) \/ Crash(n) \/ Refute(n)
    \/ \E n \in Members, pkt \in net :
         RecvPing(n, pkt) \/ RecvPingReq(n, pkt) \/ RecvAck(n, pkt)

ProbeSpec == ProbeInit /\ [][ProbeNext]_probeVars

-----------------------------------------------------------------------------
(* Properties.                                                             *)

Packet == [kind : {"ping", "pingReq", "ack"}, from : Members, to : Members,
           stamp : [inc : Nat, seq : Nat], aux : Members]

\* Every variable has its type.
ProbeTypeOK ==
    /\ up \subseteq Members
    /\ inc \in [Members -> Nat]
    /\ state \in [Members -> [Members -> {"Alive", "Suspect", "Dead"}]]
    /\ phase \in [Members -> {"sleep", "direct", "indirect"}]
    /\ target \in [Members -> Members \cup {NoNode}]
    /\ seq \in [Members -> Nat]
    /\ pending \in [Members -> SUBSET [seq : Nat, of : Members]]
    /\ mark \in [Members -> [Members -> [inc : Nat, seq : Nat]]]
    /\ net \subseteq Packet /\ handled \subseteq net
    /\ heard \in [Members -> BOOLEAN]
    /\ relayed \in [Members -> SUBSET Members]

\* The pending map does not leak: it holds the running probe and nothing else,
\* however late, doubled or misdirected the answers are.
PendingIsCurrent ==
    \A n \in Members : pending[n] \subseteq (IF phase[n] = "sleep" THEN {} ELSE {Current(n)})

\* The verdict of a round is right about what was heard: the probe is still
\* pending exactly when no answer of the target has arrived, so a target is
\* suspected after two silent rounds and never when it answered in time, and a
\* round that ends without suspicion had an answer of the target itself.
VerdictFollowsAnswers ==
    \A n \in Members : phase[n] # "sleep" => (Waiting(n) <=> ~heard[n])

\* Replays and strays are no proof of life: a suspicion goes only with a PING
\* never accepted before, the answer to the running probe or a new
\* incarnation of the suspect.
ClearedByFreshEvidence ==
    [][\A n, p \in Members :
         state[n][p] = "Suspect" /\ state'[n][p] = "Alive" =>
           \/ \E q \in handled' \ handled : q.kind = "ping" /\ q.from = p /\ q.to = n
           \/ target[n] = p /\ Waiting(n) /\ heard'[n]
           \/ inc'[p] > inc[p]]_probeVars

\* A node's own probe is not taken for a replay: while it runs, its target has
\* accepted it or will when it arrives; except after the prober has pinged the
\* same target for others, under their seqs.
OwnProbeIsFresh ==
    \A n \in Members :
        phase[n] # "sleep" /\ target[n] \notin relayed[n] =>
          \A p \in net : /\ p.kind = "ping" /\ p.from = n /\ p.to = target[n]
                         /\ p.stamp.seq = seq[n]
                         => p \in handled \/ Fresh(target[n], p)

\* What probe.rs says of the mark: it drops replays.  A running probe of one's
\* own is no replay.
MarkDropsReplays ==
    \A n \in Members : phase[n] # "sleep" =>
        \A p \in net : /\ p.kind = "ping" /\ p.from = n /\ p.to = target[n]
                       /\ p.stamp.seq = seq[n] /\ p.aux = n
                       => p \in handled \/ Fresh(target[n], p)
=============================================================================
