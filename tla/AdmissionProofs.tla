-------------------------- MODULE AdmissionProofs ---------------------------
(* Proofs of Admission's safety properties for any set of upgrades and     *)
(* addresses and any limits.                                               *)
EXTENDS Admission, FiniteSetTheorems, SequenceTheorems, TLAPS

\* A set of upgrades is finite, and its size grows or shrinks by one with the
\* upgrade that enters or leaves it.
LEMMA UpgradeSets ==
    ASSUME NEW S \in SUBSET Upgrades
    PROVE  /\ IsFiniteSet(S)
           /\ Cardinality(S) \in Nat
           /\ S = {} <=> Cardinality(S) = 0
           /\ \A u \in Upgrades \ S : Cardinality(S \cup {u}) = Cardinality(S) + 1
           /\ \A u \in S : Cardinality(S \ {u}) = Cardinality(S) - 1
           /\ \A T \in SUBSET S : Cardinality(T) <= Cardinality(S)
<1>1. IsFiniteSet(S)
  BY FS_Subset, AdmissionAssumption, Zenon
<1>2. Cardinality(S) \in Nat
  BY <1>1, FS_CardinalityType, Zenon
<1>3. S = {} <=> Cardinality(S) = 0
  BY <1>1, FS_EmptySet, Zenon
<1>4. ASSUME NEW u \in Upgrades \ S
      PROVE  Cardinality(S \cup {u}) = Cardinality(S) + 1
  BY <1>1, FS_AddElement, Zenon
<1>5. ASSUME NEW u \in S
      PROVE  Cardinality(S \ {u}) = Cardinality(S) - 1
  BY <1>1, FS_RemoveElement, Zenon
<1>6. ASSUME NEW T \in SUBSET S
      PROVE  Cardinality(T) <= Cardinality(S)
  BY <1>1, FS_Subset, Zenon
<1>. QED
  BY <1>1, <1>2, <1>3, <1>4, <1>5, <1>6, ZenonT(40)

\* An upgrade that enters authorize raises in_flight with it, one that leaves
\* lowers it, and the pending table only holds requests inside it.
LEMMA InFlightStep ==
    ASSUME IInv, [Next]_vars
    PROVE  InFlightExact'
<1>. USE DEF IInv, TypeOK, InFlightExact
<1>0. Counted \in SUBSET Upgrades /\ Authorizing \in SUBSET Upgrades
  BY Zenon DEF Counted, Authorizing
<1>1. ASSUME NEW u \in Upgrades, Reserve(u)
      PROVE  InFlightExact'
  <2>1. u \notin Counted /\ Counted' = Counted \cup {u}
    BY <1>1 DEF Reserve, Goto, Counted, AuthorizingPcs
  <2>2. Cardinality(Counted') = Cardinality(Counted) + 1
    BY <2>1, <1>0, UpgradeSets, Zenon
  <2>3. CASE inFlight >= MaxPending
    <3>1. Authorizing' = Authorizing
      BY <1>1, <2>3, Zenon DEF Reserve, Goto, Authorizing, AuthorizingPcs
    <3>. QED
      BY <1>1, <2>2, <3>1, Zenon DEF Reserve, Goto
  <2>4. CASE ~(inFlight >= MaxPending)
    <3>1. u \notin Authorizing /\ Authorizing' = Authorizing \cup {u}
      BY <1>1, <2>4, ZenonT(40) DEF Reserve, Goto, Authorizing, AuthorizingPcs
    <3>2. Cardinality(Authorizing') = Cardinality(Authorizing) + 1
      BY <3>1, <1>0, UpgradeSets, Zenon
    <3>3. Cardinality(Authorizing) <= Cardinality(Counted)
      BY <1>0, UpgradeSets, Zenon DEF Authorizing, Counted
    <3>4. Cardinality(Authorizing) \in Nat /\ Cardinality(Counted) \in Nat
      BY <1>0, UpgradeSets, Zenon
    <3>5. Cardinality(Authorizing') <= MaxPending
      BY <3>2, <3>3, <3>4, <2>4, AdmissionAssumption
    <3>. QED
      BY <1>1, <2>2, <3>5, Zenon DEF Reserve, Goto
  <2>. QED
    BY <2>3, <2>4, Zenon
<1>2. ASSUME NEW u \in Upgrades, Shed(u)
      PROVE  InFlightExact'
  <2>1. u \in Counted /\ Counted' = Counted \ {u} /\ Authorizing' = Authorizing
    BY <1>2, ZenonT(40) DEF Shed, Goto, Counted, Authorizing, AuthorizingPcs
  <2>2. Cardinality(Counted') = Cardinality(Counted) - 1
    BY <2>1, <1>0, UpgradeSets, Zenon
  <2>. QED
    BY <1>2, <2>1, <2>2, Zenon DEF Shed, Goto
<1>3. ASSUME NEW u \in Upgrades, DropPermit(u)
      PROVE  InFlightExact'
  <2>1. u \in Counted /\ Counted' = Counted \ {u}
    BY <1>3, ZenonT(40) DEF DropPermit, Goto, Counted, AuthorizingPcs
  <2>2. u \in Authorizing /\ Authorizing' = Authorizing \ {u}
    BY <1>3, ZenonT(40) DEF DropPermit, Goto, Authorizing, AuthorizingPcs
  <2>3. Cardinality(Counted') = Cardinality(Counted) - 1
    BY <2>1, <1>0, UpgradeSets, Zenon
  <2>4. Cardinality(Authorizing') = Cardinality(Authorizing) - 1
    BY <2>2, <1>0, UpgradeSets, Zenon
  <2>5. Cardinality(Authorizing) \in Nat
    BY <1>0, UpgradeSets, Zenon
  <2>6. Cardinality(Authorizing') <= MaxPending
    BY <2>4, <2>5, AdmissionAssumption
  <2>. QED
    BY <1>3, <2>3, <2>6, Zenon DEF DropPermit, Goto
<1>4. ASSUME NEW u \in Upgrades,
             \/ Register(u) \/ Emit(u) \/ Answered(u) \/ TimedOut(u) \/ Settle(u)
      PROVE  InFlightExact'
  <2>1. Counted' = Counted /\ Authorizing' = Authorizing
    BY <1>4 DEF Register, Emit, Answered, TimedOut, Settle, Goto, Counted, Authorizing,
                AuthorizingPcs
  <2>2. inFlight' = inFlight
    BY <1>4, Zenon DEF Register, Emit, Answered, TimedOut, Settle, authVars
  <2>3. pending' \subseteq {v \in Upgrades : upc'[v] \in {"emit", "await", "settle"}}
    <3>1. CASE Register(u)
      BY <3>1 DEF Register, Goto
    <3>2. CASE Emit(u) \/ Answered(u) \/ TimedOut(u)
      <4>1. pending' = pending
        BY <3>2, Zenon DEF Emit, Answered, TimedOut, authVars
      <4>2. upc' = [upc EXCEPT ![u] = upc'[u]] /\ upc'[u] \in {"await", "settle"}
        BY <3>2, ZenonT(40) DEF Emit, Answered, TimedOut, Goto
      <4>. QED
        BY <4>1, <4>2, Zenon
    <3>3. CASE Settle(u)
      BY <3>3, Zenon DEF Settle, Goto
    <3>. QED
      BY <1>4, <3>1, <3>2, <3>3, Zenon
  <2>. QED
    BY <2>1, <2>2, <2>3, Zenon
<1>5. ASSUME NEW u \in Upgrades,
             \/ Check(u) \/ TryAdmit(u) \/ Handshake(u) \/ RejectAfterUpgrade(u)
             \/ Open(u) \/ Disconnect(u) \/ Release(u) \/ Reap(u)
      PROVE  InFlightExact'
  <2>1. Counted' = Counted /\ Authorizing' = Authorizing
    BY <1>5 DEF Check, TryAdmit, Handshake, RejectAfterUpgrade, Open, Disconnect, Release,
                Reap, Goto, Counted, Authorizing, AuthorizingPcs
  <2>2. inFlight' = inFlight /\ pending' = pending
    BY <1>5, Zenon DEF Check, TryAdmit, Handshake, RejectAfterUpgrade, Open, Disconnect, Release,
                Reap, authVars
  <2>3. pending' \subseteq {v \in Upgrades : upc'[v] \in {"emit", "await", "settle"}}
    BY <1>5, <2>2 DEF Check, TryAdmit, Handshake, RejectAfterUpgrade, Open, Disconnect,
                      Release, Reap, Goto
  <2>. QED
    BY <2>1, <2>2, <2>3, Zenon
<1>6. ASSUME UNCHANGED <<inFlight, upc>>, pending' \subseteq pending
      PROVE  InFlightExact'
  BY <1>6, Zenon DEF Counted, Authorizing
<1>7. ASSUME NEW u \in Upgrades, Js(u)
      PROVE  InFlightExact'
  BY <1>6, <1>7, Zenon DEF Js, HookAccepts, HookRejects, Resolve, Send, OnOpen, taskVars, authVars
<1>8. CASE SetDraining \/ Finished \/ UNCHANGED vars
  BY <1>6, <1>8, Zenon DEF SetDraining, Finished, vars, taskVars, authVars
<1>. QED
  BY <1>1, <1>2, <1>3, <1>4, <1>5, <1>7, <1>8, Zenon DEF Next, Task, Authorize

\* A slot's holder keeps its address; the count follows the holders through
\* admits and releases, and the cap holds.
LEMMA CountsStep ==
    ASSUME IInv, [Next]_vars
    PROVE  CountsExact' /\ CapRespected' /\ IdleIpForgotten'
<1>. USE AdmissionAssumption
<1>. DEFINE Good == CountsExact /\ CapRespected /\ IdleIpForgotten
<1>0. \A ip \in Ips : Holders(ip) \in SUBSET Upgrades
  BY Zenon DEF Holders
<1>1. ASSUME UNCHANGED <<keys, counts>>,
             \A ip \in Ips : Holders(ip)' = Holders(ip),
             \A u \in Upgrades : upc[u] = "reap" => upc'[u] = "reap" /\ ipOf'[u] = ipOf[u]
      PROVE  Good'
  <2>1. CountsExact' /\ CapRespected'
    BY <1>1, Zenon DEF IInv, CountsExact, CapRespected
  <2>2. IdleIpForgotten'
    BY <1>1 DEF IInv, IdleIpForgotten, TypeOK
  <2>. QED
    BY <2>1, <2>2, Zenon
<1>2. ASSUME NEW u \in Upgrades, Check(u)
      PROVE  Good'
  <2>1. \A ip \in Ips : Holders(ip)' = Holders(ip)
    BY <1>2 DEF Check, Goto, Holders, SlotPcs, AuthorizingPcs, IInv, TypeOK
  <2>2. \A v \in Upgrades : upc[v] = "reap" => upc'[v] = "reap" /\ ipOf'[v] = ipOf[v]
    BY <1>2, ZenonT(40) DEF Check, Goto, IInv, TypeOK
  <2>. QED
    BY <1>1, <1>2, <2>1, <2>2, Zenon DEF Check, gateVars
<1>3. ASSUME NEW u \in Upgrades,
             \/ Handshake(u) \/ Authorize(u) \/ RejectAfterUpgrade(u) \/ Open(u)
             \/ Disconnect(u)
      PROVE  Good'
  <2>1. /\ upc[u] \in SlotPcs /\ upc[u] # "reap"
        /\ upc'[u] \in SlotPcs
        /\ upc' = [upc EXCEPT ![u] = upc'[u]]
    BY <1>3 DEF Handshake, Authorize, RejectAfterUpgrade, Open, Disconnect, Reserve, Shed,
                Register, Emit, Answered, TimedOut, Settle, DropPermit, Goto, SlotPcs,
                AuthorizingPcs, IInv, TypeOK
  <2>2. UNCHANGED <<keys, counts, ipOf>>
    BY <1>3, Zenon DEF Handshake, Authorize, RejectAfterUpgrade, Open, Disconnect, Reserve, Shed,
                Register, Emit, Answered, TimedOut, Settle, DropPermit, gateVars
  <2>3. \A ip \in Ips : Holders(ip)' = Holders(ip)
    BY <2>1, <2>2, Zenon DEF Holders, IInv, TypeOK
  <2>4. \A v \in Upgrades : upc[v] = "reap" => upc'[v] = "reap" /\ ipOf'[v] = ipOf[v]
    BY <2>1, <2>2 DEF IInv, TypeOK
  <2>. QED
    BY <1>1, <2>2, <2>3, <2>4, Zenon
<1>4. ASSUME UNCHANGED <<keys, counts, upc, ipOf>>
      PROVE  Good'
  BY <1>1, <1>4 DEF Holders
<1>5. ASSUME NEW u \in Upgrades, Js(u)
      PROVE  Good'
  BY <1>4, <1>5 DEF Js, HookAccepts, HookRejects, Resolve, Send, OnOpen, taskVars, gateVars
<1>6. CASE SetDraining \/ Finished \/ UNCHANGED vars
  BY <1>4, <1>6, Zenon DEF SetDraining, Finished, vars, taskVars, gateVars
<1>7. ASSUME NEW u \in Upgrades, TryAdmit(u)
      PROVE  Good'
  <2>0. upc[u] = "limit" /\ ipOf[u] \in Ips /\ UNCHANGED ipOf
    BY <1>7, Zenon DEF TryAdmit, IInv, UpgradeFacts
  <2>1. CASE AtCap(ipOf[u])
    <3>1. UNCHANGED <<keys, counts>> /\ upc' = [upc EXCEPT ![u] = "done"]
      BY <1>7, <2>1, Zenon DEF TryAdmit, Goto
    <3>2. \A ip \in Ips : Holders(ip)' = Holders(ip)
      BY <2>0, <3>1, Zenon DEF Holders, SlotPcs, AuthorizingPcs, IInv, TypeOK
    <3>3. \A v \in Upgrades : upc[v] = "reap" => upc'[v] = "reap" /\ ipOf'[v] = ipOf[v]
      BY <2>0, <3>1, Zenon DEF IInv, TypeOK
    <3>. QED
      BY <1>1, <3>1, <3>2, <3>3, Zenon
  <2>2. CASE ~AtCap(ipOf[u])
    <3>1. upc' = [upc EXCEPT ![u] = "handshake"]
      BY <1>7, <2>2, Zenon DEF TryAdmit, Goto
    <3>2. /\ u \notin Holders(ipOf[u])
          /\ Holders(ipOf[u])' = Holders(ipOf[u]) \cup {u}
      BY <2>0, <3>1 DEF Holders, SlotPcs, AuthorizingPcs, IInv, TypeOK
    <3>3. \A ip \in Ips \ {ipOf[u]} : Holders(ip)' = Holders(ip)
      BY <2>0, <3>1, ZenonT(40) DEF Holders, SlotPcs, AuthorizingPcs, IInv, TypeOK
    <3>4. \A v \in Upgrades : upc[v] = "reap" => upc'[v] = "reap" /\ ipOf'[v] = ipOf[v]
      BY <2>0, <3>1, Zenon DEF IInv, TypeOK
    <3>5. CASE MaxPerIp = 0
      <4>1. UNCHANGED <<keys, counts>>
        BY <1>7, <2>2, <3>5, Zenon DEF TryAdmit, Goto
      <4>. QED
        BY <3>5, <4>1, Zenon DEF IInv, CountsExact, CapRespected, IdleIpForgotten
    <3>6. CASE MaxPerIp # 0
      <4>1. /\ keys' = keys \cup {ipOf[u]}
            /\ counts' = [counts EXCEPT ![ipOf[u]] = @ + 1]
        BY <1>7, <2>2, <3>6, Zenon DEF TryAdmit, Goto
      <4>2. Cardinality(Holders(ipOf[u])') = Cardinality(Holders(ipOf[u])) + 1
        BY <1>0, <2>0, <3>2, UpgradeSets, ZenonT(40)
      <4>3. counts'[ipOf[u]] = counts[ipOf[u]] + 1
        BY <2>0, <4>1, Zenon DEF IInv, TypeOK
      <4>4. \A ip \in Ips \ {ipOf[u]} : counts'[ip] = counts[ip]
        BY <4>1, Zenon DEF IInv, TypeOK
      <4>5. \A ip \in Ips : counts'[ip] = Cardinality(Holders(ip)')
        BY <2>0, <3>3, <3>6, <4>2, <4>3, <4>4, ZenonT(40) DEF IInv, CountsExact
      <4>6. \A ip \in Ips : ip \notin keys' => counts'[ip] = 0
        BY <4>1, <4>4, Zenon DEF IInv, CountsExact
      <4>7. counts[ipOf[u]] < MaxPerIp
        BY <2>0, <2>2, <3>6 DEF AtCap, IInv, TypeOK
      <4>8. \A ip \in Ips : counts'[ip] <= MaxPerIp
        <5>1. counts'[ipOf[u]] <= MaxPerIp
          <6>1. counts[ipOf[u]] \in Nat
            BY <2>0, Zenon DEF IInv, TypeOK
          <6>. QED
            BY <4>3, <4>7, <6>1, AdmissionAssumption
        <5>2. \A ip \in Ips : counts[ip] <= MaxPerIp
          BY <3>6, Zenon DEF IInv, CapRespected
        <5>. QED
          BY <4>4, <5>1, <5>2, Zenon
      <4>9. IdleIpForgotten'
        BY <2>0, <3>2, <3>3, <3>4, <4>1, ZenonT(40) DEF IInv, IdleIpForgotten, TypeOK
      <4>. QED
        BY <3>6, <4>5, <4>6, <4>8, <4>9, ZenonT(40) DEF CountsExact, CapRespected
    <3>. QED
      BY <3>5, <3>6, Zenon
  <2>. QED
    BY <2>1, <2>2, Zenon
<1>8. ASSUME NEW u \in Upgrades, Release(u)
      PROVE  Good'
  <2>0. /\ upc[u] = "drop" /\ ipOf[u] \in Ips /\ UNCHANGED <<ipOf, keys>>
        /\ u \in Holders(ipOf[u])
    BY <1>8 DEF Release, IInv, UpgradeFacts, Holders, SlotPcs
  <2>1. CASE MaxPerIp = 0
    <3>1. UNCHANGED counts
      BY <1>8, <2>1 DEF Release
    <3>. QED
      BY <2>0, <2>1, <3>1 DEF IInv, CountsExact, CapRespected, IdleIpForgotten
  <2>2. CASE MaxPerIp # 0
    <3>1. /\ Cardinality(Holders(ipOf[u])) \in Nat
          /\ Cardinality(Holders(ipOf[u])) # 0
          /\ Cardinality(Holders(ipOf[u]) \ {u}) = Cardinality(Holders(ipOf[u])) - 1
      BY <1>0, <2>0, UpgradeSets, Zenon
    <3>2. ipOf[u] \in keys
      BY <2>0, <2>2, <3>1, Zenon DEF IInv, CountsExact
    <3>3. /\ counts' = [counts EXCEPT ![ipOf[u]] = @ - 1]
          /\ upc' = [upc EXCEPT ![u] = IF counts[ipOf[u]] = 1 THEN "reap" ELSE "done"]
      BY <1>8, <2>2, <3>2, Zenon DEF Release, Goto
    <3>4. Holders(ipOf[u])' = Holders(ipOf[u]) \ {u}
      BY <2>0, <3>3, Zenon DEF Holders, SlotPcs, AuthorizingPcs, IInv, TypeOK
    <3>5. \A ip \in Ips \ {ipOf[u]} : Holders(ip)' = Holders(ip)
      BY <2>0, <3>3, ZenonT(40) DEF Holders, SlotPcs, AuthorizingPcs, IInv, TypeOK
    <3>6. counts'[ipOf[u]] = counts[ipOf[u]] - 1
      BY <2>0, <3>3, Zenon DEF IInv, TypeOK
    <3>7. \A ip \in Ips \ {ipOf[u]} : counts'[ip] = counts[ip]
      BY <3>3, Zenon DEF IInv, TypeOK
    <3>8. \A ip \in Ips : counts'[ip] = Cardinality(Holders(ip)')
      BY <2>0, <2>2, <3>1, <3>4, <3>5, <3>6, <3>7, ZenonT(40) DEF IInv, CountsExact
    <3>9. \A ip \in Ips : ip \notin keys' => counts'[ip] = 0
      BY <2>0, <3>2, <3>7 DEF IInv, CountsExact
    <3>10. \A ip \in Ips : counts'[ip] <= MaxPerIp
      BY <2>0, <2>2, <3>6, <3>7, SMTT(30) DEF IInv, CapRespected, TypeOK
    <3>11. IdleIpForgotten'
      <4>1. \A v \in Upgrades : upc[v] = "reap" => upc'[v] = "reap" /\ ipOf'[v] = ipOf[v]
        BY <2>0, <3>3, Zenon DEF IInv, TypeOK
      <4>2. \A ip \in keys \ {ipOf[u]} :
               \/ Holders(ip)' # {}
               \/ \E v \in Upgrades : ipOf'[v] = ip /\ upc'[v] = "reap"
        BY <3>5, <4>1, SMTT(60) DEF IInv, IdleIpForgotten, TypeOK
      <4>3. CASE counts[ipOf[u]] = 1
        <5>1. ipOf'[u] = ipOf[u] /\ upc'[u] = "reap"
          BY <2>0, <3>3, <4>3 DEF IInv, TypeOK
        <5>. QED
          BY <2>0, <4>2, <5>1 DEF IdleIpForgotten
      <4>4. CASE counts[ipOf[u]] # 1
        <5>1. Cardinality(Holders(ipOf[u]) \ {u}) # 0
          BY <2>0, <2>2, <3>1, <4>4 DEF IInv, CountsExact
        <5>2. Holders(ipOf[u]) \ {u} \in SUBSET Upgrades
          BY <1>0, <2>0, Zenon
        <5>3. Holders(ipOf[u])' # {}
          BY <3>4, <5>1, <5>2, UpgradeSets, Zenon
        <5>. QED
          BY <2>0, <4>2, <5>3, Zenon DEF IdleIpForgotten
      <4>. QED
        BY <4>3, <4>4, Zenon
    <3>. QED
      BY <2>2, <3>8, <3>9, <3>10, <3>11 DEF CountsExact, CapRespected
  <2>. QED
    BY <2>1, <2>2
<1>9. ASSUME NEW u \in Upgrades, Reap(u)
      PROVE  Good'
  <2>0. /\ upc[u] = "reap" /\ ipOf[u] \in Ips /\ MaxPerIp # 0
        /\ UNCHANGED <<ipOf, counts>>
        /\ upc' = [upc EXCEPT ![u] = "done"]
    BY <1>9, Zenon DEF Reap, Goto, IInv, UpgradeFacts
  <2>1. \A ip \in Ips : Holders(ip)' = Holders(ip)
    BY <2>0, Zenon DEF Holders, SlotPcs, AuthorizingPcs, IInv, TypeOK
  <2>2. keys' = keys \ {ip \in {ipOf[u]} : counts[ip] = 0}
    BY <1>9, Zenon DEF Reap
  <2>3. CountsExact' /\ CapRespected'
    BY <2>0, <2>1, <2>2, Zenon DEF IInv, CountsExact, CapRespected
  <2>4. \A v \in Upgrades \ {u} : upc'[v] = upc[v]
    BY <2>0, Zenon DEF IInv, TypeOK
  <2>5. ASSUME NEW ip \in keys', ip # ipOf[u]
        PROVE  \/ Holders(ip)' # {}
               \/ \E v \in Upgrades : ipOf'[v] = ip /\ upc'[v] = "reap"
    BY <2>0, <2>1, <2>2, <2>4, <2>5 DEF IInv, IdleIpForgotten, TypeOK
  <2>6. ASSUME ipOf[u] \in keys'
        PROVE  Holders(ipOf[u])' # {}
    <3>1. counts[ipOf[u]] # 0
      BY <2>2, <2>6, Zenon
    <3>2. Cardinality(Holders(ipOf[u])) # 0
      BY <2>0, <3>1, ZenonT(40) DEF IInv, CountsExact
    <3>. QED
      BY <1>0, <2>0, <2>1, <3>2, UpgradeSets, Zenon
  <2>7. IdleIpForgotten'
    BY <2>0, <2>5, <2>6, Zenon DEF IdleIpForgotten
  <2>. QED
    BY <2>3, <2>7, Zenon
<1>. QED
  BY <1>2, <1>3, <1>5, <1>6, <1>7, <1>8, <1>9, Zenon DEF Next, Task

\* A task's verdict comes from the answer its hook gave, an answer is given
\* once, and a timed-out task never sees a late one.
LEMMA FactsStep ==
    ASSUME IInv, [Next]_vars
    PROVE  UpgradeFacts'
<1>. USE DEF IInv, TypeOK, UpgradeFacts, BeforeAwait
<1>1. ASSUME NEW u \in Upgrades,
             \/ Check(u) \/ TryAdmit(u) \/ Handshake(u) \/ RejectAfterUpgrade(u)
             \/ Open(u) \/ Disconnect(u)
      PROVE  UpgradeFacts'
  <2>1. UNCHANGED <<verdict, reply, hook, answer>>
    BY <1>1, Zenon DEF Check, TryAdmit, Handshake, RejectAfterUpgrade, Open, Disconnect, jsVars
  <2>2. /\ upc' = [upc EXCEPT ![u] = upc'[u]]
        /\ upc'[u] # "reap"
        /\ upc'[u] \in BeforeAwait => upc[u] \in BeforeAwait
        /\ Hook /\ upc'[u] \in {"open", "live"} => upc[u] = "open"
    BY <1>1 DEF Check, TryAdmit, Handshake, RejectAfterUpgrade, Open, Disconnect, Goto
  <2>3. /\ \A v \in Upgrades \ {u} : ipOf'[v] = ipOf[v]
        /\ ipOf'[u] \in Ips
    BY <1>1, Zenon DEF Check, TryAdmit, Handshake, RejectAfterUpgrade, Open, Disconnect
  <2>. QED
    BY <2>1, <2>2, <2>3
<1>2. ASSUME NEW u \in Upgrades,
             \/ Reserve(u) \/ Shed(u) \/ Register(u) \/ Settle(u) \/ DropPermit(u)
      PROVE  UpgradeFacts'
  <2>1. UNCHANGED <<ipOf, reply, hook, answer>>
    BY <1>2, Zenon DEF Reserve, Shed, Register, Settle, DropPermit, jsVars
  <2>2. /\ upc' = [upc EXCEPT ![u] = upc'[u]]
        /\ upc[u] # "new" /\ upc'[u] # "reap"
        /\ upc'[u] \in BeforeAwait => upc[u] \in BeforeAwait
        /\ upc'[u] \in {"open", "live"} => verdict[u] = "accept"
    BY <1>2 DEF Reserve, Shed, Register, Settle, DropPermit, Goto
  <2>3. \/ UNCHANGED verdict
        \/ upc'[u] = "close" /\ verdict' = [verdict EXCEPT ![u] = "unavailable"]
    BY <1>2, Zenon DEF Reserve, Shed, Register, Settle, DropPermit, Goto
  <2>. QED
    BY <2>1, <2>2, <2>3
<1>3. ASSUME NEW u \in Upgrades, Emit(u)
      PROVE  UpgradeFacts'
  <2>1. /\ UNCHANGED <<ipOf, reply, verdict, answer>>
        /\ upc[u] = "emit"
        /\ upc' = [upc EXCEPT ![u] = "await"]
        /\ hook' = [hook EXCEPT ![u] = "run"]
    BY <1>3, Zenon DEF Emit, Goto
  <2>2. reply[u] = "none" /\ verdict[u] = "none"
    BY <2>1, Zenon
  <2>. QED
    BY <2>1, <2>2, ZenonT(40)
<1>4. ASSUME NEW u \in Upgrades, Answered(u) \/ TimedOut(u)
      PROVE  UpgradeFacts'
  <2>1. /\ UNCHANGED <<ipOf, reply, hook, answer>>
        /\ upc[u] = "await"
        /\ upc' = [upc EXCEPT ![u] = "settle"]
        /\ verdict' = [verdict EXCEPT ![u] = verdict'[u]]
        /\ verdict'[u] = "accept" => reply[u] = "accept"
    BY <1>4, Zenon DEF Answered, TimedOut, Goto, jsVars
  <2>. QED
    BY <2>1
<1>5. ASSUME NEW u \in Upgrades, Release(u) \/ Reap(u)
      PROVE  UpgradeFacts'
  <2>1. UNCHANGED <<ipOf, verdict, reply, hook, answer>>
    BY <1>5, Zenon DEF Release, Reap, jsVars
  <2>2. /\ upc' = [upc EXCEPT ![u] = upc'[u]]
        /\ upc[u] # "new" /\ upc'[u] \in {"reap", "done"}
        /\ upc'[u] = "reap" => MaxPerIp # 0
    BY <1>5, ZenonT(40) DEF Release, Reap, Goto
  <2>. QED
    BY <2>1, <2>2, ZenonT(40)
<1>6. ASSUME NEW u \in Upgrades, HookAccepts(u) \/ HookRejects(u)
      PROVE  UpgradeFacts'
  <2>1. /\ UNCHANGED <<upc, ipOf, verdict, reply>>
        /\ hook[u] = "run"
        /\ hook' = [hook EXCEPT ![u] = "resolve"]
        /\ answer' = [answer EXCEPT ![u] = answer'[u]]
    BY <1>6, Zenon DEF HookAccepts, HookRejects, taskVars
  <2>. QED
    BY <2>1, ZenonT(40)
<1>7. ASSUME NEW u \in Upgrades, Resolve(u)
      PROVE  UpgradeFacts'
  <2>1. /\ UNCHANGED <<upc, ipOf, verdict, reply, answer>>
        /\ hook[u] = "resolve"
        /\ hook' = [hook EXCEPT ![u] = hook'[u]]
    BY <1>7, ZenonT(40) DEF Resolve, taskVars
  <2>. QED
    BY <2>1, ZenonT(40)
<1>8. ASSUME NEW u \in Upgrades, Send(u)
      PROVE  UpgradeFacts'
  <2>1. /\ UNCHANGED <<upc, ipOf, verdict, answer>>
        /\ hook[u] = "send"
        /\ hook' = [hook EXCEPT ![u] = "done"]
        /\ \/ UNCHANGED reply
           \/ upc[u] = "await" /\ reply' = [reply EXCEPT ![u] = answer[u]]
    BY <1>8, Zenon DEF Send, taskVars
  <2>. QED
    BY <2>1
<1>9. CASE (\E u \in Upgrades : OnOpen(u)) \/ SetDraining \/ Finished \/ UNCHANGED vars
  BY <1>9, ZenonT(40) DEF OnOpen, SetDraining, Finished, vars, taskVars, jsVars
<1>. QED
  BY <1>1, <1>2, <1>3, <1>4, <1>5, <1>6, <1>7, <1>8, <1>9, ZenonT(40) DEF Next, Task, Authorize, Js

\* The counters are lowered only by upgrades they count, so neither underflows;
\* the stash never outgrows its cap.
LEMMA TypeStep ==
    ASSUME IInv, [Next]_vars
    PROVE  TypeOK'
<1>. USE AdmissionAssumption
<1>1. inFlight' \in Nat
  <2>1. InFlightExact'
    BY InFlightStep, Zenon
  <2>2. Counted' \in SUBSET Upgrades
    BY Zenon DEF Counted
  <2>3. Cardinality(Counted') \in Nat
    BY <2>2, UpgradeSets, Zenon
  <2>. QED
    BY <2>1, <2>3, Zenon DEF InFlightExact
<1>2. counts' \in [Ips -> Nat]
  <2>1. CASE UNCHANGED counts
    BY <2>1, Zenon DEF IInv, TypeOK
  <2>2. ASSUME NEW u \in Upgrades, TryAdmit(u)
        PROVE  counts' \in [Ips -> Nat]
    BY <2>2 DEF TryAdmit, IInv, TypeOK
  <2>3. ASSUME NEW u \in Upgrades, Release(u)
        PROVE  counts' \in [Ips -> Nat]
    <3>1. CASE MaxPerIp = 0 \/ ipOf[u] \notin keys
      BY <2>1, <2>3, <3>1, Zenon DEF Release
    <3>2. CASE ~(MaxPerIp = 0 \/ ipOf[u] \notin keys)
      <4>1. ipOf[u] \in Ips /\ u \in Holders(ipOf[u])
        BY <2>3, Zenon DEF Release, IInv, UpgradeFacts, Holders, SlotPcs
      <4>2. Holders(ipOf[u]) \in SUBSET Upgrades
        BY Zenon DEF Holders
      <4>3. Cardinality(Holders(ipOf[u])) # 0
        BY <4>1, <4>2, UpgradeSets, Zenon
      <4>4. counts[ipOf[u]] # 0
        BY <3>2, <4>1, <4>3, Zenon DEF IInv, CountsExact
      <4>5. counts' = [counts EXCEPT ![ipOf[u]] = @ - 1]
        BY <2>3, <3>2, Zenon DEF Release
      <4>. QED
        BY <4>1, <4>4, <4>5 DEF IInv, TypeOK
    <3>. QED
      BY <3>1, <3>2, Zenon
  <2>4. ASSUME NEW u \in Upgrades, Task(u)
        PROVE  counts' \in [Ips -> Nat]
    BY <2>1, <2>2, <2>3, <2>4, Zenon DEF Task, Authorize, Check, Handshake, RejectAfterUpgrade,
       Open, Disconnect, Reap, Reserve, Shed, Register, Emit, Answered, TimedOut, Settle,
       DropPermit, gateVars
  <2>. QED
    BY <2>1, <2>4, Zenon DEF Next, Js, HookAccepts, HookRejects, Resolve, Send, OnOpen,
       SetDraining, Finished, vars, gateVars
<1>3. stash' \in Seq(Upgrades) /\ Len(stash') <= StashCap
  <2>1. CASE UNCHANGED stash
    BY <2>1, Zenon DEF IInv, TypeOK
  <2>2. ASSUME NEW u \in Upgrades, StashSet(u)
        PROVE  stash' \in Seq(Upgrades) /\ Len(stash') <= StashCap
    <3>1. /\ Append(stash, u) \in Seq(Upgrades)
          /\ Len(Append(stash, u)) = Len(stash) + 1
      BY AppendProperties, Zenon DEF IInv, TypeOK
    <3>2. /\ Tail(Append(stash, u)) \in Seq(Upgrades)
          /\ Len(Tail(Append(stash, u))) = Len(stash)
      <4>1. Len(stash) \in Nat
        BY DEF IInv, TypeOK
      <4>2. Append(stash, u) # <<>>
        BY <3>1, <4>1
      <4>. QED
        BY <3>1, <4>1, <4>2, HeadTailProperties
    <3>3. Len(stash) \in Nat
      BY DEF IInv, TypeOK
    <3>. QED
      BY <2>2, <3>1, <3>2, <3>3 DEF StashSet, IInv, TypeOK
  <2>3. ASSUME NEW u \in Upgrades, OnOpen(u)
        PROVE  stash' \in Seq(Upgrades) /\ Len(stash') <= StashCap
    <3>1. ASSUME NEW i \in DOMAIN stash,
                 stash' = SubSeq(stash, 1, i - 1) \o SubSeq(stash, i + 1, Len(stash))
          PROVE  stash' \in Seq(Upgrades) /\ Len(stash') <= StashCap
      <4>1. stash \in Seq(Upgrades) /\ Len(stash) \in Nat /\ i \in 1 .. Len(stash)
        BY DEF IInv, TypeOK
      <4>2. /\ SubSeq(stash, 1, i - 1) \in Seq(Upgrades)
            /\ Len(SubSeq(stash, 1, i - 1)) = i - 1
        BY <4>1, SubSeqProperties
      <4>3. /\ SubSeq(stash, i + 1, Len(stash)) \in Seq(Upgrades)
            /\ Len(SubSeq(stash, i + 1, Len(stash))) = Len(stash) - i
        BY <4>1, SubSeqProperties
      <4>4. stash' \in Seq(Upgrades) /\ Len(stash') = (i - 1) + (Len(stash) - i)
        BY <3>1, <4>2, <4>3, ConcatProperties, SMTT(30)
      <4>. QED
        BY <4>1, <4>4 DEF IInv, TypeOK
    <3>. QED
      BY <2>1, <2>3, <3>1, Zenon DEF OnOpen, StashTake
  <2>4. ASSUME NEW u \in Upgrades, Task(u)
        PROVE  UNCHANGED stash
    BY <2>4, Zenon DEF Task, Authorize, Check, TryAdmit, Handshake, RejectAfterUpgrade, Open,
       Disconnect, Release, Reap, Reserve, Shed, Register, Emit, Answered, TimedOut,
       Settle, DropPermit, jsVars
  <2>5. ASSUME NEW u \in Upgrades, Js(u)
        PROVE  stash' \in Seq(Upgrades) /\ Len(stash') <= StashCap
    BY <2>1, <2>2, <2>3, <2>5, Zenon DEF Js, HookAccepts, HookRejects, Resolve, Send
  <2>. QED
    BY <2>1, <2>4, <2>5, Zenon DEF Next, SetDraining, Finished, vars, jsVars
<1>. DEFINE TaskTypes ==
              /\ draining \in BOOLEAN /\ keys \subseteq Ips
              /\ upc \in [Upgrades -> UpgradePcs]
              /\ ipOf \in [Upgrades -> Ips \cup {NoIp}]
              /\ verdict \in [Upgrades -> {"none", "accept", "reject", "unavailable"}]
            JsTypes ==
              /\ pending \subseteq Upgrades /\ opening \subseteq Upgrades
              /\ turn \in Upgrades \cup {Nobody}
              /\ reply \in [Upgrades -> {"none", "accept", "reject"}]
              /\ hook \in [Upgrades -> {"none", "run", "resolve", "send", "done"}]
              /\ answer \in [Upgrades -> {"none", "accept", "reject"}]
<1>4. TaskTypes'
  <2>. USE DEF IInv, TypeOK, UpgradePcs
  <2>1. ASSUME NEW u \in Upgrades, Task(u)
        PROVE  TaskTypes'
    <3>1. CASE Authorize(u)
      <4>1. UNCHANGED <<draining, keys, ipOf>>
        BY <3>1, Zenon DEF Authorize, Reserve, Shed, Register, Emit, Answered, TimedOut, Settle,
           DropPermit, gateVars
      <4>2. \E where \in UpgradePcs : upc' = [upc EXCEPT ![u] = where]
        BY <3>1, Zenon DEF Authorize, Reserve, Shed, Register, Emit, Answered, TimedOut, Settle,
           DropPermit, Goto
      <4>3. \/ UNCHANGED verdict
            \/ verdict' = [verdict EXCEPT ![u] = "unavailable"]
            \/ verdict' = [verdict EXCEPT ![u] = reply[u]]
        BY <3>1, Zenon DEF Authorize, Reserve, Shed, Register, Emit, Answered, TimedOut, Settle,
           DropPermit
      <4>. QED
        BY <4>1, <4>2, <4>3
    <3>2. CASE TryAdmit(u)
      BY <3>2, ZenonT(40) DEF TryAdmit, Goto, UpgradeFacts
    <3>3. CASE Check(u)
      BY <3>3 DEF Check, Goto, gateVars
    <3>4. CASE \/ Handshake(u) \/ RejectAfterUpgrade(u) \/ Open(u) \/ Disconnect(u)
               \/ Release(u) \/ Reap(u)
      <4>1. UNCHANGED <<draining, ipOf, verdict>> /\ keys' \subseteq keys
        BY <3>4, Zenon DEF Handshake, RejectAfterUpgrade, Open, Disconnect, Release, Reap, gateVars
      <4>2. \E where \in UpgradePcs : upc' = [upc EXCEPT ![u] = where]
        BY <3>4, Zenon DEF Handshake, RejectAfterUpgrade, Open, Disconnect, Release, Reap, Goto
      <4>. QED
        BY <4>1, <4>2
    <3>. QED
      BY <2>1, <3>1, <3>2, <3>3, <3>4 DEF Task
  <2>2. ASSUME NEW u \in Upgrades, Js(u)
        PROVE  TaskTypes'
    BY <2>2, Zenon DEF Js, HookAccepts, HookRejects, Resolve, Send, OnOpen, gateVars, taskVars
  <2>. QED
    BY <2>1, <2>2, Zenon DEF Next, SetDraining, Finished, vars, gateVars, taskVars
<1>5. JsTypes'
  <2>. USE DEF IInv, TypeOK
  <2>1. ASSUME NEW u \in Upgrades, Task(u)
        PROVE  JsTypes'
    BY <2>1, ZenonT(40) DEF Task, Authorize, Check, TryAdmit, Handshake, RejectAfterUpgrade, Open,
       Disconnect, Release, Reap, Reserve, Shed, Register, Emit, Answered, TimedOut,
       Settle, DropPermit, authVars, jsVars
  <2>2. ASSUME NEW u \in Upgrades, Js(u)
        PROVE  JsTypes'
    BY <2>2, ZenonT(60) DEF Js, HookAccepts, HookRejects, Resolve, Send, OnOpen, authVars
  <2>. QED
    BY <2>1, <2>2, Zenon DEF Next, SetDraining, Finished, vars, authVars, jsVars
<1>. QED
  BY <1>1, <1>2, <1>3, <1>4, <1>5, Zenon DEF TypeOK

-----------------------------------------------------------------------------
\* The initial state: nothing admitted, nothing pending.
LEMMA InitFacts == Init => IInv
<1>. SUFFICES ASSUME Init
              PROVE  IInv
  OBVIOUS
<1>. USE AdmissionAssumption DEF Init
<1>1. TypeOK
  <2>1. <<>> \in Seq(Upgrades) /\ Len(<<>>) <= StashCap
    OBVIOUS
  <2>. QED
    BY <2>1, Zenon DEF TypeOK, UpgradePcs
<1>2. \A ip \in Ips : Holders(ip) = {}
  BY DEF Holders, SlotPcs, AuthorizingPcs
<1>3. Authorizing = {} /\ Counted = {}
  BY DEF Authorizing, Counted, AuthorizingPcs
<1>4. Cardinality({}) = 0
  BY UpgradeSets, Zenon
<1>5. CountsExact /\ CapRespected /\ IdleIpForgotten
  <2>1. \A ip \in Ips : counts[ip] = 0 /\ Cardinality(Holders(ip)) = 0
    BY <1>2, <1>4, Zenon
  <2>. QED
    BY <2>1 DEF CountsExact, CapRespected, IdleIpForgotten
<1>6. InFlightExact
  BY <1>3, <1>4 DEF InFlightExact
<1>7. UpgradeFacts
  BY DEF UpgradeFacts
<1>. QED
  BY <1>1, <1>5, <1>6, <1>7 DEF IInv

\* The inductive invariant holds in every reachable state of the admission
\* path: gate, limiter, authorizer and hook.
THEOREM Invariance == Spec => []IInv
<1>1. IInv /\ [Next]_vars => IInv'
  BY CountsStep, InFlightStep, FactsStep, TypeStep, Zenon DEF IInv
<1>. QED
  BY InitFacts, <1>1, PTL DEF Spec

\* Types hold; the limiter's and the authorizer's counters never underflow and
\* the SDK's stash stays within its cap.
THEOREM TypeCorrect == Spec => []TypeOK
<1>1. IInv => TypeOK
  BY Zenon DEF IInv
<1>. QED
  BY <1>1, Invariance, PTL

\* IpLimiter admits at most maxConnectionsPerIp connections of one address at
\* a time, for any number of upgrades and addresses.
THEOREM IpCapHolds == Spec => []IpCap
<1>1. IInv => IpCap
  BY Zenon DEF IInv, CountsExact, CapRespected, IpCap
<1>. QED
  BY <1>1, Invariance, PTL

\* IpLimiter keeps an entry for every address with connections and for no
\* other, but for one whose release is about to take it out.
THEOREM LimiterEntriesExact == Spec => []EntriesMatchHolders
<1>1. IInv => EntriesMatchHolders
  <2>. SUFFICES ASSUME IInv, MaxPerIp # 0, NEW ip \in Ips, Holders(ip) # {}
                PROVE  ip \in keys
    BY Zenon DEF IInv, EntriesMatchHolders
  <2>1. Holders(ip) \in SUBSET Upgrades
    BY Zenon DEF Holders
  <2>2. Cardinality(Holders(ip)) # 0
    BY <2>1, UpgradeSets, Zenon
  <2>. QED
    BY <2>2, Zenon DEF IInv, CountsExact
<1>. QED
  BY <1>1, Invariance, PTL

\* Authorizer's pending table never exceeds maxPendingAuthorizations.
THEOREM PendingTableBounded == Spec => []PendingBounded
<1>1. IInv => PendingBounded
  <2>. SUFFICES ASSUME IInv
                PROVE  PendingBounded
    OBVIOUS
  <2>1. pending \subseteq Authorizing /\ Authorizing \subseteq Upgrades
    BY Zenon DEF IInv, InFlightExact, Authorizing, AuthorizingPcs
  <2>2. /\ Cardinality(pending) <= Cardinality(Authorizing)
        /\ Cardinality(pending) \in Nat /\ Cardinality(Authorizing) \in Nat
    BY <2>1, UpgradeSets, Zenon
  <2>. QED
    BY <2>2, AdmissionAssumption DEF IInv, InFlightExact, PendingBounded
<1>. QED
  BY <1>1, Invariance, PTL

\* Every exit path of Authorizer::authorize gives back its count and its table
\* entry.
THEOREM AuthorizeClean == Spec => []AuthorizeLeavesNothing
<1>1. IInv => AuthorizeLeavesNothing
  <2>. SUFFICES ASSUME IInv, \A u \in Upgrades : upc[u] \notin {"shed"} \cup AuthorizingPcs
                PROVE  inFlight = 0 /\ pending = {}
    BY Zenon DEF AuthorizeLeavesNothing
  <2>1. Counted = {}
    BY Zenon DEF Counted
  <2>2. inFlight = 0
    BY <2>1, FS_EmptySet, Zenon DEF IInv, InFlightExact
  <2>3. pending = {}
    BY Zenon DEF IInv, InFlightExact, AuthorizingPcs
  <2>. QED
    BY <2>2, <2>3, Zenon
<1>. QED
  BY <1>1, Invariance, PTL

\* An upgrade opens only if its authorize hook accepted it, whatever race the
\* timeout, the shed test and the late answer run.
THEOREM OnlyAcceptedUpgradesOpen == Spec => []OnlyAcceptedOpen
<1>1. IInv => OnlyAcceptedOpen
  BY ZenonT(40) DEF IInv, UpgradeFacts, OnlyAcceptedOpen
<1>. QED
  BY <1>1, Invariance, PTL
=============================================================================
