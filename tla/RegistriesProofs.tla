-------------------------- MODULE RegistriesProofs --------------------------
(***************************************************************************)
(* Proofs about Registries for every set of connections, slots, rooms and  *)
(* users and every modulus of the generation counter. First what every     *)
(* step keeps: types, the locals of each program point, the slab and its   *)
(* ids. Then the two sides of rooms and users, the sweep, the fan-out and  *)
(* the theorems. The last part, that no connection is ever in more rooms   *)
(* than the cap allows, is the one that needs facts about cardinality.     *)
(***************************************************************************)
EXTENDS Registries, TLAPS

\* A recycled generation is a generation.
LEMMA NextGenerationRange ==
    ASSUME TypeOK, NEW s \in Slots
    PROVE  NextGeneration(s) \in 0 .. GenMod - 1
<1>1. gens[s] + 1 \in Nat
    BY DEF TypeOK, SlabTypes
<1>2. GenMod \in Nat \ {0}
    BY ConstAssumption
<1>. QED
    BY <1>1, <1>2 DEF NextGeneration

\* Before the counter wraps the next generation is the successor.
LEMMA NextGenerationGrows ==
    ASSUME TypeOK, NEW s \in Slots, gens[s] + 1 < GenMod
    PROVE  NextGeneration(s) = gens[s] + 1
<1>1. gens[s] + 1 \in Nat
    BY DEF TypeOK, SlabTypes
<1>2. GenMod \in Nat \ {0}
    BY ConstAssumption, Zenon
<1>. QED
    BY <1>1, <1>2 DEF NextGeneration

\* Writing only the room set of one entry leaves every owner and id in place.
LEMMA RoomsField ==
    ASSUME TypeOK, NEW k \in Slots, slab[k] # Vacant, NEW rs \in SUBSET Rooms,
           slab' = [slab EXCEPT ![k].rooms = rs]
    PROVE  /\ slab' \in [Slots -> Entry \cup {Vacant}]
           /\ slab'[k] # Vacant
           /\ slab'[k].rooms = rs
           /\ slab'[k].handle = slab[k].handle
           /\ slab'[k].generation = slab[k].generation
           /\ \A s \in Slots \ {k} : slab'[s] = slab[s]
<1>1. slab[k] \in Entry
    BY DEF TypeOK, SlabTypes
<1>2. slab'[k] = [slab[k] EXCEPT !.rooms = rs]
    BY DEF TypeOK, SlabTypes
<1>3. slab'[k] \in Entry
    BY <1>1, <1>2 DEF Entry
<1>. QED
    BY <1>1, <1>2, <1>3, ConstAssumption, ZenonT(40) DEF TypeOK, SlabTypes, Entry

\* A group of variables that a step leaves alone keeps its types.
LEMMA TypesKept ==
    ASSUME TypeOK
    PROVE  /\ UNCHANGED connVars => SlabTypes'
           /\ UNCHANGED roomVars => RoomTypes'
           /\ UNCHANGED userVars => UserTypes'
           /\ UNCHANGED interestVars => InterestTypes'
           /\ UNCHANGED taskVars => TaskTypes' /\ SweepTypes'
           /\ UNCHANGED <<joined, todo, cur>> => SweepTypes'
           /\ UNCHANGED jsVars => JsTypes'
<1>1. UNCHANGED connVars => SlabTypes'
    BY DEF TypeOK, SlabTypes, connVars
<1>2. UNCHANGED roomVars => RoomTypes'
    BY DEF TypeOK, RoomTypes, roomVars
<1>3. UNCHANGED userVars => UserTypes'
    BY Zenon DEF TypeOK, UserTypes, userVars
<1>4. UNCHANGED interestVars => InterestTypes'
    BY DEF TypeOK, InterestTypes, interestVars
<1>5. UNCHANGED <<pc, idOf, userOf>> => TaskTypes'
    BY Zenon DEF TypeOK, TaskTypes
<1>6. UNCHANGED <<joined, todo, cur>> => SweepTypes'
    BY DEF TypeOK, SweepTypes
<1>7. UNCHANGED jsVars => JsTypes'
    BY Zenon DEF TypeOK, JsTypes, jsVars
<1>. QED
    BY <1>1, <1>2, <1>3, <1>4, <1>5, <1>6, <1>7, Zenon DEF taskVars

\* An id handed out by insert finds its entry.
LEMMA OwnEntry ==
    ASSUME TypeOK, PointFacts, NEW c \in Conns, pc[c] # "admitted", Live(idOf[c])
    PROVE  /\ idOf[c] \in Ids /\ idOf[c].key \in Slots
           /\ slab[idOf[c].key] \in Entry /\ slab[idOf[c].key] # Vacant
           /\ slab[idOf[c].key].rooms \in SUBSET Rooms
<1>1. idOf[c] \in Ids
    BY DEF TypeOK, TaskTypes, PointFacts
<1>2. idOf[c].key \in Slots
    BY <1>1, Zenon DEF Ids
<1>3. slab[idOf[c].key] \in Entry /\ slab[idOf[c].key] # Vacant
    BY <1>2, Zenon DEF TypeOK, SlabTypes, Live
<1>. QED
    BY <1>1, <1>2, <1>3, Zenon DEF Entry

\* A live id taken from a room, a user or the JS thread finds an entry too.
LEMMA LiveEntry ==
    ASSUME TypeOK, NEW id \in Ids, Live(id)
    PROVE  /\ id.key \in Slots
           /\ slab[id.key] \in Entry /\ slab[id.key] # Vacant
           /\ slab[id.key].rooms \in SUBSET Rooms
           /\ slab[id.key].handle \in Conns
<1>1. id.key \in Slots
    BY DEF Ids
<1>2. slab[id.key] \in Entry /\ slab[id.key] # Vacant
    BY <1>1, Zenon DEF TypeOK, SlabTypes, Live
<1>. QED
    BY <1>1, <1>2 DEF Entry

\* Every step of run_admitted keeps every variable in its type.
LEMMA TaskTypeStep ==
    ASSUME TypeOK, PointFacts, NEW c \in Conns, Task(c)
    PROVE  TypeOK'
<1>0. SlabTypes /\ RoomTypes /\ UserTypes /\ InterestTypes /\ TaskTypes /\ SweepTypes
    BY Zenon DEF TypeOK
<1>1. CASE Insert(c)
  <2>1. PICK s \in Slots, u \in Users \cup {NoUser} :
            /\ gens' = [gens EXCEPT ![s] = NextGeneration(s)]
            /\ slab' = [slab EXCEPT ![s] =
                          [generation |-> NextGeneration(s), handle |-> c,
                           rooms |-> {}, user |-> u]]
            /\ inserts' = [inserts EXCEPT ![s] = @ + 1]
            /\ idOf' = [idOf EXCEPT ![c] = [key |-> s, generation |-> NextGeneration(s)]]
            /\ userOf' = [userOf EXCEPT ![c] = u]
            /\ pc' = [pc EXCEPT ![c] = IF u = NoUser THEN "run" ELSE "bind"]
      BY <1>1, ZenonT(40) DEF Insert
  <2>2. NextGeneration(s) \in 0 .. GenMod - 1 /\ GenMod \in Nat
      BY NextGenerationRange, ConstAssumption
  <2>3. [generation |-> NextGeneration(s), handle |-> c, rooms |-> {}, user |-> u] \in Entry
      BY <2>2 DEF Entry
  <2>4. [key |-> s, generation |-> NextGeneration(s)] \in Ids
      BY <2>2 DEF Ids
  <2>5. SlabTypes'
    <3>1. slab' \in [Slots -> Entry \cup {Vacant}]
        BY <1>0, <2>1, <2>3, Zenon DEF SlabTypes
    <3>2. gens' \in [Slots -> -1 .. GenMod - 1] /\ inserts' \in [Slots -> Nat]
        BY <1>0, <2>1, <2>2 DEF SlabTypes
    <3>. QED
        BY <3>1, <3>2 DEF SlabTypes
  <2>6. TaskTypes'
      BY <1>0, <2>1, <2>4, Zenon DEF TaskTypes, TaskPcs
  <2>. QED
      BY <1>1, <2>5, <2>6, TypesKept, Zenon DEF Insert, TypeOK
<1>2. CASE Bind(c)
  <2>1. UserTypes'
      BY <1>0, <1>2, ZenonT(40) DEF Bind, UserTypes, PointFacts, TaskTypes
  <2>2. TaskTypes'
      BY <1>0, <1>2, Zenon DEF Bind, TaskTypes, TaskPcs
  <2>. QED
      BY <1>2, <2>1, <2>2, TypesKept, Zenon DEF Bind, TypeOK
<1>3. CASE BindCount(c)
  <2>1. TaskTypes'
      BY <1>0, <1>3, Zenon DEF BindCount, TaskTypes, TaskPcs
  <2>. QED
      BY <1>3, <2>1, TypesKept, Zenon DEF BindCount, TypeOK
<1>4. CASE BindSet(c)
  <2>1. InterestTypes'
      BY <1>0, <1>4, Zenon DEF BindSet, InterestTypes, PointFacts
  <2>2. TaskTypes'
      BY <1>0, <1>4, Zenon DEF BindSet, TaskTypes, TaskPcs
  <2>. QED
      BY <1>4, <2>1, <2>2, TypesKept, Zenon DEF BindSet, TypeOK
<1>5. CASE RemoveFull(c)
  <2>1. SlabTypes'
      BY <1>0, <1>5, Zenon DEF RemoveFull, SlabTypes
  <2>2. TaskTypes'
      BY <1>0, <1>5, Zenon DEF RemoveFull, TaskTypes, TaskPcs
  <2>3. SweepTypes'
      BY <1>0, <1>5, OwnEntry, Zenon DEF RemoveFull, SweepTypes
  <2>. QED
      BY <1>5, <2>1, <2>2, <2>3, TypesKept, Zenon DEF RemoveFull, TypeOK
<1>6. CASE SweepMember(c)
  <2>1. RoomTypes'
      BY <1>0, <1>6 DEF SweepMember, RoomTypes, SweepTypes
  <2>2. TaskTypes'
      BY <1>0, <1>6, Zenon DEF SweepMember, TaskTypes, TaskPcs
  <2>3. SweepTypes'
      BY <1>0, <1>6 DEF SweepMember, SweepTypes
  <2>. QED
      BY <1>6, <2>1, <2>2, <2>3, TypesKept, Zenon DEF SweepMember, TypeOK
<1>7. CASE Reap(c)
  <2>1. RoomTypes'
      BY <1>0, <1>7, Zenon DEF Reap, RoomTypes, RemoveIfEmpty
  <2>2. TaskTypes'
      BY <1>0, <1>7, Zenon DEF Reap, TaskTypes, TaskPcs
  <2>3. SweepTypes'
      BY <1>0, <1>7, Zenon DEF Reap, SweepTypes
  <2>. QED
      BY <1>7, <2>1, <2>2, <2>3, TypesKept, Zenon DEF Reap, TypeOK
<1>8. CASE SweepDone(c)
  <2>1. TaskTypes'
      BY <1>0, <1>8, Zenon DEF SweepDone, TaskTypes, TaskPcs, IdentityTail
  <2>2. SweepTypes'
      BY <1>0, <1>8, Zenon DEF SweepDone, SweepTypes
  <2>. QED
      BY <1>8, <2>1, <2>2, TypesKept, Zenon DEF SweepDone, TypeOK
<1>9. CASE WithdrawCount(c)
  <2>1. TaskTypes'
      BY <1>0, <1>9, Zenon DEF WithdrawCount, TaskTypes, TaskPcs
  <2>2. SweepTypes'
      BY <1>0, <1>9 DEF WithdrawCount, SweepTypes
  <2>. QED
      BY <1>9, <2>1, <2>2, TypesKept, Zenon DEF WithdrawCount, TypeOK
<1>10. CASE WithdrawSet(c)
  <2>1. InterestTypes'
      BY <1>0, <1>10, Zenon DEF WithdrawSet, InterestTypes
  <2>2. TaskTypes'
      BY <1>0, <1>10, Zenon DEF WithdrawSet, TaskTypes, TaskPcs
  <2>3. SweepTypes'
      BY <1>0, <1>10, Zenon DEF WithdrawSet, SweepTypes
  <2>. QED
      BY <1>10, <2>1, <2>2, <2>3, TypesKept, Zenon DEF WithdrawSet, TypeOK
<1>11. CASE WithdrawDone(c)
  <2>1. TaskTypes'
      BY <1>0, <1>11, Zenon DEF WithdrawDone, TaskTypes, TaskPcs, IdentityTail
  <2>. QED
      BY <1>11, <2>1, TypesKept, Zenon DEF WithdrawDone, TypeOK
<1>12. CASE Unbind(c)
  <2>1. UserTypes'
      BY <1>0, <1>12, ZenonT(40) DEF Unbind, UserTypes
  <2>2. TaskTypes'
      BY <1>0, <1>12, Zenon DEF Unbind, TaskTypes, TaskPcs, AfterUnbind
  <2>. QED
      BY <1>12, <2>1, <2>2, TypesKept DEF Unbind, TypeOK
<1>13. CASE UnbindReap(c)
  <2>1. UserTypes'
      BY <1>0, <1>13, Zenon DEF UnbindReap, UserTypes
  <2>2. TaskTypes'
      BY <1>0, <1>13, Zenon DEF UnbindReap, TaskTypes, TaskPcs, AfterUnbind
  <2>. QED
      BY <1>13, <2>1, <2>2, TypesKept, Zenon DEF UnbindReap, TypeOK
<1>14. CASE UnbindCount(c)
  <2>1. TaskTypes'
      BY <1>0, <1>14, Zenon DEF UnbindCount, TaskTypes, TaskPcs
  <2>. QED
      BY <1>14, <2>1, TypesKept, Zenon DEF UnbindCount, TypeOK
<1>15. CASE UnbindSet(c)
  <2>1. InterestTypes'
      BY <1>0, <1>15, Zenon DEF UnbindSet, InterestTypes
  <2>2. TaskTypes'
      BY <1>0, <1>15, Zenon DEF UnbindSet, TaskTypes, TaskPcs
  <2>. QED
      BY <1>15, <2>1, <2>2, TypesKept, Zenon DEF UnbindSet, TypeOK
<1>. QED
    BY <1>1, <1>2, <1>3, <1>4, <1>5, <1>6, <1>7, <1>8,
       <1>9, <1>10, <1>11, <1>12, <1>13, <1>14, <1>15, Zenon DEF Task, Tail

\* So does every step of a verb on the JS thread.
LEMMA JsTypeStep ==
    ASSUME TypeOK, PointFacts, JsCall \/ JsContinue
    PROVE  TypeOK'
<1>0. /\ SlabTypes /\ RoomTypes /\ UserTypes /\ InterestTypes /\ TaskTypes /\ JsTypes
      /\ jsPc \notin {"idle", "fanout"} => jsRoom \in Rooms
    BY DEF TypeOK, PointFacts
<1>1. ASSUME NEW id \in Ids, Live(id), NEW rs \in SUBSET Rooms,
             slab' = [slab EXCEPT ![id.key].rooms = rs], UNCHANGED <<gens, inserts>>
      PROVE  SlabTypes'
    BY <1>0, <1>1, LiveEntry, RoomsField, Zenon DEF SlabTypes
<1>2. ASSUME NEW c \in Conns, NEW r \in Rooms, Join(c, r) PROVE TypeOK'
  <2>1. /\ idOf[c] \in Ids /\ Live(idOf[c])
        /\ slab[idOf[c].key].rooms \cup {r} \in SUBSET Rooms
      BY <1>2, OwnEntry DEF Join, Opened
  <2>2. SlabTypes'
      BY <1>1, <1>2, <2>1, ZenonT(40) DEF Join
  <2>3. RoomTypes'
      BY <1>0, <1>2, <2>1, Zenon DEF Join, RoomTypes
  <2>4. JsTypes'
      BY <1>0, <1>2, Zenon DEF Join, JsTypes, JsPcs
  <2>. QED
      BY <1>2, <2>2, <2>3, <2>4, TypesKept, Zenon DEF Join, TypeOK
<1>3. ASSUME NEW c \in Conns, NEW r \in Rooms, Leave(c, r) PROVE TypeOK'
  <2>1. /\ idOf[c] \in Ids /\ Live(idOf[c])
        /\ slab[idOf[c].key].rooms \ {r} \in SUBSET Rooms
      BY <1>3, OwnEntry DEF Leave, Opened
  <2>2. SlabTypes'
      BY <1>1, <1>3, <2>1, Zenon DEF Leave, LeaveEffect
  <2>3. RoomTypes'
      BY <1>0, <1>3, Zenon DEF Leave, LeaveEffect, RoomTypes
  <2>4. JsTypes'
      BY <1>0, <1>3, <2>1, Zenon DEF Leave, JsTypes, JsPcs
  <2>. QED
      BY <1>3, <2>2, <2>3, <2>4, TypesKept, Zenon DEF Leave, TypeOK
<1>4. ASSUME NEW r \in Rooms, CloseRoom(r) PROVE TypeOK'
  <2>1. JsTypes'
      BY <1>0, <1>4, Zenon DEF CloseRoom, JsTypes, JsPcs, RoomTypes
  <2>. QED
      BY <1>4, <2>1, TypesKept, Zenon DEF CloseRoom, TypeOK
<1>5. ASSUME NEW ids \in SUBSET Ids, CopyOut(ids) PROVE TypeOK'
  <2>1. JsTypes'
      BY <1>0, <1>5, Zenon DEF CopyOut, JsTypes, JsPcs
  <2>. QED
      BY <1>5, <2>1, TypesKept, Zenon DEF CopyOut, TypeOK
<1>6. ASSUME NEW r \in Rooms, BroadcastRoom(r) PROVE TypeOK'
    BY <1>0, <1>5, <1>6, Zenon DEF BroadcastRoom, RoomTypes
<1>7. ASSUME NEW u \in Users, BroadcastUser(u) PROVE TypeOK'
    BY <1>0, <1>5, <1>7, Zenon DEF BroadcastUser, UserTypes
<1>8. CASE JoinInfo
  <2>1. JsTypes'
      BY <1>0, <1>8, Zenon DEF JoinInfo, JsTypes, JsPcs, JsReturn
  <2>. QED
      BY <1>8, <2>1, TypesKept, Zenon DEF JoinInfo, TypeOK
<1>9. CASE JoinSet
  <2>1. InterestTypes'
      BY <1>0, <1>9, Zenon DEF JoinSet, InterestTypes
  <2>2. JsTypes'
      BY <1>0, <1>9, Zenon DEF JoinSet, JsTypes, JsPcs, JsReturn
  <2>. QED
      BY <1>9, <2>1, <2>2, TypesKept, Zenon DEF JoinSet, TypeOK
<1>10. CASE LeaveReap
  <2>1. RoomTypes'
      BY <1>0, <1>10, Zenon DEF LeaveReap, RoomTypes, RemoveIfEmpty
  <2>2. JsTypes'
      BY <1>0, <1>10, Zenon DEF LeaveReap, JsTypes, JsPcs, JsReturn
  <2>. QED
      BY <1>10, <2>1, <2>2, TypesKept, Zenon DEF LeaveReap, TypeOK
<1>11. CASE LeaveInfo
  <2>1. JsTypes'
      BY <1>0, <1>11, Zenon DEF LeaveInfo, JsTypes, JsPcs, JsReturn
  <2>. QED
      BY <1>11, <2>1, TypesKept, Zenon DEF LeaveInfo, TypeOK
<1>12. CASE LeaveSet
  <2>1. InterestTypes'
      BY <1>0, <1>12, Zenon DEF LeaveSet, InterestTypes
  <2>2. JsTypes'
      BY <1>0, <1>12, Zenon DEF LeaveSet, JsTypes, JsPcs, JsReturn
  <2>. QED
      BY <1>12, <2>1, <2>2, TypesKept, Zenon DEF LeaveSet, TypeOK
<1>13. CASE CloseReap
  <2>1. RoomTypes'
      BY <1>0, <1>13, Zenon DEF CloseReap, RoomTypes, RemoveIfEmpty
  <2>2. JsTypes'
      BY <1>0, <1>13, Zenon DEF CloseReap, JsTypes, JsPcs
  <2>. QED
      BY <1>13, <2>1, <2>2, TypesKept, Zenon DEF CloseReap, TypeOK
<1>14. CASE CloseRoomDone
  <2>1. JsTypes'
      BY <1>0, <1>14, Zenon DEF CloseRoomDone, JsTypes, JsPcs, JsReturn
  <2>. QED
      BY <1>14, <2>1, TypesKept, Zenon DEF CloseRoomDone, TypeOK
<1>15. CASE FanoutDone
  <2>1. JsTypes'
      BY <1>0, <1>15, Zenon DEF FanoutDone, JsTypes, JsPcs, JsReturn
  <2>. QED
      BY <1>15, <2>1, TypesKept, Zenon DEF FanoutDone, TypeOK
<1>16. CASE FanoutPush
  <2>1. PICK id \in jsWork :
          /\ jsWork' = jsWork \ {id}
          /\ reached' = IF Live(id) THEN reached \cup {slab[id.key].handle} ELSE reached
      BY <1>16, ZenonT(40) DEF FanoutPush
  <2>2. id \in Ids /\ (Live(id) => slab[id.key].handle \in Conns)
      BY <1>0, LiveEntry, Zenon DEF JsTypes
  <2>3. JsTypes'
      BY <1>0, <1>16, <2>1, <2>2, Zenon DEF FanoutPush, JsTypes
  <2>. QED
      BY <1>16, <2>3, TypesKept DEF FanoutPush, TypeOK
<1>17. CASE CloseRoomLeave
  <2>1. PICK id \in jsWork :
          /\ jsWork' = jsWork \ {id}
          /\ IF Live(id) /\ jsRoom \in slab[id.key].rooms
               THEN /\ LeaveEffect(id, jsRoom)
                    /\ jsPc' = IF Empties(jsRoom, id) THEN "closeReap" ELSE "closeRoom"
                    /\ jsId' = IF Empties(jsRoom, id) THEN id ELSE NoId
               ELSE UNCHANGED <<slab, members, jsPc, jsId>>
      BY <1>17, Zenon DEF CloseRoomLeave
  <2>2. id \in Ids /\ jsRoom \in Rooms
      BY <1>0, <1>17, Zenon DEF CloseRoomLeave, JsTypes
  <2>3. SlabTypes'
    <3>1. CASE Live(id) /\ jsRoom \in slab[id.key].rooms
      <4>1. slab[id.key].rooms \ {jsRoom} \in SUBSET Rooms
          BY <2>2, <3>1, LiveEntry
      <4>. QED
          BY <1>1, <1>17, <2>1, <2>2, <3>1, <4>1, Zenon DEF LeaveEffect, CloseRoomLeave
    <3>2. CASE UNCHANGED slab
        BY <1>0, <1>17, <3>2, Zenon DEF SlabTypes, CloseRoomLeave
    <3>. QED
        BY <2>1, <3>1, <3>2, Zenon
  <2>4. RoomTypes'
      BY <1>0, <1>17, <2>1, <2>2, SMTT(30) DEF CloseRoomLeave, LeaveEffect, RoomTypes
  <2>5. JsTypes'
      BY <1>0, <1>17, <2>1, <2>2, Zenon DEF CloseRoomLeave, JsTypes, JsPcs
  <2>. QED
      BY <1>17, <2>3, <2>4, <2>5, TypesKept, Zenon DEF CloseRoomLeave, TypeOK
<1>. QED
    BY <1>2, <1>3, <1>4, <1>6, <1>7, <1>8, <1>9, <1>10, <1>11, <1>12, <1>13,
       <1>14, <1>15, <1>16, <1>17, Zenon DEF JsCall, JsContinue

\* Type correctness is inductive.
LEMMA TypeStep ==
    ASSUME TypeOK, PointFacts, [Next]_vars
    PROVE  TypeOK'
<1>1. CASE UNCHANGED vars
    BY <1>1, TypesKept, SMTT(30) DEF vars, TypeOK
<1>. QED
    BY <1>1, TaskTypeStep, JsTypeStep, Zenon DEF Next, Finished

\* Every step of a connection task or of the JS thread leaves the locals of
\* its thread as the next program point expects them.
LEMMA PointStep ==
    ASSUME TypeOK, TypeOK', PointFacts, [Next]_vars
    PROVE  PointFacts'
<1>. TaskTypes /\ SweepTypes /\ JsTypes
    BY Zenon DEF TypeOK
<1>. USE ConstAssumption DEF TaskTypes, SweepTypes, JsTypes, PointFacts
<1>1. ASSUME NEW c \in Conns, Insert(c) PROVE PointFacts'
    BY <1>1, NextGenerationRange, SMTT(30) DEF Insert, Ids, jsVars
<1>2. ASSUME NEW c \in Conns, Task(c), ~Insert(c) PROVE PointFacts'
  <2>1. CASE Bind(c) \/ BindCount(c) \/ BindSet(c) \/ RemoveFull(c)
      BY <2>1, ZenonT(40) DEF Bind, BindCount, BindSet, RemoveFull, jsVars
  <2>2. CASE SweepMember(c) \/ Reap(c) \/ SweepDone(c)
      BY <2>2 DEF SweepMember, Reap, SweepDone, IdentityTail, jsVars
  <2>3. CASE WithdrawCount(c) \/ WithdrawSet(c) \/ WithdrawDone(c)
      BY <2>3, SMTT(60) DEF WithdrawCount, WithdrawSet, WithdrawDone, IdentityTail, jsVars
  <2>4. CASE Unbind(c) \/ UnbindReap(c) \/ UnbindCount(c) \/ UnbindSet(c)
      BY <2>4 DEF Unbind, UnbindReap, UnbindCount, UnbindSet, AfterUnbind, jsVars
  <2>. QED
      BY <1>2, <2>1, <2>2, <2>3, <2>4, ZenonT(40) DEF Task, Tail
<1>3. ASSUME NEW c \in Conns, NEW r \in Rooms, Join(c, r) \/ Leave(c, r)
      PROVE PointFacts'
    BY <1>3, ZenonT(40) DEF Join, Leave, Opened, taskVars
<1>4. ASSUME NEW r \in Rooms, CloseRoom(r) \/ BroadcastRoom(r) PROVE PointFacts'
    BY <1>4, Zenon DEF CloseRoom, BroadcastRoom, CopyOut, taskVars
<1>5. ASSUME NEW u \in Users, BroadcastUser(u) PROVE PointFacts'
    BY <1>5, Zenon DEF BroadcastUser, CopyOut, taskVars
<1>6. CASE JsContinue
  <2>1. CASE JoinInfo \/ JoinSet
      BY <2>1, Zenon DEF JoinInfo, JoinSet, JsReturn, taskVars
  <2>2. CASE LeaveReap \/ LeaveInfo \/ LeaveSet
      BY <2>2, Zenon DEF LeaveReap, LeaveInfo, LeaveSet, JsReturn, taskVars
  <2>3. CASE CloseRoomLeave
      BY <2>3, Zenon DEF CloseRoomLeave, taskVars
  <2>4. CASE CloseReap \/ CloseRoomDone
      BY <2>4, Zenon DEF CloseReap, CloseRoomDone, JsReturn, taskVars
  <2>5. CASE FanoutPush \/ FanoutDone
      BY <2>5, Zenon DEF FanoutPush, FanoutDone, JsReturn, taskVars
  <2>. QED
      BY <1>6, <2>1, <2>2, <2>3, <2>4, <2>5, Zenon DEF JsContinue
<1>7. CASE UNCHANGED vars
    BY <1>7, Zenon DEF vars, taskVars, jsVars
<1>. QED
    BY <1>1, <1>2, <1>3, <1>4, <1>5, <1>6, <1>7, Zenon DEF Next, JsCall, Finished

\* An engine without a cluster raises no interest edge.
LEMMA UnclusteredStep ==
    ASSUME TypeOK, UnclusteredQuiet, [Next]_vars
    PROVE  UnclusteredQuiet'
<1>. SUFFICES ASSUME ~Clustered PROVE UnclusteredQuiet'
    BY DEF UnclusteredQuiet
<1>. TaskTypes
    BY Zenon DEF TypeOK
<1>. USE DEF TaskTypes, UnclusteredQuiet
<1>1. ASSUME NEW c \in Conns, Task(c) PROVE UnclusteredQuiet'
  <2>1. CASE Insert(c) \/ Bind(c) \/ BindCount(c) \/ BindSet(c) \/ RemoveFull(c)
      BY <2>1, SMTT(30) DEF Insert, Bind, BindCount, BindSet, RemoveFull, interestVars
  <2>2. CASE SweepMember(c) \/ Reap(c) \/ SweepDone(c)
      BY <2>2, ZenonT(40) DEF SweepMember, Reap, SweepDone, IdentityTail, interestVars
  <2>3. CASE WithdrawCount(c) \/ WithdrawSet(c) \/ WithdrawDone(c)
      BY <2>3, ZenonT(40) DEF WithdrawCount, WithdrawSet, WithdrawDone, IdentityTail, interestVars
  <2>4. CASE Unbind(c) \/ UnbindReap(c) \/ UnbindCount(c) \/ UnbindSet(c)
      BY <2>4, Zenon DEF Unbind, UnbindReap, UnbindCount, UnbindSet, AfterUnbind, interestVars
  <2>. QED
      BY <1>1, <2>1, <2>2, <2>3, <2>4, Zenon DEF Task, Tail
<1>2. CASE \E c \in Conns, r \in Rooms : Join(c, r) \/ Leave(c, r)
    BY <1>2 DEF Join, Leave, taskVars, interestVars
<1>3. CASE JsContinue
  <2>1. CASE JoinInfo \/ JoinSet \/ LeaveReap \/ LeaveInfo \/ LeaveSet
      BY <2>1, Zenon DEF JoinInfo, JoinSet, LeaveReap, LeaveInfo, LeaveSet, taskVars, interestVars
  <2>2. CASE CloseRoomLeave \/ CloseReap \/ CloseRoomDone
      BY <2>2, ZenonT(40) DEF CloseRoomLeave, CloseReap, CloseRoomDone, taskVars, interestVars
  <2>3. CASE FanoutPush \/ FanoutDone
      BY <2>3, ZenonT(40) DEF FanoutPush, FanoutDone, taskVars, interestVars
  <2>. QED
      BY <1>3, <2>1, <2>2, <2>3, Zenon DEF JsContinue
<1>4. CASE \/ \E r \in Rooms : CloseRoom(r) \/ BroadcastRoom(r)
           \/ \E u \in Users : BroadcastUser(u)
           \/ UNCHANGED vars
    BY <1>4 DEF CloseRoom, BroadcastRoom, BroadcastUser, CopyOut, vars, taskVars,
        interestVars
<1>. QED
    BY <1>1, <1>2, <1>3, <1>4, Zenon DEF Next, JsCall, Finished

-----------------------------------------------------------------------------

\* What Join, Leave and the closeRoom sweep do to the slab.
LEMMA SlabRoomWrite ==
    ASSUME TypeOK, PointFacts,
           \/ \E c \in Conns, r \in Rooms : Join(c, r) \/ Leave(c, r)
           \/ CloseRoomLeave
    PROVE  \A s \in Slots :
             /\ slab'[s] = Vacant <=> slab[s] = Vacant
             /\ slab[s] # Vacant => /\ slab'[s].handle = slab[s].handle
                                    /\ slab'[s].generation = slab[s].generation
<1>. SlabTypes /\ TaskTypes /\ JsTypes
    BY DEF TypeOK
<1>. USE ConstAssumption DEF SlabTypes, TaskTypes, JsTypes
<1>1. ASSUME NEW c \in Conns, NEW r \in Rooms, Join(c, r) \/ Leave(c, r)
      PROVE  /\ idOf[c].key \in Slots
             /\ slab[idOf[c].key] # Vacant
             /\ \E rs \in SUBSET Rooms : slab' = [slab EXCEPT ![idOf[c].key].rooms = rs]
  <2>1. idOf[c] \in Ids /\ slab[idOf[c].key] \in Entry /\ slab[idOf[c].key] # Vacant
      BY <1>1, Zenon DEF PointFacts, Join, Leave, Opened, Live, Ids
  <2>2. /\ slab[idOf[c].key].rooms \cup {r} \in SUBSET Rooms
        /\ slab[idOf[c].key].rooms \ {r} \in SUBSET Rooms
      BY <2>1, ZenonT(40) DEF Entry
  <2>. QED
      BY <1>1, <2>1, <2>2, ZenonT(40) DEF Join, Leave, LeaveEffect, Ids
<1>2. ASSUME CloseRoomLeave
      PROVE  \/ slab' = slab
             \/ \E k \in Slots, rs \in SUBSET Rooms :
                   slab[k] # Vacant /\ slab' = [slab EXCEPT ![k].rooms = rs]
  <2>1. PICK id \in jsWork :
          IF Live(id) /\ jsRoom \in slab[id.key].rooms
            THEN LeaveEffect(id, jsRoom)
            ELSE slab' = slab
      BY <1>2 DEF CloseRoomLeave
  <2>2. CASE Live(id) /\ jsRoom \in slab[id.key].rooms
    <3>1. id.key \in Slots /\ slab[id.key] \in Entry /\ slab[id.key] # Vacant
        BY <2>2, Zenon DEF Ids, Live
    <3>2. slab[id.key].rooms \ {jsRoom} \in SUBSET Rooms
        BY <3>1 DEF Entry
    <3>. QED
        BY <2>1, <2>2, <3>1, <3>2, Zenon DEF LeaveEffect
  <2>. QED
      BY <2>1, <2>2, ZenonT(40)
<1>3. \/ slab' = slab
      \/ \E k \in Slots, rs \in SUBSET Rooms :
            slab[k] # Vacant /\ slab' = [slab EXCEPT ![k].rooms = rs]
  <2>1. CASE CloseRoomLeave
      BY <1>2, <2>1, Zenon
  <2>2. CASE \E c \in Conns, r \in Rooms : Join(c, r) \/ Leave(c, r)
    <3>1. PICK c \in Conns, r \in Rooms : Join(c, r) \/ Leave(c, r)
        BY <2>2, Zenon
    <3>. QED
        BY <1>1, <3>1, Zenon
  <2>. QED
      BY <2>1, <2>2, Zenon
<1>4. ASSUME NEW k \in Slots, NEW rs \in SUBSET Rooms, slab[k] # Vacant,
             slab' = [slab EXCEPT ![k].rooms = rs], NEW s \in Slots
      PROVE  /\ slab'[s] = Vacant <=> slab[s] = Vacant
             /\ slab[s] # Vacant => /\ slab'[s].handle = slab[s].handle
                                    /\ slab'[s].generation = slab[s].generation
  <2>1. /\ slab'[k] # Vacant
        /\ slab'[k].handle = slab[k].handle
        /\ slab'[k].generation = slab[k].generation
        /\ \A t \in Slots \ {k} : slab'[t] = slab[t]
      BY <1>4, RoomsField, Zenon
  <2>. QED
      BY <1>4, <2>1
<1>. QED
    BY <1>3, <1>4, Zenon

\* Steps of the JS thread that leave the registries and the tasks alone and
\* neither enter nor leave a remove_member.
LEMMA JsLocal ==
    ASSUME \/ \E r \in Rooms : CloseRoom(r) \/ BroadcastRoom(r)
           \/ \E u \in Users : BroadcastUser(u)
           \/ JoinInfo \/ JoinSet \/ LeaveInfo \/ LeaveSet \/ CloseRoomDone
           \/ FanoutPush \/ FanoutDone
           \/ UNCHANGED vars
    PROVE  /\ UNCHANGED <<connVars, roomVars, userVars, taskVars>>
           /\ \/ UNCHANGED jsVars
              \/ /\ jsPc \notin {"leaveReap", "closeReap"}
                 /\ jsPc' \notin {"leaveReap", "closeReap"}
<1>1. CASE \E r \in Rooms : CloseRoom(r) \/ BroadcastRoom(r)
    BY <1>1, Zenon DEF CloseRoom, BroadcastRoom, CopyOut
<1>2. CASE \E u \in Users : BroadcastUser(u)
    BY <1>2, Zenon DEF BroadcastUser, CopyOut
<1>3. CASE JoinInfo \/ JoinSet
    BY <1>3, Zenon DEF JoinInfo, JoinSet, JsReturn
<1>4. CASE LeaveInfo \/ LeaveSet
    BY <1>4, Zenon DEF LeaveInfo, LeaveSet, JsReturn
<1>5. CASE CloseRoomDone \/ FanoutDone
    BY <1>5, ZenonT(40) DEF CloseRoomDone, FanoutDone, JsReturn
<1>6. CASE FanoutPush
    BY <1>6 DEF FanoutPush
<1>7. CASE UNCHANGED vars
    BY <1>7, Zenon DEF vars
<1>. QED
    BY <1>1, <1>2, <1>3, <1>4, <1>5, <1>6, <1>7, Zenon

\* insert and remove_full keep one slab entry per open connection task.
LEMMA SlabStep ==
    ASSUME TypeOK, TypeOK', PointFacts, SlabOwned, [Next]_vars
    PROVE  SlabOwned'
<1>. SlabTypes /\ TaskTypes
    BY ZenonT(40) DEF TypeOK
<1>. USE ConstAssumption DEF SlabTypes, TaskTypes, OpenPcs
<1>1. ASSUME NEW c \in Conns, Insert(c) PROVE SlabOwned'
  <2>1. PICK s \in Slots, u \in Users \cup {NoUser} :
            /\ slab[s] = Vacant
            /\ slab' = [slab EXCEPT ![s] =
                          [generation |-> NextGeneration(s), handle |-> c,
                           rooms |-> {}, user |-> u]]
            /\ idOf' = [idOf EXCEPT ![c] = [key |-> s, generation |-> NextGeneration(s)]]
            /\ pc' = [pc EXCEPT ![c] = IF u = NoUser THEN "run" ELSE "bind"]
      BY <1>1, ZenonT(40) DEF Insert
  <2>2. /\ slab'[s].handle = c
        /\ slab'[s].generation = NextGeneration(s)
        /\ idOf'[c] = [key |-> s, generation |-> NextGeneration(s)]
        /\ pc'[c] \in OpenPcs
        /\ slab'[s] # Vacant
    <3>1. NextGeneration(s) \in 0 .. GenMod - 1
        BY NextGenerationRange, Zenon
    <3>. QED
        BY <2>1, <3>1 DEF Entry
  <2>3. /\ \A d \in Conns \ {c} : pc'[d] = pc[d] /\ idOf'[d] = idOf[d]
        /\ \A t \in Slots \ {s} : slab'[t] = slab[t]
      BY <2>1, Zenon
  <2>4. pc[c] \notin OpenPcs
      BY <1>1, Zenon DEF Insert
  <2>5. ASSUME NEW d \in Conns, pc'[d] \in OpenPcs
        PROVE  slab'[idOf'[d].key] # Vacant /\ slab'[idOf'[d].key].handle = d
    <3>1. CASE d = c
        BY <2>2, <3>1
    <3>2. CASE d # c
      <4>1. slab[idOf[d].key] # Vacant /\ slab[idOf[d].key].handle = d /\ idOf[d].key \in Slots
          BY <2>3, <2>5, <3>2 DEF SlabOwned, PointFacts, Ids
      <4>. QED
          BY <2>1, <2>3, <3>2, <4>1, ZenonT(40)
    <3>. QED
        BY <3>1, <3>2, ZenonT(40)
  <2>6. ASSUME NEW t \in Slots, slab'[t] # Vacant
        PROVE  /\ pc'[slab'[t].handle] \in OpenPcs
               /\ idOf'[slab'[t].handle] = [key |-> t, generation |-> slab'[t].generation]
    <3>1. CASE t = s
        BY <2>2, <3>1, ZenonT(40)
    <3>2. CASE t # s
      <4>1. slab'[t] = slab[t] /\ slab[t] \in Entry
          BY <2>3, <2>6, <3>2, Zenon
      <4>2. slab[t].handle \in Conns /\ slab[t].handle # c
          BY <2>4, <2>6, <4>1, ZenonT(40) DEF SlabOwned, Entry
      <4>. QED
          BY <2>3, <2>6, <4>1, <4>2 DEF SlabOwned
    <3>. QED
        BY <3>1, <3>2, Zenon
  <2>. QED
      BY <2>5, <2>6 DEF SlabOwned
<1>2. ASSUME NEW c \in Conns, RemoveFull(c) PROVE SlabOwned'
  <2>1. /\ idOf[c].key \in Slots
        /\ slab[idOf[c].key].handle = c
    <3>1. pc[c] \in OpenPcs /\ idOf[c] # NoId
        BY <1>2 DEF RemoveFull, PointFacts, OpenPcs
    <3>2. idOf[c] \in Ids
        BY <3>1, Zenon
    <3>. QED
        BY <3>1, <3>2, Zenon DEF SlabOwned, Ids
  <2>2. ASSUME NEW s \in Slots, slab[s] # Vacant, slab[s].handle = c
        PROVE  s = idOf[c].key
    <3>1. idOf[c] = [key |-> s, generation |-> slab[s].generation]
        BY <2>2, Zenon DEF SlabOwned
    <3>. QED
        BY <3>1
  <2>3. \A s \in Slots : slab[s] # Vacant => slab[s].handle \in Conns
      BY Zenon DEF Entry
  <2>4. \A d \in Conns : idOf[d] # NoId => idOf[d].key \in Slots
      BY Zenon DEF Ids
  <2>5. /\ slab'[idOf[c].key] = Vacant
        /\ \A s \in Slots \ {idOf[c].key} : slab'[s] = slab[s]
        /\ pc'[c] \notin OpenPcs /\ idOf' = idOf
        /\ \A d \in Conns \ {c} : pc'[d] = pc[d]
      BY <1>2, <2>1 DEF RemoveFull, OpenPcs
  <2>6. ASSUME NEW d \in Conns, pc'[d] \in OpenPcs
        PROVE  slab'[idOf'[d].key] # Vacant /\ slab'[idOf'[d].key].handle = d
    <3>1. d # c /\ pc[d] \in OpenPcs
        BY <2>5, <2>6, Zenon
    <3>2. /\ slab[idOf[d].key] # Vacant /\ slab[idOf[d].key].handle = d
          /\ idOf[d].key \in Slots
      <4>1. idOf[d] # NoId
          BY <3>1, Zenon DEF PointFacts, OpenPcs
      <4>. QED
          BY <2>4, <3>1, <4>1, Zenon DEF SlabOwned
    <3>3. idOf[d].key # idOf[c].key
        BY <2>1, <3>1, <3>2, Zenon
    <3>. QED
        BY <2>5, <3>2, <3>3, Zenon
  <2>7. ASSUME NEW s \in Slots, slab'[s] # Vacant
        PROVE  /\ pc'[slab'[s].handle] \in OpenPcs
               /\ idOf'[slab'[s].handle] = [key |-> s, generation |-> slab'[s].generation]
    <3>1. s # idOf[c].key /\ slab'[s] = slab[s]
        BY <2>5, <2>7, Zenon
    <3>2. slab[s].handle \in Conns \ {c}
        BY <2>2, <2>3, <2>7, <3>1, Zenon
    <3>3. /\ pc[slab[s].handle] \in OpenPcs
          /\ idOf[slab[s].handle] = [key |-> s, generation |-> slab[s].generation]
        BY <2>7, <3>1, Zenon DEF SlabOwned
    <3>4. pc'[slab[s].handle] = pc[slab[s].handle]
        BY <2>5, <3>2, Zenon
    <3>. QED
        BY <2>5, <3>1, <3>3, <3>4, Zenon
  <2>. QED
      BY <2>6, <2>7, Zenon DEF SlabOwned
<1>3. ASSUME NEW c \in Conns, Task(c), ~Insert(c), ~RemoveFull(c) PROVE SlabOwned'
  <2>1. /\ UNCHANGED <<slab, idOf>>
        /\ pc' = [pc EXCEPT ![c] = pc'[c]]
        /\ pc[c] \in OpenPcs <=> pc'[c] \in OpenPcs
    <3>1. CASE Bind(c) \/ BindCount(c) \/ BindSet(c)
        BY <3>1, Zenon DEF Bind, BindCount, BindSet, connVars
    <3>2. CASE SweepMember(c) \/ Reap(c) \/ SweepDone(c)
        BY <3>2, ZenonT(40) DEF SweepMember, Reap, SweepDone, IdentityTail, connVars
    <3>3. CASE WithdrawCount(c) \/ WithdrawSet(c) \/ WithdrawDone(c)
        BY <3>3, ZenonT(40) DEF WithdrawCount, WithdrawSet, WithdrawDone, IdentityTail, connVars
    <3>4. CASE Unbind(c) \/ UnbindReap(c) \/ UnbindCount(c) \/ UnbindSet(c)
        BY <3>4, ZenonT(40) DEF Unbind, UnbindReap, UnbindCount, UnbindSet, AfterUnbind, connVars
    <3>. QED
        BY <1>3, <3>1, <3>2, <3>3, <3>4, Zenon DEF Task, Tail
  <2>2. \A d \in Conns : pc[d] \in OpenPcs <=> pc'[d] \in OpenPcs
      BY <2>1, Zenon
  <2>3. \A s \in Slots : slab[s] # Vacant => slab[s].handle \in Conns
      BY Zenon DEF Entry
  <2>. QED
      BY <2>1, <2>2, <2>3, Zenon DEF SlabOwned
<1>4. CASE \/ \E c \in Conns, r \in Rooms : Join(c, r) \/ Leave(c, r)
           \/ CloseRoomLeave
  <2>1. UNCHANGED <<pc, idOf>>
      BY <1>4, ZenonT(40) DEF Join, Leave, CloseRoomLeave, taskVars
  <2>2. \A d \in Conns : pc[d] \in OpenPcs => idOf[d].key \in Slots
      BY DEF PointFacts, Ids
  <2>. QED
      BY <1>4, <2>1, <2>2, SlabRoomWrite DEF SlabOwned
<1>5. CASE \/ \E r \in Rooms : CloseRoom(r) \/ BroadcastRoom(r)
           \/ \E u \in Users : BroadcastUser(u)
           \/ JsContinue /\ ~CloseRoomLeave
           \/ UNCHANGED vars
  <2>1. UNCHANGED <<pc, idOf, slab>>
    <3>1. CASE LeaveReap \/ CloseReap
        BY <3>1, Zenon DEF LeaveReap, CloseReap, taskVars, connVars
    <3>2. CASE ~LeaveReap /\ ~CloseReap
        BY <1>5, <3>2, JsLocal, Zenon DEF JsContinue, taskVars, connVars
    <3>. QED
        BY <3>1, <3>2, Zenon
  <2>. QED
      BY <2>1, Zenon DEF SlabOwned
<1>. QED
    BY <1>1, <1>2, <1>3, <1>4, <1>5, Zenon DEF Next, JsCall, Finished, JsContinue

\* join, remove_member and its remove_if keep every empty room entry in the
\* hands of the thread that will reap it.
LEMMA EmptyRoomStep ==
    ASSUME TypeOK, PointFacts, EmptyRoomDoomed, [Next]_vars
    PROVE  EmptyRoomDoomed'
<1>. RoomTypes /\ TaskTypes /\ SweepTypes /\ JsTypes
    BY Zenon DEF TypeOK
<1>. USE DEF RoomTypes, TaskTypes, SweepTypes, JsTypes, PointFacts
<1>1. ASSUME NEW c \in Conns, SweepMember(c) PROVE EmptyRoomDoomed'
    BY <1>1 DEF EmptyRoomDoomed, SweepMember, Empties, jsVars
<1>2. ASSUME NEW c \in Conns, Reap(c) PROVE EmptyRoomDoomed'
    BY <1>2, Zenon DEF EmptyRoomDoomed, Reap, RemoveIfEmpty, jsVars
<1>3. ASSUME NEW c \in Conns, Task(c), ~SweepMember(c), ~Reap(c) PROVE EmptyRoomDoomed'
  <2>1. /\ UNCHANGED <<roomVars, jsVars>>
        /\ pc[c] # "reap"
        /\ pc' = [pc EXCEPT ![c] = pc'[c]]
        /\ \A d \in Conns \ {c} : cur'[d] = cur[d]
    <3>1. CASE Insert(c) \/ Bind(c) \/ BindCount(c) \/ BindSet(c) \/ RemoveFull(c)
        BY <3>1, Zenon DEF Insert, Bind, BindCount, BindSet, RemoveFull
    <3>2. CASE SweepDone(c) \/ WithdrawCount(c) \/ WithdrawSet(c) \/ WithdrawDone(c)
        BY <3>2 DEF SweepDone, WithdrawCount, WithdrawSet, WithdrawDone
    <3>3. CASE Unbind(c) \/ UnbindReap(c) \/ UnbindCount(c) \/ UnbindSet(c)
        BY <3>3, Zenon DEF Unbind, UnbindReap, UnbindCount, UnbindSet
    <3>. QED
        BY <1>3, <3>1, <3>2, <3>3, Zenon DEF Task, Tail
  <2>2. \A d \in Conns, r \in Rooms :
            pc[d] = "reap" /\ cur[d] = r => pc'[d] = "reap" /\ cur'[d] = r
      BY <2>1, ZenonT(40)
  <2>. QED
      BY <2>1, <2>2, ZenonT(40) DEF EmptyRoomDoomed, roomVars, jsVars
<1>4. ASSUME NEW c \in Conns, NEW r \in Rooms, Join(c, r) PROVE EmptyRoomDoomed'
  <2>1. /\ r \in roomKeys' /\ members'[r] # {}
        /\ \A q \in Rooms \ {r} : /\ members'[q] = members[q]
                                  /\ q \in roomKeys' <=> q \in roomKeys
        /\ jsPc = "idle"
        /\ UNCHANGED <<pc, cur>>
      BY <1>4, Zenon DEF Join, taskVars
  <2>. QED
      BY <2>1, SMTT(40) DEF EmptyRoomDoomed
<1>5. ASSUME NEW c \in Conns, NEW r \in Rooms, Leave(c, r) PROVE EmptyRoomDoomed'
    BY <1>5 DEF EmptyRoomDoomed, Leave, LeaveEffect, Empties, taskVars
<1>6. CASE LeaveReap \/ CloseReap
    BY <1>6, ZenonT(40) DEF EmptyRoomDoomed, LeaveReap, CloseReap, RemoveIfEmpty, JsReturn, taskVars
<1>7. CASE CloseRoomLeave
    BY <1>7 DEF EmptyRoomDoomed, CloseRoomLeave, LeaveEffect, Empties, taskVars
<1>8. CASE \/ \E r \in Rooms : CloseRoom(r) \/ BroadcastRoom(r)
           \/ \E u \in Users : BroadcastUser(u)
           \/ JoinInfo \/ JoinSet \/ LeaveInfo \/ LeaveSet \/ CloseRoomDone
           \/ FanoutPush \/ FanoutDone
           \/ UNCHANGED vars
    BY <1>8, JsLocal DEF EmptyRoomDoomed, roomVars, taskVars, jsVars
<1>. QED
    BY <1>1, <1>2, <1>3, <1>4, <1>5, <1>6, <1>7, <1>8, Zenon
    DEF Next, JsCall, JsContinue, Finished

\* The same for the user index: bind, unbind and its remove_if.
LEMMA EmptyUserStep ==
    ASSUME TypeOK, PointFacts, EmptyUserDoomed, [Next]_vars
    PROVE  EmptyUserDoomed'
<1>. UserTypes /\ TaskTypes
    BY Zenon DEF TypeOK
<1>. USE DEF UserTypes, TaskTypes, PointFacts
<1>1. ASSUME NEW c \in Conns, Bind(c) PROVE EmptyUserDoomed'
  <2>1. /\ userOf[c] \in userKeys' /\ devices'[userOf[c]] # {}
        /\ \A u \in Users \ {userOf[c]} : /\ devices'[u] = devices[u]
                                          /\ u \in userKeys' <=> u \in userKeys
        /\ \A d \in Conns : pc[d] = "unbindReap" => pc'[d] = "unbindReap"
        /\ UNCHANGED userOf
      BY <1>1, ZenonT(40) DEF Bind
  <2>. QED
      BY <2>1 DEF EmptyUserDoomed
<1>2. ASSUME NEW c \in Conns, Unbind(c) PROVE EmptyUserDoomed'
    BY <1>2 DEF EmptyUserDoomed, Unbind, AfterUnbind
<1>3. ASSUME NEW c \in Conns, UnbindReap(c) PROVE EmptyUserDoomed'
    BY <1>3, ZenonT(40) DEF EmptyUserDoomed, UnbindReap, AfterUnbind
<1>4. ASSUME NEW c \in Conns, Task(c), ~Bind(c), ~Unbind(c), ~UnbindReap(c)
      PROVE  EmptyUserDoomed'
  <2>1. /\ UNCHANGED userVars
        /\ pc[c] # "unbindReap"
        /\ pc' = [pc EXCEPT ![c] = pc'[c]]
        /\ \A d \in Conns \ {c} : userOf'[d] = userOf[d]
    <3>1. CASE Insert(c) \/ BindCount(c) \/ BindSet(c) \/ RemoveFull(c)
        BY <3>1, SMTT(30) DEF Insert, BindCount, BindSet, RemoveFull
    <3>2. CASE SweepMember(c) \/ Reap(c) \/ SweepDone(c)
        BY <3>2, ZenonT(40) DEF SweepMember, Reap, SweepDone
    <3>3. CASE WithdrawCount(c) \/ WithdrawSet(c) \/ WithdrawDone(c)
        BY <3>3, Zenon DEF WithdrawCount, WithdrawSet, WithdrawDone
    <3>4. CASE UnbindCount(c) \/ UnbindSet(c)
        BY <3>4, Zenon DEF UnbindCount, UnbindSet
    <3>. QED
        BY <1>4, <3>1, <3>2, <3>3, <3>4, ZenonT(40) DEF Task, Tail
  <2>2. userKeys' = userKeys /\ devices' = devices
      BY <2>1, Zenon DEF userVars
  <2>3. \A d \in Conns : pc[d] = "unbindReap" => pc'[d] = "unbindReap" /\ userOf'[d] = userOf[d]
      BY <2>1, Zenon
  <2>. QED
      BY <2>2, <2>3, ZenonT(40) DEF EmptyUserDoomed
<1>5. CASE \/ \E c \in Conns, r \in Rooms : Join(c, r) \/ Leave(c, r)
           \/ LeaveReap \/ CloseReap \/ CloseRoomLeave
  <2>1. UNCHANGED <<userKeys, devices, pc, userOf>>
      BY <1>5, ZenonT(40) DEF Join, Leave, LeaveReap, CloseReap, CloseRoomLeave, userVars, taskVars
  <2>. QED
      BY <2>1, SMTT(30) DEF EmptyUserDoomed
<1>6. CASE \/ \E r \in Rooms : CloseRoom(r) \/ BroadcastRoom(r)
           \/ \E u \in Users : BroadcastUser(u)
           \/ JoinInfo \/ JoinSet \/ LeaveInfo \/ LeaveSet \/ CloseRoomDone
           \/ FanoutPush \/ FanoutDone
           \/ UNCHANGED vars
    BY <1>6, JsLocal, ZenonT(40) DEF EmptyUserDoomed, userVars, taskVars
<1>. QED
    BY <1>1, <1>2, <1>3, <1>4, <1>5, <1>6, Zenon DEF Next, JsCall, JsContinue, Finished

\* Only insert hands out ids; everything else leaves the counters alone.
LEMMA OnlyInsertCounts ==
    ASSUME [Next]_vars, \A c \in Conns : ~Insert(c)
    PROVE  UNCHANGED <<gens, inserts, idOf>>
<1>1. ASSUME NEW c \in Conns, Task(c) PROVE UNCHANGED <<gens, inserts, idOf>>
  <2>1. CASE Bind(c) \/ BindCount(c) \/ BindSet(c) \/ RemoveFull(c)
      BY <2>1, ZenonT(40) DEF Bind, BindCount, BindSet, RemoveFull, connVars
  <2>2. CASE SweepMember(c) \/ Reap(c) \/ SweepDone(c)
      BY <2>2, SMTT(30) DEF SweepMember, Reap, SweepDone, connVars
  <2>3. CASE WithdrawCount(c) \/ WithdrawSet(c) \/ WithdrawDone(c)
      BY <2>3, ZenonT(40) DEF WithdrawCount, WithdrawSet, WithdrawDone, connVars
  <2>4. CASE Unbind(c) \/ UnbindReap(c) \/ UnbindCount(c) \/ UnbindSet(c)
      BY <2>4, SMTT(30) DEF Unbind, UnbindReap, UnbindCount, UnbindSet, connVars
  <2>. QED
      BY <1>1, <2>1, <2>2, <2>3, <2>4, Zenon DEF Task, Tail
<1>2. CASE \/ \E c \in Conns, r \in Rooms : Join(c, r) \/ Leave(c, r)
           \/ LeaveReap \/ CloseReap \/ CloseRoomLeave
    BY <1>2, ZenonT(40) DEF Join, Leave, LeaveReap, CloseReap, CloseRoomLeave, connVars, taskVars
<1>3. CASE \/ \E r \in Rooms : CloseRoom(r) \/ BroadcastRoom(r)
           \/ \E u \in Users : BroadcastUser(u)
           \/ JoinInfo \/ JoinSet \/ LeaveInfo \/ LeaveSet \/ CloseRoomDone
           \/ FanoutPush \/ FanoutDone
           \/ UNCHANGED vars
    BY <1>3, JsLocal DEF connVars, taskVars
<1>. QED
    BY <1>1, <1>2, <1>3, Zenon DEF Next, JsCall, JsContinue, Finished

\* An insert of c as user u in slot s with an id nobody ever had.
FreshInsert(c, s, u) ==
    /\ slab[s] = Vacant
    /\ slab' = [slab EXCEPT ![s] =
                  [generation |-> gens[s] + 1, handle |-> c, rooms |-> {}, user |-> u]]
    /\ gens' = [gens EXCEPT ![s] = gens[s] + 1]
    /\ inserts' = [inserts EXCEPT ![s] = inserts[s] + 1]
    /\ idOf' = [idOf EXCEPT ![c] = [key |-> s, generation |-> gens[s] + 1]]
    /\ userOf' = [userOf EXCEPT ![c] = u]
    /\ pc' = [pc EXCEPT ![c] = IF u = NoUser THEN "run" ELSE "bind"]
    /\ [key |-> s, generation |-> gens[s] + 1] \in Ids
    /\ \A d \in Conns : idOf[d] # [key |-> s, generation |-> gens[s] + 1]

\* Before the wrap, insert hands out an id nobody ever had.
LEMMA InsertFresh ==
    ASSUME TypeOK, PointFacts, IdsFresh, NoWrap', NEW c \in Conns, Insert(c)
    PROVE  \E s \in Slots, u \in Users \cup {NoUser} : FreshInsert(c, s, u)
<1>. SlabTypes /\ TaskTypes
    BY DEF TypeOK
<1>. USE ConstAssumption DEF SlabTypes, TaskTypes
<1>1. PICK s \in Slots, u \in Users \cup {NoUser} :
             /\ slab[s] = Vacant
             /\ slab' = [slab EXCEPT ![s] =
                           [generation |-> NextGeneration(s), handle |-> c,
                            rooms |-> {}, user |-> u]]
             /\ gens' = [gens EXCEPT ![s] = NextGeneration(s)]
             /\ inserts' = [inserts EXCEPT ![s] = inserts[s] + 1]
             /\ idOf' = [idOf EXCEPT ![c] = [key |-> s, generation |-> NextGeneration(s)]]
             /\ userOf' = [userOf EXCEPT ![c] = u]
             /\ pc' = [pc EXCEPT ![c] = IF u = NoUser THEN "run" ELSE "bind"]
    BY Zenon DEF Insert
<1>2. gens[s] + 1 < GenMod
  <2>1. inserts'[s] = inserts[s] + 1 /\ inserts'[s] <= GenMod
      BY <1>1, Zenon DEF NoWrap
  <2>. QED
      BY <2>1 DEF IdsFresh
<1>3. NextGeneration(s) = gens[s] + 1
    BY <1>2, NextGenerationGrows, Zenon
<1>4. [key |-> s, generation |-> gens[s] + 1] \in Ids
    BY <1>3, NextGenerationRange, Zenon DEF Ids
<1>5. ASSUME NEW d \in Conns, idOf[d] = [key |-> s, generation |-> gens[s] + 1]
      PROVE  FALSE
  <2>1. idOf[d] # NoId
      BY <1>4, <1>5, ZenonT(40)
  <2>2. idOf[d].key = s /\ idOf[d].generation = gens[s] + 1
      BY <1>5
  <2>3. gens[s] \in Int
      BY SMTT(30)
  <2>. QED
      BY <2>1, <2>2, <2>3 DEF IdsFresh
<1>6. FreshInsert(c, s, u)
    BY <1>1, <1>3, <1>4, <1>5, Zenon DEF FreshInsert
<1>. QED
    BY <1>6

\* Insert counts only grow, so a generation that has not wrapped after a step
\* had not wrapped before it.
LEMMA NoWrapBack ==
    ASSUME TypeOK, [Next]_vars, NoWrap'
    PROVE  NoWrap
<1>1. CASE \E c \in Conns : Insert(c)
  <2>1. PICK s \in Slots : inserts' = [inserts EXCEPT ![s] = @ + 1]
      BY <1>1, Zenon DEF Insert
  <2>2. ASSUME NEW t \in Slots PROVE inserts[t] <= GenMod
    <3>1. inserts[t] \in Nat /\ GenMod \in Nat
        BY ConstAssumption, Zenon DEF TypeOK, SlabTypes
    <3>2. inserts'[t] \in {inserts[t], inserts[t] + 1}
        BY <2>1, Zenon DEF TypeOK, SlabTypes
    <3>3. inserts'[t] <= GenMod
        BY Zenon DEF NoWrap
    <3>. QED
        BY <3>1, <3>2, <3>3
  <2>. QED
      BY <2>2 DEF NoWrap
<1>2. CASE ~ \E c \in Conns : Insert(c)
    BY <1>2, OnlyInsertCounts, Zenon DEF NoWrap
<1>. QED
    BY <1>1, <1>2, Zenon

\* insert hands out an id nobody was given before, as long as no generation
\* has wrapped.
LEMMA IdsFreshStep ==
    ASSUME TypeOK, PointFacts, IdsFresh, NoWrap', [Next]_vars
    PROVE  IdsFresh'
<1>. SlabTypes /\ TaskTypes
    BY Zenon DEF TypeOK
<1>. USE ConstAssumption DEF SlabTypes, TaskTypes
<1>1. ASSUME NEW c \in Conns, Insert(c) PROVE IdsFresh'
  <2>1. PICK s \in Slots, u \in Users \cup {NoUser} : FreshInsert(c, s, u)
      BY <1>1, InsertFresh, Zenon
  <2>. DEFINE new == [key |-> s, generation |-> gens[s] + 1]
  <2>2. /\ gens' = [gens EXCEPT ![s] = gens[s] + 1]
        /\ inserts' = [inserts EXCEPT ![s] = inserts[s] + 1]
        /\ idOf' = [idOf EXCEPT ![c] = new]
        /\ \A d \in Conns : idOf[d] # new
      BY <2>1, Zenon DEF FreshInsert
  <2>3. new.key = s /\ new.generation = gens[s] + 1
      OBVIOUS
  <2>. HIDE DEF new
  <2>4. \A t \in Slots : gens[t] \in Int /\ inserts[t] \in Int /\ gens[t] = inserts[t] - 1
      BY DEF IdsFresh
  <2>5. \A t \in Slots : gens'[t] = inserts'[t] - 1
      BY <2>2, <2>4
  <2>6. \A t \in Slots : gens'[t] \in Int /\ gens[t] <= gens'[t]
      BY <2>2, <2>4
  <2>7. /\ idOf'[c] = new
        /\ \A d \in Conns \ {c} : idOf'[d] = idOf[d]
      BY <2>2, Zenon
  <2>8. ASSUME NEW d \in Conns, idOf'[d] # NoId
        PROVE  idOf'[d].generation <= gens'[idOf'[d].key]
    <3>1. CASE d = c
        BY <2>2, <2>3, <2>4, <2>7, <3>1
    <3>2. CASE d # c
      <4>1. idOf'[d] = idOf[d] /\ idOf[d] \in Ids
          BY <2>7, <2>8, <3>2, ZenonT(40)
      <4>2. /\ idOf[d].key \in Slots
            /\ idOf[d].generation \in Int
          BY <4>1 DEF Ids
      <4>3. idOf[d].generation <= gens[idOf[d].key]
          BY <2>8, <4>1, Zenon DEF IdsFresh
      <4>. QED
          BY <2>4, <2>6, <4>1, <4>2, <4>3
    <3>. QED
        BY <3>1, <3>2, Zenon
  <2>9. ASSUME NEW d \in Conns, NEW e \in Conns, idOf'[d] # NoId, idOf'[d] = idOf'[e]
        PROVE  d = e
      BY <2>2, <2>7, <2>9, Zenon DEF IdsFresh
  <2>. QED
      BY <2>5, <2>8, <2>9, Zenon DEF IdsFresh
<1>2. CASE ~ \E c \in Conns : Insert(c)
    BY <1>2, OnlyInsertCounts, Zenon DEF IdsFresh
<1>. QED
    BY <1>1, <1>2, Zenon

\* What a lookup finds is the connection the id was made for, and it is open.
LEMMA LiveOwner ==
    ASSUME TypeOK, SlabOwned, IdsFresh, NEW id \in Ids, Live(id)
    PROVE  /\ slab[id.key].handle \in Conns
           /\ idOf[slab[id.key].handle] = id
           /\ pc[slab[id.key].handle] \in OpenPcs
           /\ \A c \in Conns : idOf[c] = id => slab[id.key].handle = c
<1>1. id.key \in Slots /\ slab[id.key] # Vacant /\ slab[id.key] \in Entry
    BY Zenon DEF Live, Ids, TypeOK, SlabTypes
<1>2. slab[id.key].handle \in Conns
    BY <1>1, Zenon DEF Entry
<1>3. /\ pc[slab[id.key].handle] \in OpenPcs
      /\ idOf[slab[id.key].handle] = [key |-> id.key, generation |-> id.generation]
    BY <1>1, ZenonT(40) DEF SlabOwned, Live
<1>4. [key |-> id.key, generation |-> id.generation] = id
    BY Zenon DEF Ids
<1>5. id # NoId
    BY ConstAssumption, Zenon
<1>. QED
    BY <1>2, <1>3, <1>4, <1>5, Zenon DEF IdsFresh

\* An open connection's entry is touched by nobody else's slot.
LEMMA OpenKeysDiffer ==
    ASSUME TypeOK, PointFacts, SlabOwned, NEW c \in Conns, NEW d \in Conns, c # d,
           pc[c] \in OpenPcs, pc[d] \in OpenPcs
    PROVE  idOf[c].key # idOf[d].key
    BY SMTT(30) DEF SlabOwned

\* A task step makes no id live that a room, a user or JS already knows.
LEMMA TaskLiveness ==
    ASSUME TypeOK, PointFacts, SlabOwned, IdsFresh, NoWrap',
           NEW c \in Conns, Task(c), NEW d \in Conns, idOf[d] # NoId
    PROVE  /\ idOf'[d] = idOf[d]
           /\ Live(idOf[d])' => Live(idOf[d]) /\ slab'[idOf[d].key] = slab[idOf[d].key]
<1>. SlabTypes /\ TaskTypes
    BY Zenon DEF TypeOK
<1>. USE ConstAssumption DEF SlabTypes, TaskTypes
<1>0. idOf[d] \in Ids /\ idOf[d].key \in Slots
    BY Zenon DEF Ids
<1>1. CASE Insert(c)
  <2>1. PICK s \in Slots, u \in Users \cup {NoUser} : FreshInsert(c, s, u)
      BY <1>1, InsertFresh, Zenon
  <2>2. c # d
      BY <1>1, ZenonT(40) DEF Insert, PointFacts
  <2>3. CASE idOf[d].key # s
      BY <1>0, <2>1, <2>2, <2>3, ZenonT(40) DEF FreshInsert, Live
  <2>4. CASE idOf[d].key = s
    <3>1. idOf[d] = [key |-> s, generation |-> idOf[d].generation]
        BY <1>0, <2>4, Zenon DEF Ids
    <3>2. idOf[d].generation # gens[s] + 1
        BY <2>1, <3>1, Zenon DEF FreshInsert
    <3>. QED
        BY <1>0, <2>1, <2>2, <2>4, <3>2, ZenonT(40) DEF FreshInsert, Live
  <2>. QED
      BY <2>3, <2>4, Zenon
<1>2. CASE RemoveFull(c)
    BY <1>0, <1>2, Zenon DEF RemoveFull, Live, PointFacts, Ids
<1>3. CASE ~Insert(c) /\ ~RemoveFull(c)
  <2>1. UNCHANGED <<slab, idOf>>
    <3>1. CASE Bind(c) \/ BindCount(c) \/ BindSet(c)
        BY <3>1, Zenon DEF Bind, BindCount, BindSet, connVars
    <3>2. CASE SweepMember(c) \/ Reap(c) \/ SweepDone(c)
        BY <3>2, Zenon DEF SweepMember, Reap, SweepDone, connVars
    <3>3. CASE WithdrawCount(c) \/ WithdrawSet(c) \/ WithdrawDone(c)
        BY <3>3, ZenonT(40) DEF WithdrawCount, WithdrawSet, WithdrawDone, connVars
    <3>4. CASE Unbind(c) \/ UnbindReap(c) \/ UnbindCount(c) \/ UnbindSet(c)
        BY <3>4 DEF Unbind, UnbindReap, UnbindCount, UnbindSet, connVars
    <3>. QED
        BY <1>3, <3>1, <3>2, <3>3, <3>4, Zenon DEF Task, Tail
  <2>. QED
      BY <2>1, Zenon DEF Live
<1>. QED
    BY <1>1, <1>2, <1>3, Zenon


\* Adding or removing id on both sides of room r keeps the sides equal.
LEMMA TwoSidedWrite ==
    ASSUME TypeOK, PointFacts, SlabOwned, IdsFresh, MembersExact,
           UNCHANGED <<pc, idOf, todo>>,
           NEW id \in Ids, Live(id), NEW r \in Rooms,
           NEW rs \in SUBSET Rooms,
           slab' = [slab EXCEPT ![id.key].rooms = rs],
           \/ /\ rs = slab[id.key].rooms \cup {r}
              /\ members' = [members EXCEPT ![r] = @ \cup {id}]
           \/ /\ rs = slab[id.key].rooms \ {r}
              /\ members' = [members EXCEPT ![r] = @ \ {id}]
    PROVE  MembersExact'
<1>1. PICK c \in Conns :
      /\ idOf[c] = id
      /\ pc[c] \in OpenPcs
      /\ \A d \in Conns : idOf[d] = id => d = c
    BY LiveOwner
<1>2. /\ slab'[id.key].rooms = rs
      /\ \A s \in Slots \ {id.key} : slab'[s] = slab[s]
    BY RoomsField, Zenon DEF Live, Ids
<1>3. ASSUME NEW d \in Conns, d # c, NEW q \in Rooms
      PROVE  InRoom(d, q)' <=> InRoom(d, q)
  <2>1. pc[d] \in OpenPcs => idOf[d].key \in Slots \ {id.key}
      BY <1>1, <1>3, OpenKeysDiffer, Zenon DEF PointFacts, TypeOK, TaskTypes, Ids, OpenPcs
  <2>. QED
      BY <1>2, <2>1 DEF InRoom
<1>4. ASSUME NEW q \in Rooms PROVE InRoom(c, q)' <=> q \in rs
    BY <1>1, <1>2, Zenon DEF InRoom, OpenPcs
<1>5. ASSUME NEW q \in Rooms PROVE InRoom(c, q) <=> q \in slab[id.key].rooms
    BY <1>1, Zenon DEF InRoom, OpenPcs
<1>6. ASSUME NEW q \in Rooms, NEW x \in members'[q]
      PROVE  \E d \in Conns : idOf'[d] = x /\ InRoom(d, q)'
  <2>1. CASE x = id
    <3>1. q \in rs
        BY <1>1, <1>5, <1>6, <2>1 DEF MembersExact, TypeOK, RoomTypes
    <3>. QED
        BY <1>1, <1>4, <2>1, <3>1, ZenonT(40)
  <2>2. CASE x # id
    <3>1. x \in members[q]
        BY <1>6, <2>2 DEF TypeOK, RoomTypes
    <3>2. PICK d \in Conns : idOf[d] = x /\ InRoom(d, q)
        BY <3>1, Zenon DEF MembersExact
    <3>. QED
        BY <1>1, <1>3, <2>2, <3>2, Zenon
  <2>. QED
      BY <2>1, <2>2, Zenon
<1>7. ASSUME NEW q \in Rooms, NEW d \in Conns, InRoom(d, q)'
      PROVE  idOf'[d] \in members'[q]
  <2>1. CASE d = c
      BY <1>1, <1>4, <1>5, <1>7, <2>1 DEF MembersExact, TypeOK, RoomTypes
  <2>2. CASE d # c
    <3>1. idOf[d] \in members[q]
        BY <1>3, <1>7, <2>2, Zenon DEF MembersExact
    <3>2. idOf[d] # id
        BY <1>1, <2>2, Zenon
    <3>. QED
        BY <3>1, <3>2, Zenon DEF TypeOK, RoomTypes
  <2>. QED
      BY <2>1, <2>2, Zenon
<1>. QED
    BY <1>6, <1>7, Zenon DEF MembersExact

\* The two sides stay equal when no connection enters or leaves a room.
LEMMA MembersKept ==
    ASSUME MembersExact, idOf' = idOf, members' = members,
           \E c \in Conns :
             /\ \A r \in Rooms : InRoom(c, r)' <=> InRoom(c, r)
             /\ \A d \in Conns \ {c}, r \in Rooms : InRoom(d, r)' <=> InRoom(d, r)
    PROVE  MembersExact'
<1>1. \A d \in Conns, r \in Rooms : InRoom(d, r)' <=> InRoom(d, r)
    BY Zenon
<1>. QED
    BY <1>1, Zenon DEF MembersExact

\* So they do when a step touches neither side.
LEMMA MembersUntouched ==
    ASSUME MembersExact, UNCHANGED <<slab, pc, idOf, todo, members>>
    PROVE  MembersExact'
<1>1. \A c \in Conns, r \in Rooms : InRoom(c, r)' <=> InRoom(c, r)
    BY Zenon DEF InRoom
<1>. QED
    BY <1>1, Zenon DEF MembersExact

\* join, leave, closeRoom and the disconnect sweep keep the room map and the
\* connection side (slab entry, then the sweep's own list) equal.
LEMMA MembersStep ==
    ASSUME TypeOK, PointFacts, SlabOwned, IdsFresh, MembersExact, NoWrap', [Next]_vars
    PROVE  MembersExact'
<1>. SlabTypes /\ RoomTypes /\ TaskTypes /\ SweepTypes /\ JsTypes
    BY Zenon DEF TypeOK
<1>. USE DEF SlabTypes, RoomTypes, TaskTypes, SweepTypes, JsTypes
<1>1. ASSUME NEW c \in Conns, Insert(c) PROVE MembersExact'
  <2>1. PICK s \in Slots, u \in Users \cup {NoUser} : FreshInsert(c, s, u)
      BY <1>1, InsertFresh, Zenon
  <2>. USE DEF FreshInsert
  <2>2. UNCHANGED <<members, todo>> /\ pc[c] = "admitted"
      BY <1>1, Zenon DEF Insert, roomVars
  <2>3. \A r \in Rooms : ~InRoom(c, r) /\ ~InRoom(c, r)'
      BY <2>1, <2>2, Zenon DEF InRoom, OpenPcs
  <2>4. ASSUME NEW d \in Conns, d # c, NEW r \in Rooms
        PROVE  idOf'[d] = idOf[d] /\ (InRoom(d, r)' <=> InRoom(d, r))
    <3>1. pc[d] \in OpenPcs => idOf[d].key \in Slots \ {s}
      <4>1. ASSUME pc[d] \in OpenPcs PROVE idOf[d].key \in Slots
        <5>1. idOf[d] # NoId
            BY <4>1, Zenon DEF PointFacts, OpenPcs
        <5>. QED
            BY <5>1, Zenon DEF Ids
      <4>2. slab[s] = Vacant
          BY <2>1, ZenonT(40)
      <4>. QED
          BY <4>1, <4>2, Zenon DEF SlabOwned
    <3>. QED
        BY <2>1, <2>2, <2>4, <3>1, ZenonT(40) DEF InRoom
  <2>. QED
      BY <2>2, <2>3, <2>4 DEF MembersExact
<1>2. ASSUME NEW c \in Conns, RemoveFull(c) PROVE MembersExact'
  <2>1. /\ UNCHANGED <<members, idOf>>
        /\ pc[c] = "run"
        /\ slab' = [slab EXCEPT ![idOf[c].key] = Vacant]
        /\ todo' = [todo EXCEPT ![c] = slab[idOf[c].key].rooms]
        /\ pc' = [pc EXCEPT ![c] = "sweep"]
      BY <1>2, Zenon DEF RemoveFull, roomVars
  <2>2. \A r \in Rooms : InRoom(c, r)' <=> InRoom(c, r)
      BY <2>1, Zenon DEF InRoom, OpenPcs
  <2>3. ASSUME NEW d \in Conns, d # c, NEW r \in Rooms
        PROVE  InRoom(d, r)' <=> InRoom(d, r)
    <3>1. pc[d] \in OpenPcs => idOf[d].key \in Slots \ {idOf[c].key}
        BY <2>1, <2>3, OpenKeysDiffer, ZenonT(40) DEF PointFacts, Ids, OpenPcs
    <3>. QED
        BY <2>1, <2>3, <3>1, Zenon DEF InRoom
  <2>. QED
      BY <2>1, <2>2, <2>3 DEF MembersExact
<1>3. ASSUME NEW c \in Conns, SweepMember(c) PROVE MembersExact'
  <2>1. PICK r \in todo[c] :
            /\ todo' = [todo EXCEPT ![c] = @ \ {r}]
            /\ members' = [members EXCEPT ![r] = @ \ {idOf[c]}]
      BY <1>3, ZenonT(40) DEF SweepMember
  <2>2. /\ UNCHANGED <<slab, idOf>>
        /\ pc[c] = "sweep"
        /\ pc'[c] \in {"sweep", "reap"}
        /\ \A d \in Conns \ {c} : pc'[d] = pc[d]
      BY <1>3 DEF SweepMember, connVars
  <2>3. r \in Rooms /\ idOf[c] # NoId
      BY <2>2, Zenon DEF PointFacts
  <2>4. \A d \in Conns \ {c}, q \in Rooms : InRoom(d, q)' <=> InRoom(d, q)
      BY <2>1, <2>2, Zenon DEF InRoom
  <2>5. \A q \in Rooms : InRoom(c, q)' <=> q # r /\ InRoom(c, q)
      BY <2>1, <2>2, Zenon DEF InRoom, OpenPcs
  <2>6. \A d \in Conns \ {c} : idOf[d] # idOf[c]
      BY <2>3, Zenon DEF IdsFresh
  <2>7. /\ idOf' = idOf
        /\ members'[r] = members[r] \ {idOf[c]}
        /\ \A q \in Rooms \ {r} : members'[q] = members[q]
      BY <2>1, <2>2, Zenon
  <2>. QED
      BY <2>4, <2>5, <2>6, <2>7 DEF MembersExact
<1>4. ASSUME NEW c \in Conns, Task(c), ~Insert(c), ~RemoveFull(c), ~SweepMember(c)
      PROVE  MembersExact'
  <2>1. /\ UNCHANGED <<slab, idOf, members>>
        /\ \A d \in Conns \ {c} : pc'[d] = pc[d] /\ todo'[d] = todo[d]
        /\ \/ pc[c] \in OpenPcs /\ pc'[c] \in OpenPcs
           \/ /\ pc[c] \in {"sweep", "reap"} /\ pc'[c] \in {"sweep", "reap"}
              /\ todo'[c] = todo[c]
           \/ /\ pc[c] \notin OpenPcs \cup {"sweep", "reap"} \/ (pc[c] = "sweep" /\ todo[c] = {})
              /\ pc'[c] \notin OpenPcs \cup {"sweep", "reap"}
    <3>1. CASE Bind(c) \/ BindCount(c) \/ BindSet(c)
        BY <3>1, Zenon DEF Bind, BindCount, BindSet, connVars, roomVars, OpenPcs
    <3>2. CASE Reap(c) \/ SweepDone(c)
        BY <3>2, ZenonT(40) DEF Reap, SweepDone, IdentityTail, connVars, roomVars, OpenPcs
    <3>3. CASE WithdrawCount(c) \/ WithdrawSet(c) \/ WithdrawDone(c)
        BY <3>3, ZenonT(40) DEF WithdrawCount, WithdrawSet, WithdrawDone, IdentityTail, connVars,
            roomVars, OpenPcs
    <3>4. CASE Unbind(c) \/ UnbindReap(c) \/ UnbindCount(c) \/ UnbindSet(c)
        BY <3>4, ZenonT(40) DEF Unbind, UnbindReap, UnbindCount, UnbindSet, AfterUnbind, connVars,
            roomVars, OpenPcs
    <3>. QED
        BY <1>4, <3>1, <3>2, <3>3, <3>4, ZenonT(40) DEF Task, Tail
  <2>2. \A r \in Rooms : InRoom(c, r)' <=> InRoom(c, r)
      BY <2>1, Zenon DEF InRoom, OpenPcs
  <2>3. \A d \in Conns \ {c}, r \in Rooms : InRoom(d, r)' <=> InRoom(d, r)
      BY <2>1, Zenon DEF InRoom
  <2>4. idOf' = idOf /\ members' = members
      BY <2>1, Zenon
  <2>. QED
      BY <2>2, <2>3, <2>4, MembersKept, Zenon
<1>5. ASSUME NEW c \in Conns, NEW r \in Rooms, Join(c, r) \/ Leave(c, r)
      PROVE  MembersExact'
  <2>1. idOf[c] \in Ids /\ Live(idOf[c]) /\ slab[idOf[c].key] \in Entry
      BY <1>5, Zenon DEF PointFacts, Join, Leave, Opened, Live, Ids
  <2>2. /\ slab[idOf[c].key].rooms \cup {r} \in SUBSET Rooms
        /\ slab[idOf[c].key].rooms \ {r} \in SUBSET Rooms
      BY <2>1, ZenonT(40) DEF Entry
  <2>3. UNCHANGED <<pc, idOf, todo>>
      BY <1>5, SMTT(30) DEF Join, Leave, taskVars
  <2>4. CASE Join(c, r)
      BY <2>1, <2>2, <2>3, <2>4, TwoSidedWrite, ZenonT(40) DEF Join
  <2>5. CASE Leave(c, r)
      BY <2>1, <2>2, <2>3, <2>5, TwoSidedWrite, ZenonT(40) DEF Leave, LeaveEffect
  <2>. QED
      BY <1>5, <2>4, <2>5, Zenon
<1>6. CASE CloseRoomLeave
  <2>1. PICK id \in jsWork :
          IF Live(id) /\ jsRoom \in slab[id.key].rooms
            THEN LeaveEffect(id, jsRoom)
            ELSE UNCHANGED <<slab, members>>
      BY <1>6, Zenon DEF CloseRoomLeave
  <2>2. UNCHANGED <<pc, idOf, todo>> /\ jsRoom \in Rooms /\ id \in Ids
      BY <1>6, Zenon DEF CloseRoomLeave, taskVars, PointFacts
  <2>3. CASE Live(id) /\ jsRoom \in slab[id.key].rooms
    <3>1. slab[id.key].rooms \ {jsRoom} \in SUBSET Rooms
        BY <2>2, <2>3 DEF Live, Ids, Entry
    <3>. QED
        BY <2>1, <2>2, <2>3, <3>1, TwoSidedWrite, ZenonT(40) DEF LeaveEffect
  <2>4. CASE UNCHANGED <<slab, members>>
      BY <2>2, <2>4, MembersUntouched, Zenon
  <2>. QED
      BY <2>1, <2>3, <2>4, Zenon
<1>7. CASE LeaveReap \/ CloseReap
    BY <1>7, MembersUntouched, Zenon DEF LeaveReap, CloseReap, connVars, taskVars
<1>8. CASE \/ \E r \in Rooms : CloseRoom(r) \/ BroadcastRoom(r)
           \/ \E u \in Users : BroadcastUser(u)
           \/ JoinInfo \/ JoinSet \/ LeaveInfo \/ LeaveSet \/ CloseRoomDone
           \/ FanoutPush \/ FanoutDone
           \/ UNCHANGED vars
    BY <1>8, JsLocal, MembersUntouched, Zenon DEF connVars, roomVars, taskVars
<1>. QED
    BY <1>1, <1>2, <1>3, <1>4, <1>5, <1>6, <1>7, <1>8, ZenonT(40)
    DEF Next, JsCall, JsContinue, Finished

\* The connection is bound to u and has not unbound.
BoundTo(c, u) == pc[c] \in BoundPcs /\ userOf[c] = u

\* bind and unbind keep the user index equal to the bound connections.
LEMMA DevicesStep ==
    ASSUME TypeOK, PointFacts, IdsFresh, DevicesBound, NoWrap', [Next]_vars
    PROVE  DevicesBound'
<1>. UserTypes /\ TaskTypes
    BY Zenon DEF TypeOK
<1>. USE ConstAssumption DEF UserTypes, TaskTypes, BoundTo, BoundPcs
<1>1. ASSUME NEW c \in Conns, Insert(c) PROVE DevicesBound'
  <2>1. PICK s \in Slots, u \in Users \cup {NoUser} : FreshInsert(c, s, u)
      BY <1>1, InsertFresh, Zenon
  <2>2. UNCHANGED devices /\ pc[c] = "admitted"
      BY <1>1, Zenon DEF Insert, userVars
  <2>3. \A v \in Users : ~BoundTo(c, v) /\ ~BoundTo(c, v)'
      BY <2>1, <2>2, Zenon DEF FreshInsert
  <2>4. \A d \in Conns \ {c}, v \in Users :
            idOf'[d] = idOf[d] /\ (BoundTo(d, v)' <=> BoundTo(d, v))
      BY <2>1, ZenonT(40) DEF FreshInsert
  <2>. QED
      BY <2>2, <2>3, <2>4 DEF DevicesBound
<1>2. ASSUME NEW c \in Conns, Bind(c) PROVE DevicesBound'
  <2>1. /\ UNCHANGED <<idOf, userOf>>
        /\ userOf[c] \in Users
        /\ devices' = [devices EXCEPT ![userOf[c]] = @ \cup {idOf[c]}]
        /\ pc[c] = "bind" /\ pc'[c] \in {"bindCount", "run"}
        /\ \A d \in Conns \ {c} : pc'[d] = pc[d]
      BY <1>2, Zenon DEF Bind, PointFacts
  <2>2. \A d \in Conns \ {c}, v \in Users : BoundTo(d, v)' <=> BoundTo(d, v)
      BY <2>1, Zenon
  <2>3. \A v \in Users : ~BoundTo(c, v) /\ (BoundTo(c, v)' <=> v = userOf[c])
      BY <2>1, ZenonT(40)
  <2>. QED
      BY <2>1, <2>2, <2>3 DEF DevicesBound
<1>3. ASSUME NEW c \in Conns, Unbind(c) PROVE DevicesBound'
  <2>1. /\ UNCHANGED <<idOf, userOf>>
        /\ userOf[c] \in Users
        /\ devices' = [devices EXCEPT ![userOf[c]] = @ \ {idOf[c]}]
        /\ pc[c] = "unbind" /\ pc'[c] \in {"unbindReap", "unbindCount", "done"}
        /\ \A d \in Conns \ {c} : pc'[d] = pc[d]
      BY <1>3, Zenon DEF Unbind, AfterUnbind, PointFacts
  <2>2. \A d \in Conns \ {c}, v \in Users : BoundTo(d, v)' <=> BoundTo(d, v)
      BY <2>1, Zenon
  <2>3. \A v \in Users : ~BoundTo(c, v)' /\ (BoundTo(c, v) <=> v = userOf[c])
      BY <2>1, Zenon
  <2>4. \A d \in Conns \ {c} : idOf[d] # idOf[c]
      BY <2>1, Zenon DEF IdsFresh, PointFacts
  <2>. QED
      BY <2>1, <2>2, <2>3, <2>4 DEF DevicesBound
<1>4. ASSUME NEW c \in Conns, Task(c), ~Insert(c), ~Bind(c), ~Unbind(c)
      PROVE  DevicesBound'
  <2>1. /\ UNCHANGED <<idOf, userOf, devices>>
        /\ \A d \in Conns \ {c} : pc'[d] = pc[d]
        /\ \/ pc[c] \in BoundPcs <=> pc'[c] \in BoundPcs
           \/ userOf[c] = NoUser
    <3>1. CASE BindCount(c) \/ BindSet(c) \/ RemoveFull(c)
        BY <3>1, Zenon DEF BindCount, BindSet, RemoveFull, userVars
    <3>2. CASE SweepMember(c) \/ Reap(c) \/ SweepDone(c)
        BY <3>2, Zenon DEF SweepMember, Reap, SweepDone, IdentityTail, userVars
    <3>3. CASE WithdrawCount(c) \/ WithdrawSet(c) \/ WithdrawDone(c)
        BY <3>3, Zenon DEF WithdrawCount, WithdrawSet, WithdrawDone, IdentityTail, userVars
    <3>4. CASE UnbindReap(c) \/ UnbindCount(c) \/ UnbindSet(c)
        BY <3>4, ZenonT(40) DEF UnbindReap, UnbindCount, UnbindSet, AfterUnbind, userVars
    <3>. QED
        BY <1>4, <3>1, <3>2, <3>3, <3>4, Zenon DEF Task, Tail
  <2>2. \A d \in Conns, v \in Users : BoundTo(d, v)' <=> BoundTo(d, v)
      BY <2>1, Zenon
  <2>. QED
      BY <2>1, <2>2 DEF DevicesBound
<1>5. CASE \/ \E c \in Conns, r \in Rooms : Join(c, r) \/ Leave(c, r)
           \/ LeaveReap \/ CloseReap \/ CloseRoomLeave
  <2>1. UNCHANGED <<devices, pc, userOf, idOf>>
      BY <1>5, ZenonT(40) DEF Join, Leave, LeaveReap, CloseReap, CloseRoomLeave, userVars, taskVars
  <2>. QED
      BY <2>1, SMTT(30) DEF DevicesBound
<1>6. CASE \/ \E r \in Rooms : CloseRoom(r) \/ BroadcastRoom(r)
           \/ \E u \in Users : BroadcastUser(u)
           \/ JoinInfo \/ JoinSet \/ LeaveInfo \/ LeaveSet \/ CloseRoomDone
           \/ FanoutPush \/ FanoutDone
           \/ UNCHANGED vars
    BY <1>6, JsLocal DEF DevicesBound, userVars, taskVars
<1>. QED
    BY <1>1, <1>2, <1>3, <1>4, <1>5, <1>6, Zenon DEF Next, JsCall, JsContinue, Finished

\* While closeRoom runs its copied-out list still holds every live member,
\* because only the JS thread adds members.
LEMMA SweepCoversStep ==
    ASSUME TypeOK, PointFacts, SlabOwned, IdsFresh, MembersExact, SweepCovers,
           NoWrap', [Next]_vars
    PROVE  SweepCovers'
<1>. SlabTypes /\ RoomTypes /\ TaskTypes /\ JsTypes
    BY Zenon DEF TypeOK
<1>. USE DEF SlabTypes, RoomTypes, TaskTypes, JsTypes
<1>1. ASSUME NEW c \in Conns, Task(c) PROVE SweepCovers'
  <2>1. /\ UNCHANGED jsVars
        /\ \A r \in Rooms : members'[r] \subseteq members[r]
    <3>1. CASE Insert(c) \/ Bind(c) \/ BindCount(c) \/ BindSet(c) \/ RemoveFull(c)
        BY <3>1, Zenon DEF Insert, Bind, BindCount, BindSet, RemoveFull, roomVars
    <3>2. CASE SweepMember(c) \/ Reap(c) \/ SweepDone(c)
        BY <3>2, ZenonT(40) DEF SweepMember, Reap, SweepDone, roomVars
    <3>3. CASE WithdrawCount(c) \/ WithdrawSet(c) \/ WithdrawDone(c)
        BY <3>3 DEF WithdrawCount, WithdrawSet, WithdrawDone, roomVars
    <3>4. CASE Unbind(c) \/ UnbindReap(c) \/ UnbindCount(c) \/ UnbindSet(c)
        BY <3>4, Zenon DEF Unbind, UnbindReap, UnbindCount, UnbindSet, roomVars
    <3>. QED
        BY <1>1, <3>1, <3>2, <3>3, <3>4, ZenonT(40) DEF Task, Tail
  <2>2. ASSUME jsPc \in {"closeRoom", "closeReap"}, NEW id \in members'[jsRoom], Live(id)'
        PROVE  id \in jsWork
    <3>1. jsRoom \in Rooms /\ id \in members[jsRoom]
        BY <2>1, <2>2, Zenon DEF PointFacts
    <3>2. PICK d \in Conns : idOf[d] = id
        BY <3>1, Zenon DEF MembersExact
    <3>3. id \in Ids /\ id # NoId
        BY <3>1, ConstAssumption, Zenon
    <3>4. Live(id)
        BY <1>1, <2>2, <3>2, <3>3, TaskLiveness, ZenonT(40)
    <3>. QED
        BY <2>2, <3>1, <3>4, Zenon DEF SweepCovers
  <2>. QED
      BY <2>1, <2>2, Zenon DEF SweepCovers, jsVars
<1>2. CASE \E r \in Rooms : CloseRoom(r)
    BY <1>2, Zenon DEF CloseRoom, SweepCovers, roomVars
<1>3. CASE CloseRoomLeave
  <2>1. PICK id \in jsWork :
          /\ jsWork' = jsWork \ {id}
          /\ IF Live(id) /\ jsRoom \in slab[id.key].rooms
               THEN LeaveEffect(id, jsRoom)
               ELSE UNCHANGED <<slab, members>>
      BY <1>3, ZenonT(40) DEF CloseRoomLeave
  <2>2. /\ UNCHANGED jsRoom
        /\ jsRoom \in Rooms
        /\ id \in Ids
        /\ jsPc = "closeRoom"
      BY <1>3, Zenon DEF CloseRoomLeave, PointFacts
  <2>3. CASE Live(id) /\ jsRoom \in slab[id.key].rooms
    <3>1. members'[jsRoom] = members[jsRoom] \ {id}
        BY <2>1, <2>2, <2>3, Zenon DEF LeaveEffect
    <3>2. ASSUME NEW x \in members'[jsRoom], Live(x)' PROVE x \in jsWork'
      <4>1. x \in Ids /\ x # id /\ x \in members[jsRoom] /\ x.key \in Slots
          BY <2>2, <3>1, <3>2, SMTT(30) DEF Ids
      <4>2. \A s \in Slots : /\ slab'[s] = Vacant <=> slab[s] = Vacant
                             /\ slab[s] # Vacant => slab'[s].generation = slab[s].generation
          BY <1>3, SlabRoomWrite, Zenon
      <4>3. Live(x)
          BY <3>2, <4>1, <4>2, Zenon DEF Live
      <4>. QED
          BY <2>1, <2>2, <4>1, <4>3, ZenonT(40) DEF SweepCovers
    <3>. QED
        BY <2>2, <3>2, Zenon DEF SweepCovers
  <2>4. CASE ~(Live(id) /\ jsRoom \in slab[id.key].rooms)
    <3>1. id \in members[jsRoom] => ~Live(id)
      <4>1. SUFFICES ASSUME id \in members[jsRoom], Live(id) PROVE FALSE
          OBVIOUS
      <4>2. PICK d \in Conns : idOf[d] = id /\ InRoom(d, jsRoom)
          BY <2>2, <4>1, Zenon DEF MembersExact
      <4>3. pc[d] \in OpenPcs
          BY <2>2, <4>1, <4>2, LiveOwner, Zenon
      <4>. QED
          BY <2>4, <4>1, <4>2, <4>3, Zenon DEF InRoom, OpenPcs
    <3>. QED
        BY <2>1, <2>2, <2>4, <3>1, Zenon DEF SweepCovers, Live
  <2>. QED
      BY <2>3, <2>4, Zenon
<1>4. CASE CloseReap
    BY <1>4, Zenon DEF CloseReap, SweepCovers, Live, connVars
<1>5. CASE \/ \E c \in Conns, r \in Rooms : Join(c, r) \/ Leave(c, r)
           \/ LeaveReap
    BY <1>5, ZenonT(40) DEF Join, Leave, LeaveReap, JsReturn, SweepCovers
<1>6. CASE \/ \E r \in Rooms : BroadcastRoom(r)
           \/ \E u \in Users : BroadcastUser(u)
           \/ JoinInfo \/ JoinSet \/ LeaveInfo \/ LeaveSet \/ CloseRoomDone
           \/ FanoutPush \/ FanoutDone
  <2>1. CASE \/ \E r \in Rooms : BroadcastRoom(r)
             \/ \E u \in Users : BroadcastUser(u)
      BY <2>1, Zenon DEF BroadcastRoom, BroadcastUser, CopyOut, SweepCovers
  <2>2. CASE JoinInfo \/ JoinSet \/ LeaveInfo \/ LeaveSet
      BY <2>2, Zenon DEF JoinInfo, JoinSet, LeaveInfo, LeaveSet, JsReturn, SweepCovers
  <2>3. CASE CloseRoomDone \/ FanoutPush \/ FanoutDone
      BY <2>3, ZenonT(40) DEF CloseRoomDone, FanoutPush, FanoutDone, JsReturn, SweepCovers
  <2>. QED
      BY <1>6, <2>1, <2>2, <2>3, Zenon
<1>7. CASE UNCHANGED vars
    BY <1>7, Zenon DEF vars, jsVars, connVars, roomVars, SweepCovers, Live
<1>. QED
    BY <1>1, <1>2, <1>3, <1>4, <1>5, <1>6, <1>7, ZenonT(40) DEF Next, JsCall, JsContinue, Finished

\* A fan-out over copied-out ids pushes only to the connections copied and
\* skips only the removed ones.
LEMMA FanoutStep ==
    ASSUME TypeOK, PointFacts, SlabOwned, IdsFresh, MembersExact, DevicesBound,
           SnapshotKnown, NoWrap, FanoutExact, NoWrap', [Next]_vars
    PROVE  SnapshotKnown' /\ FanoutExact'
<1>. SlabTypes /\ RoomTypes /\ UserTypes /\ TaskTypes /\ JsTypes
    BY Zenon DEF TypeOK
<1>. USE ConstAssumption DEF SlabTypes, RoomTypes, UserTypes, TaskTypes, JsTypes
<1>1. ASSUME NEW c \in Conns, Task(c) PROVE SnapshotKnown' /\ FanoutExact'
  <2>1. UNCHANGED jsVars
    <3>1. CASE Insert(c) \/ Bind(c) \/ BindCount(c) \/ BindSet(c) \/ RemoveFull(c)
        BY <3>1, ZenonT(40) DEF Insert, Bind, BindCount, BindSet, RemoveFull
    <3>2. CASE SweepMember(c) \/ Reap(c) \/ SweepDone(c)
        BY <3>2, ZenonT(40) DEF SweepMember, Reap, SweepDone
    <3>3. CASE WithdrawCount(c) \/ WithdrawSet(c) \/ WithdrawDone(c)
        BY <3>3, Zenon DEF WithdrawCount, WithdrawSet, WithdrawDone
    <3>4. CASE Unbind(c) \/ UnbindReap(c) \/ UnbindCount(c) \/ UnbindSet(c)
        BY <3>4, Zenon DEF Unbind, UnbindReap, UnbindCount, UnbindSet
    <3>. QED
        BY <1>1, <3>1, <3>2, <3>3, <3>4, ZenonT(40) DEF Task, Tail
  <2>2. ASSUME NEW d \in jsSnap, jsPc = "fanout"
        PROVE  /\ idOf[d] # NoId /\ idOf'[d] = idOf[d]
               /\ Live(idOf[d])' => Live(idOf[d])
      BY <1>1, <2>2, TaskLiveness, ZenonT(40) DEF SnapshotKnown
  <2>. QED
      BY <2>1, <2>2, ZenonT(40) DEF SnapshotKnown, FanoutExact, jsVars
<1>2. ASSUME NEW ids \in SUBSET Ids, CopyOut(ids),
             \A id \in ids : \E c \in Conns : idOf[c] = id
      PROVE  SnapshotKnown' /\ FanoutExact'
    BY <1>2 DEF CopyOut, SnapshotKnown, FanoutExact, taskVars, PointFacts
<1>3. CASE \E r \in Rooms : BroadcastRoom(r)
    BY <1>2, <1>3, Zenon DEF BroadcastRoom, MembersExact
<1>4. CASE \E u \in Users : BroadcastUser(u)
    BY <1>2, <1>4, ZenonT(40) DEF BroadcastUser, DevicesBound
<1>5. CASE FanoutPush
  <2>1. PICK id \in jsWork :
        /\ jsWork' = jsWork \ {id}
        /\ reached' = IF Live(id) THEN reached \cup {slab[id.key].handle} ELSE reached
      BY <1>5, ZenonT(40) DEF FanoutPush
  <2>2. jsPc = "fanout" /\ UNCHANGED <<slab, idOf, jsPc, jsSnap>>
      BY <1>5, Zenon DEF FanoutPush, connVars, taskVars
  <2>3. PICK c \in jsSnap : idOf[c] = id
      BY <2>2, Zenon DEF SnapshotKnown
  <2>4. \A d \in Conns : idOf[d] = id => d = c
      BY <2>2, <2>3, Zenon DEF SnapshotKnown, IdsFresh
  <2>5. Live(id) => slab[id.key].handle = c
      BY <2>3, LiveOwner, Zenon
  <2>. QED
      BY <2>1, <2>2, <2>3, <2>4, <2>5, SMTT(30) DEF SnapshotKnown, FanoutExact, Live
<1>6. CASE \/ \E c \in Conns, r \in Rooms : Join(c, r) \/ Leave(c, r)
           \/ \E r \in Rooms : CloseRoom(r)
           \/ JoinInfo \/ JoinSet \/ LeaveReap \/ LeaveInfo \/ LeaveSet
           \/ CloseRoomLeave \/ CloseReap \/ CloseRoomDone \/ FanoutDone
  <2>1. CASE \/ \E c \in Conns, r \in Rooms : Join(c, r) \/ Leave(c, r)
             \/ \E r \in Rooms : CloseRoom(r)
      BY <2>1, ZenonT(40) DEF Join, Leave, CloseRoom, SnapshotKnown, FanoutExact
  <2>2. CASE JoinInfo \/ JoinSet \/ LeaveReap \/ LeaveInfo \/ LeaveSet
      BY <2>2, Zenon DEF JoinInfo, JoinSet, LeaveReap, LeaveInfo, LeaveSet, JsReturn,
          SnapshotKnown, FanoutExact
  <2>3. CASE CloseRoomLeave
      BY <2>3, ZenonT(40) DEF CloseRoomLeave, SnapshotKnown, FanoutExact
  <2>4. CASE CloseReap \/ CloseRoomDone \/ FanoutDone
      BY <2>4, Zenon DEF CloseReap, CloseRoomDone, FanoutDone, JsReturn, SnapshotKnown, FanoutExact
  <2>. QED
      BY <1>6, <2>1, <2>2, <2>3, <2>4, ZenonT(40)
<1>7. CASE UNCHANGED vars
    BY <1>7, ZenonT(40) DEF vars, jsVars, connVars, taskVars, SnapshotKnown, FanoutExact, Live
<1>. QED
    BY <1>1, <1>3, <1>4, <1>5, <1>6, <1>7, ZenonT(40) DEF Next, JsCall, JsContinue, Finished

\* Every device of an advertised user still has its own unbind and count
\* ahead of it, so the last one out withdraws the user.
LEMMA UserInterestStep ==
    ASSUME TypeOK, PointFacts, UnclusteredQuiet, DevicesBound, NoWrap,
           UserInterestNotStuck, [Next]_vars
    PROVE  UserInterestNotStuck'
<1>. UserTypes /\ InterestTypes /\ TaskTypes
    BY Zenon DEF TypeOK
<1>. USE ConstAssumption DEF UserTypes, InterestTypes, TaskTypes
<1>. DEFINE Holds(d, u) == userOf[d] = u /\ pc[d] \notin {"admitted", "bind", "done"}
<1>1. ASSUME NEW c \in Conns, UnbindCount(c) PROVE UserInterestNotStuck'
  <2>1. CASE pc'[c] = "done"
    <3>1. /\ devices[userOf[c]] # {}
          /\ userOf[c] \in Users
          /\ pc[c] = "unbindCount"
          /\ UNCHANGED <<userOf, userInterest>>
          /\ \A e \in Conns \ {c} : pc'[e] = pc[e]
        BY <1>1, <2>1, Zenon DEF UnbindCount, PointFacts, interestVars
    <3>2. PICK d \in Conns : pc[d] \in BoundPcs /\ userOf[d] = userOf[c]
        BY <3>1 DEF DevicesBound
    <3>3. d # c /\ Holds(d, userOf[c])
        BY <3>1, <3>2, Zenon DEF BoundPcs
    <3>4. ASSUME NEW u \in userInterest PROVE \E e \in Conns \ {c} : Holds(e, u)
        BY <3>3, Zenon DEF UserInterestNotStuck
    <3>. QED
        BY <3>1, <3>4 DEF UserInterestNotStuck
  <2>2. CASE pc'[c] # "done"
    <3>1. /\ pc'[c] = "unbindSet"
          /\ UNCHANGED <<userOf, userInterest>>
          /\ \A e \in Conns \ {c} : pc'[e] = pc[e]
        BY <1>1, <2>2, Zenon DEF UnbindCount, interestVars
    <3>. QED
        BY <3>1, ZenonT(40) DEF UserInterestNotStuck
  <2>. QED
      BY <2>1, <2>2, Zenon
<1>2. ASSUME NEW c \in Conns, UnbindSet(c) PROVE UserInterestNotStuck'
    BY <1>2, ZenonT(40) DEF UnbindSet, UserInterestNotStuck
<1>3. ASSUME NEW c \in Conns, BindSet(c) PROVE UserInterestNotStuck'
    BY <1>3 DEF BindSet, UserInterestNotStuck, PointFacts
<1>4. ASSUME NEW c \in Conns, Task(c), ~UnbindCount(c), ~UnbindSet(c), ~BindSet(c)
      PROVE  UserInterestNotStuck'
  <2>1. /\ UNCHANGED userInterest
        /\ \A d \in Conns \ {c} : pc'[d] = pc[d] /\ userOf'[d] = userOf[d]
        /\ \/ pc[c] = "admitted"
           \/ userOf'[c] = userOf[c] /\ pc'[c] \notin {"admitted", "bind", "done"}
           \/ userOf[c] = NoUser
           \/ ~Clustered
    <3>1. CASE Insert(c) \/ Bind(c) \/ BindCount(c) \/ RemoveFull(c)
        BY <3>1, ZenonT(40) DEF Insert, Bind, BindCount, RemoveFull, interestVars
    <3>2. CASE SweepMember(c) \/ Reap(c) \/ SweepDone(c)
        BY <3>2, ZenonT(40) DEF SweepMember, Reap, SweepDone, IdentityTail, interestVars
    <3>3. CASE WithdrawCount(c) \/ WithdrawSet(c) \/ WithdrawDone(c)
        BY <3>3, ZenonT(40) DEF WithdrawCount, WithdrawSet, WithdrawDone, IdentityTail, interestVars
    <3>4. CASE Unbind(c) \/ UnbindReap(c)
        BY <3>4, ZenonT(40) DEF Unbind, UnbindReap, AfterUnbind, interestVars
    <3>. QED
        BY <1>4, <3>1, <3>2, <3>3, <3>4, ZenonT(40) DEF Task, Tail
  <2>2. CASE Clustered
    <3>1. ASSUME NEW d \in Conns, NEW u \in Users, Holds(d, u) PROVE Holds(d, u)'
        BY <2>1, <2>2, <3>1, Zenon
    <3>. QED
        BY <2>1, <3>1, SMTT(30) DEF UserInterestNotStuck
  <2>3. CASE ~Clustered
      BY <2>1, <2>3, Zenon DEF UserInterestNotStuck, UnclusteredQuiet
  <2>. QED
      BY <2>2, <2>3, Zenon
<1>5. CASE \/ \E c \in Conns, r \in Rooms : Join(c, r) \/ Leave(c, r)
           \/ JsContinue
           \/ \E r \in Rooms : CloseRoom(r) \/ BroadcastRoom(r)
           \/ \E u \in Users : BroadcastUser(u)
           \/ UNCHANGED vars
  <2>1. UNCHANGED <<userInterest, pc, userOf>>
    <3>1. CASE \E c \in Conns, r \in Rooms : Join(c, r) \/ Leave(c, r)
        BY <3>1, ZenonT(40) DEF Join, Leave, taskVars, interestVars
    <3>2. CASE JsContinue
        BY <3>2, ZenonT(40) DEF JsContinue, JoinInfo, JoinSet, LeaveReap, LeaveInfo, LeaveSet,
            CloseRoomLeave, CloseReap, CloseRoomDone, FanoutPush, FanoutDone,
            taskVars, interestVars
    <3>3. CASE \/ \E r \in Rooms : CloseRoom(r) \/ BroadcastRoom(r)
               \/ \E u \in Users : BroadcastUser(u)
               \/ UNCHANGED vars
        BY <3>3, Zenon DEF CloseRoom, BroadcastRoom, BroadcastUser, CopyOut, vars, taskVars,
            interestVars
    <3>. QED
        BY <1>5, <3>1, <3>2, <3>3, Zenon
  <2>. QED
      BY <2>1, Zenon DEF UserInterestNotStuck
<1>. QED
    BY <1>1, <1>2, <1>3, <1>4, <1>5, Zenon DEF Next, JsCall, Finished

-----------------------------------------------------------------------------
(* The inductive invariant and what follows from it.                       *)

\* The empty registries of a new engine satisfy the inductive invariant.
LEMMA InitIInv == Init => IInv
<1>. SUFFICES ASSUME Init PROVE IInv
    BY SMTT(30)
<1>. USE ConstAssumption DEF Init
<1>1. TypeOK
    BY SMTT(30) DEF TypeOK, SlabTypes, RoomTypes, UserTypes, InterestTypes, TaskTypes,
        SweepTypes, JsTypes, TaskPcs, JsPcs
<1>2. PointFacts /\ UnclusteredQuiet /\ SlabOwned
    BY Zenon DEF PointFacts, UnclusteredQuiet, SlabOwned, OpenPcs
<1>3. EmptyRoomDoomed /\ EmptyUserDoomed
    BY Zenon DEF EmptyRoomDoomed, EmptyUserDoomed
<1>4. IdsFresh
    BY DEF IdsFresh
<1>5. MembersExact
    BY Zenon DEF MembersExact, InRoom, OpenPcs
<1>6. DevicesBound
    BY Zenon DEF DevicesBound, BoundPcs
<1>7. SweepCovers /\ SnapshotKnown /\ FanoutExact /\ UserInterestNotStuck
    BY Zenon DEF SweepCovers, SnapshotKnown, FanoutExact, UserInterestNotStuck
<1>. QED
    BY <1>1, <1>2, <1>3, <1>4, <1>5, <1>6, <1>7, ZenonT(40) DEF IInv

\* Every step of a connection task and of the JS thread preserves it.
LEMMA NextIInv == IInv /\ [Next]_vars => IInv'
<1>. SUFFICES ASSUME IInv, [Next]_vars PROVE IInv'
    OBVIOUS
<1>1. TypeOK' /\ PointFacts' /\ UnclusteredQuiet'
    BY TypeStep, PointStep, UnclusteredStep, Zenon DEF IInv
<1>2. SlabOwned' /\ EmptyRoomDoomed' /\ EmptyUserDoomed'
    BY <1>1, SlabStep, EmptyRoomStep, EmptyUserStep, Zenon DEF IInv
<1>3. ASSUME NoWrap'
      PROVE  /\ IdsFresh' /\ MembersExact' /\ DevicesBound' /\ SweepCovers'
             /\ SnapshotKnown' /\ FanoutExact' /\ UserInterestNotStuck'
  <2>1. NoWrap
      BY <1>3, NoWrapBack, Zenon DEF IInv
  <2>2. /\ IdsFresh /\ MembersExact /\ DevicesBound /\ SweepCovers
        /\ SnapshotKnown /\ FanoutExact /\ UserInterestNotStuck
      BY <2>1, Zenon DEF IInv
  <2>3. TypeOK /\ PointFacts /\ UnclusteredQuiet /\ SlabOwned
      BY Zenon DEF IInv
  <2>4. IdsFresh' /\ MembersExact' /\ DevicesBound'
      BY <1>3, <2>2, <2>3, IdsFreshStep, MembersStep, DevicesStep, ZenonT(40)
  <2>5. SweepCovers' /\ SnapshotKnown' /\ FanoutExact'
      BY <1>3, <2>1, <2>2, <2>3, SweepCoversStep, FanoutStep, Zenon
  <2>6. UserInterestNotStuck'
      BY <2>1, <2>2, <2>3, UserInterestStep, Zenon
  <2>. QED
      BY <2>4, <2>5, <2>6, Zenon
<1>. QED
    BY <1>1, <1>2, <1>3, Zenon DEF IInv

\* The inductive invariant holds throughout, for any number of connections,
\* slots, shards, rooms and users.
THEOREM Invariance == Spec => []IInv
    BY InitIInv, NextIInv, PTL DEF Spec

\* Type correctness: in particular ids never outgrow the generation bits of
\* ids.rs, and a loop variable is set wherever run_admitted uses it.
THEOREM TypeCorrect == Spec => []TypeOK
<1>1. IInv => TypeOK
    BY Zenon DEF IInv
<1>. QED
    BY <1>1, Invariance, PTL

\* registry.rs get / with_rooms / remove_full: the id of a closed connection
\* never addresses the connection that recycled its slot.
THEOREM StaleIdsMiss == Spec => []StaleIdMisses
<1>1. ASSUME IInv, NoWrap, NEW c \in Conns, idOf[c] # NoId, Live(idOf[c])
      PROVE  slab[idOf[c].key].handle = c
  <2>1. TypeOK /\ SlabOwned /\ IdsFresh
      BY <1>1, Zenon DEF IInv
  <2>2. idOf[c] \in Ids
      BY <1>1, <2>1, Zenon DEF TypeOK, SlabTypes, TaskTypes
  <2>3. slab[idOf[c].key] \in Entry
      BY <1>1, <2>1, <2>2, Zenon DEF TypeOK, SlabTypes, TaskTypes, Live, Ids
  <2>4. idOf[slab[idOf[c].key].handle] = idOf[c]
      BY <1>1, <2>1, <2>2, Zenon DEF SlabOwned, Live, Ids
  <2>. QED
      BY <1>1, <2>1, <2>3, <2>4, Zenon DEF IdsFresh, Entry
<1>2. IInv => StaleIdMisses
    BY <1>1, Zenon DEF StaleIdMisses
<1>. QED
    BY <1>2, Invariance, PTL

\* rooms.rs: the room side and the connection side of a membership agree for
\* every live connection, between any two critical sections.
THEOREM MembershipBidirectional == Spec => []Bidirectional
<1>1. ASSUME IInv, NoWrap, NEW s \in Slots, slab[s] # Vacant, NEW r \in Rooms
      PROVE  r \in slab[s].rooms
                <=> [key |-> s, generation |-> slab[s].generation] \in members[r]
  <2>1. TypeOK /\ SlabOwned /\ IdsFresh /\ MembersExact
      BY <1>1, Zenon DEF IInv
  <2>2. slab[s] \in Entry
      BY <1>1, <2>1, Zenon DEF TypeOK, SlabTypes
  <2>3. PICK c \in Conns : c = slab[s].handle
      BY <2>2, Zenon DEF Entry
  <2>4. /\ pc[c] \in OpenPcs
        /\ idOf[c] = [key |-> s, generation |-> slab[s].generation]
      BY <1>1, <2>1, <2>3, ZenonT(40) DEF SlabOwned
  <2>5. idOf[c] # NoId /\ idOf[c].key = s
      BY <2>2, <2>4, ConstAssumption DEF Ids, Entry
  <2>6. InRoom(c, r) <=> r \in slab[s].rooms
      BY <2>4, <2>5, Zenon DEF InRoom, OpenPcs
  <2>7. InRoom(c, r) <=> idOf[c] \in members[r]
      BY <2>1, <2>5, ZenonT(40) DEF MembersExact, IdsFresh
  <2>. QED
      BY <2>4, <2>6, <2>7, Zenon
<1>2. IInv => Bidirectional
    BY <1>1, Zenon DEF Bidirectional
<1>. QED
    BY <1>2, Invariance, PTL

\* rooms.rs disconnect_cleanup: every member of a room is live or is still on
\* the list of its own task's sweep.
THEOREM NoGhostMembers == Spec => []NoGhostMember
<1>1. ASSUME IInv, NoWrap, NEW r \in Rooms, NEW id \in members[r]
      PROVE  \/ Live(id)
             \/ \E c \in Conns : /\ idOf[c] = id /\ pc[c] \in {"sweep", "reap"}
                                 /\ r \in todo[c]
  <2>1. TypeOK /\ SlabOwned /\ MembersExact
      BY <1>1, Zenon DEF IInv
  <2>2. PICK c \in Conns : idOf[c] = id /\ InRoom(c, r)
      BY <1>1, <2>1, Zenon DEF MembersExact
  <2>3. CASE pc[c] \in OpenPcs
    <3>1. id \in Ids
        BY <1>1, <2>1, Zenon DEF TypeOK, RoomTypes
    <3>2. slab[id.key] # Vacant /\ slab[id.key].handle = c
        BY <2>1, <2>2, <2>3, Zenon DEF SlabOwned
    <3>3. id = [key |-> id.key, generation |-> slab[id.key].generation]
        BY <2>1, <2>2, <3>1, <3>2, ZenonT(40) DEF SlabOwned, Ids
    <3>. QED
        BY <3>2, <3>3 DEF Live
  <2>. QED
      BY <2>2, <2>3, Zenon DEF InRoom
<1>2. IInv => NoGhostMember
    BY <1>1, Zenon DEF NoGhostMember
<1>. QED
    BY <1>2, Invariance, PTL

\* rooms.rs "an empty room must never survive": for every number of threads,
\* an empty entry is in the hands of a thread that is about to reap it.
THEOREM EmptyRoomsDoomed == Spec => []EmptyRoomDoomed
<1>1. IInv => EmptyRoomDoomed
    BY Zenon DEF IInv
<1>. QED
    BY <1>1, Invariance, PTL

\* identity.rs: the device set of a user is exactly its bound connections.
THEOREM DeviceSetsExact == Spec => []DevicesExact
<1>1. ASSUME IInv, NoWrap PROVE DevicesExact
  <2>1. PointFacts /\ DevicesBound /\ EmptyUserDoomed /\ TypeOK
      BY <1>1, Zenon DEF IInv
  <2>2. TaskPcs \ {"admitted", "bind", "unbindReap", "unbindCount", "unbindSet",
                   "done"} = BoundPcs
      BY ZenonT(40) DEF TaskPcs, BoundPcs
  <2>3. \A u \in Users : devices[u] =
            {idOf[c] : c \in {d \in Conns : userOf[d] = u /\ pc[d] \in BoundPcs}}
      BY <2>1 DEF DevicesBound, TypeOK, UserTypes
  <2>. QED
      BY <2>1, <2>2, <2>3 DEF DevicesExact, EmptyUserDoomed
<1>2. IInv => DevicesExact
    BY <1>1, Zenon DEF DevicesExact
<1>. QED
    BY <1>2, Invariance, PTL

\* After any churn, once every task is finished the three registries are empty.
THEOREM ChurnIsClean == Spec => []ChurnLeavesNothing
<1>1. ASSUME IInv, NoWrap, jsPc = "idle", \A c \in Conns : pc[c] = "done"
      PROVE  (\A s \in Slots : slab[s] = Vacant) /\ roomKeys = {} /\ userKeys = {}
  <2>1. /\ TypeOK /\ SlabOwned /\ MembersExact /\ DevicesBound
        /\ EmptyRoomDoomed /\ EmptyUserDoomed
      BY <1>1, Zenon DEF IInv
  <2>2. ASSUME NEW s \in Slots, slab[s] # Vacant PROVE FALSE
    <3>1. slab[s] \in Entry
        BY <2>1, <2>2, Zenon DEF TypeOK, SlabTypes
    <3>2. slab[s].handle \in Conns
        BY <3>1, Zenon DEF Entry
    <3>. QED
        BY <1>1, <2>1, <2>2, <3>2, Zenon DEF SlabOwned, OpenPcs
  <2>3. \A r \in Rooms : members[r] = {}
      BY <1>1, <2>1, ZenonT(40) DEF MembersExact, InRoom, OpenPcs
  <2>4. \A u \in Users : devices[u] = {}
      BY <1>1, <2>1 DEF DevicesBound, BoundPcs
  <2>5. roomKeys = {}
      BY <1>1, <2>1, <2>3, Zenon DEF EmptyRoomDoomed, TypeOK, RoomTypes
  <2>6. userKeys = {}
      BY <1>1, <2>1, <2>4, Zenon DEF EmptyUserDoomed, TypeOK, UserTypes
  <2>. QED
      BY <2>2, <2>5, <2>6, Zenon
<1>2. IInv => ChurnLeavesNothing
    BY <1>1, Zenon DEF ChurnLeavesNothing
<1>. QED
    BY <1>2, Invariance, PTL

\* broadcast.rs fan_out_ids: a fan-out over copied-out ids never reaches a
\* connection that was not copied, and misses only removed ones.
THEOREM FanoutIsExact == Spec => []FanoutExact
<1>1. IInv => FanoutExact
    BY Zenon DEF IInv, FanoutExact
<1>. QED
    BY <1>1, Invariance, PTL

\* run_admitted: the user interest of this node is withdrawn at the latest
\* when the last task of the user ends.
THEOREM UserInterestWithdrawn == Spec => []UserInterestNotStuck
<1>1. IInv => UserInterestNotStuck
    BY Zenon DEF IInv, UserInterestNotStuck
<1>. QED
    BY <1>1, Invariance, PTL

\* admin_close_room returns with no live connection left in the room.
THEOREM CloseRoomEmptiesRoom == Spec => CloseRoomEmpties
<1>1. IInv /\ [Next]_vars =>
        [NoWrap /\ CloseRoomDone => \A id \in members[jsRoom] : ~Live(id)]_vars
    BY Zenon DEF IInv, SweepCovers, CloseRoomDone
<1>. QED
    BY <1>1, Invariance, PTL DEF Spec, CloseRoomEmpties

-----------------------------------------------------------------------------

(* The cap on the rooms of one connection counts a finite set.             *)
INSTANCE FiniteSetTheorems

\* Only a join grows a room set, and it checks the cap first.
LEMMA RoomCapStep ==
    ASSUME TypeOK, PointFacts, RoomCap, [Next]_vars
    PROVE  RoomCap'
<1>. SlabTypes /\ TaskTypes /\ JsTypes
    BY Zenon DEF TypeOK
<1>. USE ConstAssumption DEF SlabTypes, TaskTypes, JsTypes
<1>1. \A rs \in SUBSET Rooms : IsFiniteSet(rs) /\ Cardinality(rs) \in Nat
    BY FS_Subset, FS_CardinalityType, Zenon
<1>2. ASSUME NEW c \in Conns, NEW r \in Rooms, Join(c, r) PROVE RoomCap'
  <2>1. idOf[c].key \in Slots /\ slab[idOf[c].key] \in Entry /\ slab[idOf[c].key] # Vacant
      BY <1>2, Zenon DEF PointFacts, Join, Opened, Live, Ids
  <2>2. slab[idOf[c].key].rooms \in SUBSET Rooms
      BY <2>1, Zenon DEF Entry
  <2>3. slab[idOf[c].key].rooms \cup {r} \in SUBSET Rooms
      BY <2>2, ZenonT(40)
  <2>4. MaxRooms # 0 => Cardinality(slab[idOf[c].key].rooms \cup {r}) <= MaxRooms
    <3>1. Cardinality(slab[idOf[c].key].rooms \cup {r})
            = Cardinality(slab[idOf[c].key].rooms) + 1
        BY <1>1, <1>2, <2>2, FS_AddElement, ZenonT(40) DEF Join
    <3>2. MaxRooms # 0 => Cardinality(slab[idOf[c].key].rooms) < MaxRooms
        BY <1>2, Zenon DEF Join, UnderRoomCap
    <3>. QED
        BY <1>1, <2>2, <3>1, <3>2
  <2>5. slab' = [slab EXCEPT ![idOf[c].key].rooms = slab[idOf[c].key].rooms \cup {r}]
      BY <1>2, Zenon DEF Join
  <2>6. /\ slab'[idOf[c].key].rooms = slab[idOf[c].key].rooms \cup {r}
        /\ \A s \in Slots \ {idOf[c].key} : slab'[s] = slab[s]
      BY <2>1, <2>3, <2>5, RoomsField, ZenonT(40)
  <2>. QED
      BY <2>4, <2>6, Zenon DEF RoomCap
<1>3. ASSUME NEW k \in Slots, NEW r, slab[k] # Vacant,
             slab' = [slab EXCEPT ![k].rooms = slab[k].rooms \ {r}]
      PROVE  RoomCap'
  <2>1. slab[k].rooms \in SUBSET Rooms /\ slab[k].rooms \ {r} \in SUBSET Rooms
      BY <1>3, Zenon DEF Entry
  <2>2. Cardinality(slab[k].rooms \ {r}) <= Cardinality(slab[k].rooms)
      BY <1>1, <2>1, FS_Subset, Zenon
  <2>3. /\ slab'[k].rooms = slab[k].rooms \ {r}
        /\ \A s \in Slots \ {k} : slab'[s] = slab[s]
      BY <1>3, <2>1, RoomsField, ZenonT(40)
  <2>. QED
      BY <1>1, <1>3, <2>1, <2>2, <2>3 DEF RoomCap
<1>4. ASSUME NEW c \in Conns, NEW r \in Rooms, Leave(c, r) PROVE RoomCap'
  <2>1. idOf[c].key \in Slots /\ slab[idOf[c].key] # Vacant
      BY <1>4, Zenon DEF PointFacts, Leave, Opened, Live, Ids
  <2>. QED
      BY <1>3, <1>4, <2>1, Zenon DEF Leave, LeaveEffect
<1>5. CASE CloseRoomLeave
  <2>1. PICK id \in jsWork :
          IF Live(id) /\ jsRoom \in slab[id.key].rooms
            THEN LeaveEffect(id, jsRoom)
            ELSE slab' = slab
      BY <1>5, Zenon DEF CloseRoomLeave
  <2>2. CASE Live(id) /\ jsRoom \in slab[id.key].rooms
      BY <1>3, <2>1, <2>2, Zenon DEF LeaveEffect, Live, Ids
  <2>3. CASE slab' = slab
      BY <2>3, Zenon DEF RoomCap
  <2>. QED
      BY <2>1, <2>2, <2>3, Zenon
<1>6. ASSUME NEW c \in Conns, Insert(c) PROVE RoomCap'
  <2>1. Cardinality({}) = 0
      BY FS_EmptySet, Zenon
  <2>2. PICK s \in Slots, u \in Users \cup {NoUser} :
            slab' = [slab EXCEPT ![s] =
                       [generation |-> NextGeneration(s), handle |-> c,
                        rooms |-> {}, user |-> u]]
      BY <1>6, Zenon DEF Insert
  <2>3. slab'[s].rooms = {} /\ \A t \in Slots \ {s} : slab'[t] = slab[t]
      BY <2>2, Zenon
  <2>4. Cardinality(slab'[s].rooms) = 0
      BY <2>1, <2>3, Zenon
  <2>5. ASSUME MaxRooms # 0, NEW t \in Slots, slab'[t] # Vacant
        PROVE  Cardinality(slab'[t].rooms) <= MaxRooms
    <3>1. CASE t = s
        BY <2>4, <3>1
    <3>2. CASE t # s
        BY <2>3, <2>5, <3>2, Zenon DEF RoomCap
    <3>. QED
        BY <3>1, <3>2, ZenonT(40)
  <2>. QED
      BY <2>5, Zenon DEF RoomCap
<1>7. ASSUME NEW c \in Conns, RemoveFull(c) PROVE RoomCap'
    BY <1>7, Zenon DEF RoomCap, RemoveFull
<1>8. ASSUME NEW c \in Conns, Task(c), ~Insert(c), ~RemoveFull(c) PROVE RoomCap'
  <2>1. slab' = slab
      BY <1>8, Zenon DEF Task, Tail, Bind, BindCount, BindSet, SweepMember, Reap, SweepDone,
        WithdrawCount, WithdrawSet, WithdrawDone, Unbind, UnbindReap, UnbindCount,
        UnbindSet, connVars
  <2>. QED
      BY <2>1, Zenon DEF RoomCap
<1>9. CASE LeaveReap \/ CloseReap
    BY <1>9, Zenon DEF RoomCap, LeaveReap, CloseReap, connVars
<1>10. CASE \/ \E r \in Rooms : CloseRoom(r) \/ BroadcastRoom(r)
            \/ \E u \in Users : BroadcastUser(u)
            \/ JoinInfo \/ JoinSet \/ LeaveInfo \/ LeaveSet \/ CloseRoomDone
            \/ FanoutPush \/ FanoutDone
            \/ UNCHANGED vars
    BY <1>10, JsLocal, Zenon DEF RoomCap, connVars
<1>. QED
    BY <1>2, <1>4, <1>5, <1>6, <1>7, <1>8, <1>9, <1>10, ZenonT(40)
    DEF Next, JsCall, JsContinue, Finished

\* No connection is in a room before it joins one.
LEMMA RoomCapInit == Init => RoomCap
    BY Zenon DEF Init, RoomCap

\* room.rs join refuses the room past max_rooms_per_connection, whichever
\* connections churn and whichever rooms close meanwhile.
THEOREM RoomCapHolds == Spec => []RoomCap
<1>1. IInv => TypeOK /\ PointFacts
    BY Zenon DEF IInv
<1>2. IInv /\ RoomCap /\ [Next]_vars => RoomCap'
    BY <1>1, RoomCapStep, Zenon
<1>. QED
    BY <1>2, RoomCapInit, Invariance, PTL DEF Spec
=============================================================================
