----------------------------- MODULE Registries -----------------------------
(***************************************************************************)
(* The three registries of crates/core and the code that mutates them:     *)
(*   connection/registry.rs   conn slab, generations, conn -> rooms        *)
(*   rooms.rs                 room -> conns, auto-create, auto-destroy     *)
(*   identity.rs              user -> conns, auto-create, auto-destroy     *)
(*   engine.rs                join / leave / closeRoom / broadcast on the  *)
(*                            one JS thread, run_admitted on one task per  *)
(*                            connection, and the cluster interest edges   *)
(*                            both of them raise.                          *)
(*                                                                         *)
(* One atomic step is one critical section of the code: one hold of a conn *)
(* shard mutex (with the room-map access nested in it), one DashMap guard, *)
(* one read of a count, one set_*_interest call.  Everything between two   *)
(* such sections interleaves.  The only lock that is held across two steps *)
(* is the conn shard of a leave that emptied its room (ShardFree).         *)
(***************************************************************************)
EXTENDS Integers, FiniteSets

CONSTANTS
    Conns,      \* connection tasks, each runs run_admitted once
    Slots,      \* slab keys, over all shards
    Shards,     \* conn-registry shards
    ShardOf,    \* the shard a slab key lives in
    Rooms,
    Users,
    NoUser,     \* anonymous connection (user_id = None)
    NoId,       \* connection not inserted yet
    NoRoom,     \* no room in hand
    Vacant,     \* free slab slot
    GenMod,     \* GENERATION_MASK + 1 (2^24 in ids.rs)
    MaxRooms,   \* maxRoomsPerConnection, 0 = unlimited
    Clustered   \* engine has a cluster (interest edges are raised)

\* ids.rs ConnectionId: shard and key (here the slot) and generation.
Ids == [key : Slots, generation : 0 .. GenMod - 1]

Entry == [generation : 0 .. GenMod - 1, handle : Conns,
          rooms : SUBSET Rooms, user : Users \cup {NoUser}]

ASSUME ConstAssumption ==
    /\ ShardOf \in [Slots -> Shards]
    /\ GenMod \in Nat \ {0}
    /\ MaxRooms \in Nat
    /\ Clustered \in BOOLEAN
    /\ NoUser \notin Users
    /\ NoRoom \notin Rooms
    /\ NoId \notin Ids
    /\ Vacant \notin Entry
    /\ IsFiniteSet(Rooms)

VARIABLES
    slab,          \* registry.rs: slot -> Entry or Vacant
    gens,          \* registry.rs: slot -> last generation, -1 = key never used
    inserts,       \* history: connections ever inserted in a slot
    roomKeys,      \* rooms.rs: rooms that have a map entry
    members,       \* rooms.rs: room -> ids, {} where there is no entry
    userKeys,      \* identity.rs: users that have a map entry
    devices,       \* identity.rs: user -> ids, {} where there is no entry
    roomInterest,  \* rooms this node advertises to the mesh
    userInterest,  \* users this node advertises to the mesh
    pc,            \* connection task -> where it is in run_admitted
    idOf,          \* connection task -> id returned by insert
    userOf,        \* connection task -> user from authorize
    joined,        \* connection task -> room set handed back by remove_full
    todo,          \* connection task -> rooms left in the loop it is in
    cur,           \* connection task -> room between two steps on it
    jsPc,          \* where the JS thread is inside an engine verb
    jsRoom,        \* room argument of that verb
    jsId,          \* id argument of that verb
    jsWork,        \* ids left in a copied-out list
    jsSnap,        \* history: connections in the copied-out list
    reached        \* connections a fan-out has pushed to

connVars == <<slab, gens, inserts>>
roomVars == <<roomKeys, members>>
userVars == <<userKeys, devices>>
interestVars == <<roomInterest, userInterest>>
taskVars == <<pc, idOf, userOf, joined, todo, cur>>
jsVars == <<jsPc, jsRoom, jsId, jsWork, jsSnap, reached>>
vars == <<connVars, roomVars, userVars, interestVars, taskVars, jsVars>>

TaskPcs == {"admitted", "bind", "bindCount", "bindSet", "run", "sweep", "reap",
            "withdraw", "withdrawSet", "unbind", "unbindReap", "unbindCount",
            "unbindSet", "done"}
JsPcs == {"idle", "joinInfo", "joinSet", "leaveReap", "leaveInfo", "leaveSet",
          "closeRoom", "closeReap", "fanout"}

Init ==
    /\ slab = [s \in Slots |-> Vacant]
    /\ gens = [s \in Slots |-> -1]
    /\ inserts = [s \in Slots |-> 0]
    /\ roomKeys = {}
    /\ members = [r \in Rooms |-> {}]
    /\ userKeys = {}
    /\ devices = [u \in Users |-> {}]
    /\ roomInterest = {}
    /\ userInterest = {}
    /\ pc = [c \in Conns |-> "admitted"]
    /\ idOf = [c \in Conns |-> NoId]
    /\ userOf = [c \in Conns |-> NoUser]
    /\ joined = [c \in Conns |-> {}]
    /\ todo = [c \in Conns |-> {}]
    /\ cur = [c \in Conns |-> NoRoom]
    /\ jsPc = "idle"
    /\ jsRoom = NoRoom
    /\ jsId = NoId
    /\ jsWork = {}
    /\ jsSnap = {}
    /\ reached = {}

-----------------------------------------------------------------------------
(* Lookups.                                                                *)

\* The generation check of get / with_rooms / remove_full, left out: any
\* occupant of the slot answers to the id.
LiveAnyGeneration(id) == slab[id.key] # Vacant

\* Registry::get, with_rooms and remove_full succeed on exactly these ids.
Live(id) == /\ slab[id.key] # Vacant
            /\ slab[id.key].generation = id.generation

\* Nobody holds the conn shard of slot s across steps.  The JS thread does
\* while a leave is between get_mut and remove_if inside with_rooms.
ShardFree(s) ==
    jsPc \in {"leaveReap", "closeReap"} => ShardOf[jsId.key] # ShardOf[s]

-----------------------------------------------------------------------------
(* run_admitted, up to the connection being open.                          *)

\* A recycled slot keeps its generation.
NextGenerationNoBump(s) == IF gens[s] = -1 THEN 0 ELSE gens[s]

\* A recycled slot gets a fresh generation, a new key starts at 0.
NextGeneration(s) == (gens[s] + 1) % GenMod

\* registry.insert(handle, user_id): any free key, authorize chose the user.
Insert(c) ==
    /\ pc[c] = "admitted"
    /\ \E s \in Slots, u \in Users \cup {NoUser} :
        /\ slab[s] = Vacant
        /\ ShardFree(s)
        /\ gens' = [gens EXCEPT ![s] = NextGeneration(s)]
        /\ slab' = [slab EXCEPT ![s] =
                      [generation |-> NextGeneration(s), handle |-> c,
                       rooms |-> {}, user |-> u]]
        /\ inserts' = [inserts EXCEPT ![s] = @ + 1]
        /\ idOf' = [idOf EXCEPT ![c] = [key |-> s, generation |-> NextGeneration(s)]]
        /\ userOf' = [userOf EXCEPT ![c] = u]
        /\ pc' = [pc EXCEPT ![c] = IF u = NoUser THEN "run" ELSE "bind"]
    /\ UNCHANGED <<roomVars, userVars, interestVars, joined, todo, cur, jsVars>>

\* identity.bind, before Opened fires.
Bind(c) ==
    /\ pc[c] = "bind"
    /\ userKeys' = userKeys \cup {userOf[c]}
    /\ devices' = [devices EXCEPT ![userOf[c]] = @ \cup {idOf[c]}]
    /\ pc' = [pc EXCEPT ![c] = IF Clustered THEN "bindCount" ELSE "run"]
    /\ UNCHANGED <<connVars, roomVars, interestVars, idOf, userOf, joined, todo,
                   cur, jsVars>>

\* The 0 -> 1 test: identity.device_count(uid) == 1.
BindCount(c) ==
    /\ pc[c] = "bindCount"
    /\ pc' = [pc EXCEPT ![c] =
                IF Cardinality(devices[userOf[c]]) = 1 THEN "bindSet" ELSE "run"]
    /\ UNCHANGED <<connVars, roomVars, userVars, interestVars, idOf, userOf,
                   joined, todo, cur, jsVars>>

\* set_user_interest(uid, true).
BindSet(c) ==
    /\ pc[c] = "bindSet"
    /\ userInterest' = userInterest \cup {userOf[c]}
    /\ pc' = [pc EXCEPT ![c] = "run"]
    /\ UNCHANGED <<connVars, roomVars, userVars, roomInterest, idOf, userOf,
                   joined, todo, cur, jsVars>>

-----------------------------------------------------------------------------
(* run_admitted, after run_connection returned.                            *)

\* registry.remove_full(id): the entry and its final room set come out.
RemoveFull(c) ==
    /\ pc[c] = "run"
    /\ ShardFree(idOf[c].key)
    /\ Live(idOf[c])
    /\ joined' = [joined EXCEPT ![c] = slab[idOf[c].key].rooms]
    /\ todo' = [todo EXCEPT ![c] = slab[idOf[c].key].rooms]
    /\ slab' = [slab EXCEPT ![idOf[c].key] = Vacant]
    /\ pc' = [pc EXCEPT ![c] = "sweep"]
    /\ UNCHANGED <<gens, inserts, roomVars, userVars, interestVars, idOf, userOf,
                   cur, jsVars>>

\* remove_member, first guard: the last member out leaves an empty entry.
Empties(r, id) == r \in roomKeys /\ members[r] \ {id} = {}

\* remove_if re-checks emptiness under the map lock.
RemoveIfEmpty(r) == roomKeys \ {x \in {r} : members[x] = {}}

\* Without the re-check the entry goes even when a join refilled it.
ReapUnchecked(c) ==
    /\ pc[c] = "reap"
    /\ roomKeys' = roomKeys \ {cur[c]}
    /\ members' = [members EXCEPT ![cur[c]] = {}]
    /\ cur' = [cur EXCEPT ![c] = NoRoom]
    /\ pc' = [pc EXCEPT ![c] = "sweep"]
    /\ UNCHANGED <<connVars, userVars, interestVars, idOf, userOf, joined, todo,
                   jsVars>>

\* The sweep never ticks a room off.
SweepMemberRescans(c) ==
    /\ pc[c] = "sweep"
    /\ \E r \in todo[c] : members' = [members EXCEPT ![r] = @ \ {idOf[c]}]
    /\ UNCHANGED <<connVars, roomKeys, userVars, interestVars, taskVars, jsVars>>

\* disconnect_cleanup, one room: remove_member up to dropping the guard.
SweepMember(c) ==
    /\ pc[c] = "sweep"
    /\ \E r \in todo[c] :
        /\ todo' = [todo EXCEPT ![c] = @ \ {r}]
        /\ members' = [members EXCEPT ![r] = @ \ {idOf[c]}]
        /\ IF Empties(r, idOf[c])
             THEN /\ cur' = [cur EXCEPT ![c] = r]
                  /\ pc' = [pc EXCEPT ![c] = "reap"]
             ELSE UNCHANGED <<cur, pc>>
    /\ UNCHANGED <<connVars, roomKeys, userVars, interestVars, idOf, userOf,
                   joined, jsVars>>

\* remove_member, second guard: remove_if.
Reap(c) ==
    /\ pc[c] = "reap"
    /\ roomKeys' = RemoveIfEmpty(cur[c])
    /\ cur' = [cur EXCEPT ![c] = NoRoom]
    /\ pc' = [pc EXCEPT ![c] = "sweep"]
    /\ UNCHANGED <<connVars, members, userVars, interestVars, idOf, userOf,
                   joined, todo, jsVars>>

\* Where the tail goes once the rooms are dealt with.
IdentityTail(c) == IF userOf[c] = NoUser THEN "done" ELSE "unbind"

SweepDone(c) ==
    /\ pc[c] = "sweep"
    /\ todo[c] = {}
    /\ todo' = [todo EXCEPT ![c] = IF Clustered THEN joined[c] ELSE {}]
    /\ pc' = [pc EXCEPT ![c] = IF Clustered THEN "withdraw" ELSE IdentityTail(c)]
    /\ UNCHANGED <<connVars, roomVars, userVars, interestVars, idOf, userOf,
                   joined, cur, jsVars>>

\* The 1 -> 0 test of one room this connection had joined.
WithdrawCount(c) ==
    /\ pc[c] = "withdraw"
    /\ \E r \in todo[c] :
        /\ todo' = [todo EXCEPT ![c] = @ \ {r}]
        /\ IF members[r] = {}
             THEN /\ cur' = [cur EXCEPT ![c] = r]
                  /\ pc' = [pc EXCEPT ![c] = "withdrawSet"]
             ELSE UNCHANGED <<cur, pc>>
    /\ UNCHANGED <<connVars, roomVars, userVars, interestVars, idOf, userOf,
                   joined, jsVars>>

\* set_room_interest(room, false).
WithdrawSet(c) ==
    /\ pc[c] = "withdrawSet"
    /\ roomInterest' = roomInterest \ {cur[c]}
    /\ cur' = [cur EXCEPT ![c] = NoRoom]
    /\ pc' = [pc EXCEPT ![c] = "withdraw"]
    /\ UNCHANGED <<connVars, roomVars, userVars, userInterest, idOf, userOf,
                   joined, todo, jsVars>>

WithdrawDone(c) ==
    /\ pc[c] = "withdraw"
    /\ todo[c] = {}
    /\ pc' = [pc EXCEPT ![c] = IdentityTail(c)]
    /\ UNCHANGED <<connVars, roomVars, userVars, interestVars, idOf, userOf,
                   joined, todo, cur, jsVars>>

AfterUnbind == IF Clustered THEN "unbindCount" ELSE "done"

\* identity.unbind, first guard.
Unbind(c) ==
    /\ pc[c] = "unbind"
    /\ devices' = [devices EXCEPT ![userOf[c]] = @ \ {idOf[c]}]
    /\ pc' = [pc EXCEPT ![c] =
                IF userOf[c] \in userKeys /\ devices[userOf[c]] \ {idOf[c]} = {}
                  THEN "unbindReap" ELSE AfterUnbind]
    /\ UNCHANGED <<connVars, roomVars, userKeys, interestVars, idOf, userOf,
                   joined, todo, cur, jsVars>>

\* The user entry survives its last device.
UnbindReapSkipped(c) ==
    /\ pc[c] = "unbindReap"
    /\ pc' = [pc EXCEPT ![c] = AfterUnbind]
    /\ UNCHANGED <<connVars, roomVars, userVars, interestVars, idOf, userOf,
                   joined, todo, cur, jsVars>>

\* identity.unbind, second guard: remove_if.
UnbindReap(c) ==
    /\ pc[c] = "unbindReap"
    /\ userKeys' = userKeys \ {u \in {userOf[c]} : devices[u] = {}}
    /\ pc' = [pc EXCEPT ![c] = AfterUnbind]
    /\ UNCHANGED <<connVars, roomVars, devices, interestVars, idOf, userOf,
                   joined, todo, cur, jsVars>>

\* The 1 -> 0 test: identity.device_count(uid) == 0.
UnbindCount(c) ==
    /\ pc[c] = "unbindCount"
    /\ pc' = [pc EXCEPT ![c] =
                IF devices[userOf[c]] = {} THEN "unbindSet" ELSE "done"]
    /\ UNCHANGED <<connVars, roomVars, userVars, interestVars, idOf, userOf,
                   joined, todo, cur, jsVars>>

\* set_user_interest(uid, false).
UnbindSet(c) ==
    /\ pc[c] = "unbindSet"
    /\ userInterest' = userInterest \ {userOf[c]}
    /\ pc' = [pc EXCEPT ![c] = "done"]
    /\ UNCHANGED <<connVars, roomVars, userVars, roomInterest, idOf, userOf,
                   joined, todo, cur, jsVars>>

-----------------------------------------------------------------------------
(* Engine verbs on the JS thread.  Calls that change nothing (NotFound,    *)
(* NoOp, LimitExceeded, unknown room) are stuttering steps.                *)

\* The ids JS has been given: Opened was emitted with them.
Opened(c) == pc[c] \notin {"admitted", "bind", "bindCount", "bindSet"}

JsReturn == /\ jsPc' = "idle"
            /\ jsRoom' = NoRoom
            /\ jsId' = NoId
            /\ jsWork' = {}
            /\ jsSnap' = {}
            /\ reached' = {}

UnderRoomCap(rs) == MaxRooms = 0 \/ Cardinality(rs) < MaxRooms

\* rooms.join under the conn shard lock, the Changed outcome.
Join(c, r) ==
    /\ jsPc = "idle"
    /\ Opened(c)
    /\ Live(idOf[c])
    /\ r \notin slab[idOf[c].key].rooms
    /\ UnderRoomCap(slab[idOf[c].key].rooms)
    /\ slab' = [slab EXCEPT ![idOf[c].key].rooms = @ \cup {r}]
    /\ roomKeys' = roomKeys \cup {r}
    /\ members' = [members EXCEPT ![r] = @ \cup {idOf[c]}]
    /\ IF Clustered
         THEN /\ jsPc' = "joinInfo"
              /\ jsRoom' = r
         ELSE UNCHANGED <<jsPc, jsRoom>>
    /\ UNCHANGED <<gens, inserts, userVars, interestVars, taskVars, jsId, jsWork,
                   jsSnap, reached>>

\* The 0 -> 1 test: rooms.info(room).members == 1.
JoinInfo ==
    /\ jsPc = "joinInfo"
    /\ IF Cardinality(members[jsRoom]) = 1
         THEN /\ jsPc' = "joinSet"
              /\ UNCHANGED <<jsRoom, jsId, jsWork, jsSnap, reached>>
         ELSE JsReturn
    /\ UNCHANGED <<connVars, roomVars, userVars, interestVars, taskVars>>

\* set_room_interest(room, true).
JoinSet ==
    /\ jsPc = "joinSet"
    /\ roomInterest' = roomInterest \cup {jsRoom}
    /\ JsReturn
    /\ UNCHANGED <<connVars, roomVars, userVars, userInterest, taskVars>>

\* with_rooms(id, set.remove(room); remove_member), up to dropping the guard.
LeaveEffect(id, r) ==
    /\ slab' = [slab EXCEPT ![id.key].rooms = @ \ {r}]
    /\ members' = [members EXCEPT ![r] = @ \ {id}]

\* rooms.leave, the Changed outcome.  The shard lock stays held if the room
\* emptied.
Leave(c, r) ==
    /\ jsPc = "idle"
    /\ Opened(c)
    /\ Live(idOf[c])
    /\ r \in slab[idOf[c].key].rooms
    /\ LeaveEffect(idOf[c], r)
    /\ jsPc' = IF Empties(r, idOf[c]) THEN "leaveReap"
               ELSE IF Clustered THEN "leaveInfo" ELSE "idle"
    /\ jsRoom' = IF jsPc' = "idle" THEN NoRoom ELSE r
    /\ jsId' = IF jsPc' = "leaveReap" THEN idOf[c] ELSE NoId
    /\ UNCHANGED <<gens, inserts, roomKeys, userVars, interestVars, taskVars,
                   jsWork, jsSnap, reached>>

LeaveReap ==
    /\ jsPc = "leaveReap"
    /\ roomKeys' = RemoveIfEmpty(jsRoom)
    /\ IF Clustered
         THEN /\ jsPc' = "leaveInfo"
              /\ jsId' = NoId
              /\ UNCHANGED <<jsRoom, jsWork, jsSnap, reached>>
         ELSE JsReturn
    /\ UNCHANGED <<connVars, members, userVars, interestVars, taskVars>>

\* The 1 -> 0 test: rooms.info(room).members == 0.
LeaveInfo ==
    /\ jsPc = "leaveInfo"
    /\ IF members[jsRoom] = {}
         THEN /\ jsPc' = "leaveSet"
              /\ UNCHANGED <<jsRoom, jsId, jsWork, jsSnap, reached>>
         ELSE JsReturn
    /\ UNCHANGED <<connVars, roomVars, userVars, interestVars, taskVars>>

\* set_room_interest(room, false).
LeaveSet ==
    /\ jsPc = "leaveSet"
    /\ roomInterest' = roomInterest \ {jsRoom}
    /\ JsReturn
    /\ UNCHANGED <<connVars, roomVars, userVars, userInterest, taskVars>>

\* admin_close_room: close_room copies the members out ...
CloseRoom(r) ==
    /\ jsPc = "idle"
    /\ r \in roomKeys
    /\ jsPc' = "closeRoom"
    /\ jsRoom' = r
    /\ jsWork' = members[r]
    /\ UNCHANGED <<connVars, roomVars, userVars, interestVars, taskVars, jsId,
                   jsSnap, reached>>

\* ... and runs leave on each; a member gone meanwhile is NotFound or NoOp.
CloseRoomLeave ==
    /\ jsPc = "closeRoom"
    /\ \E id \in jsWork :
        /\ jsWork' = jsWork \ {id}
        /\ IF Live(id) /\ jsRoom \in slab[id.key].rooms
             THEN /\ LeaveEffect(id, jsRoom)
                  /\ jsPc' = IF Empties(jsRoom, id) THEN "closeReap" ELSE "closeRoom"
                  /\ jsId' = IF Empties(jsRoom, id) THEN id ELSE NoId
             ELSE UNCHANGED <<slab, members, jsPc, jsId>>
    /\ UNCHANGED <<gens, inserts, roomKeys, userVars, interestVars, taskVars,
                   jsRoom, jsSnap, reached>>

CloseReap ==
    /\ jsPc = "closeReap"
    /\ roomKeys' = RemoveIfEmpty(jsRoom)
    /\ jsPc' = "closeRoom"
    /\ jsId' = NoId
    /\ UNCHANGED <<connVars, members, userVars, interestVars, taskVars, jsRoom,
                   jsWork, jsSnap, reached>>

CloseRoomDone ==
    /\ jsPc = "closeRoom"
    /\ jsWork = {}
    /\ JsReturn
    /\ UNCHANGED <<connVars, roomVars, userVars, interestVars, taskVars>>

\* Fan-out copies the id list out and releases the guard first.
CopyOut(ids) ==
    /\ jsPc = "idle"
    /\ jsPc' = "fanout"
    /\ jsWork' = ids
    /\ jsSnap' = {c \in Conns : idOf[c] \in ids}
    /\ UNCHANGED <<connVars, roomVars, userVars, interestVars, taskVars, jsRoom,
                   jsId, reached>>

\* broadcast_room: record_and_members.
BroadcastRoom(r) == r \in roomKeys /\ CopyOut(members[r])

\* broadcast_user, admin_disconnect_user: identity.connections.
BroadcastUser(u) == u \in userKeys /\ CopyOut(devices[u])

\* fan_out_ids, one id: registry.get, then push on the handle if it is live.
FanoutPush ==
    /\ jsPc = "fanout"
    /\ \E id \in jsWork :
        /\ jsWork' = jsWork \ {id}
        /\ reached' = IF Live(id) THEN reached \cup {slab[id.key].handle} ELSE reached
    /\ UNCHANGED <<connVars, roomVars, userVars, interestVars, taskVars, jsPc,
                   jsRoom, jsId, jsSnap>>

FanoutDone ==
    /\ jsPc = "fanout"
    /\ jsWork = {}
    /\ JsReturn
    /\ UNCHANGED <<connVars, roomVars, userVars, interestVars, taskVars>>

-----------------------------------------------------------------------------
(* Specification.                                                          *)

\* Everything run_admitted does after run_connection returned.
Tail(c) == \/ SweepMember(c)   \/ Reap(c)        \/ SweepDone(c)
           \/ WithdrawCount(c) \/ WithdrawSet(c) \/ WithdrawDone(c)
           \/ Unbind(c)        \/ UnbindReap(c)  \/ UnbindCount(c) \/ UnbindSet(c)

Task(c) == \/ Insert(c) \/ Bind(c) \/ BindCount(c) \/ BindSet(c)
           \/ RemoveFull(c)
           \/ Tail(c)

JsCall == \/ \E c \in Conns, r \in Rooms : Join(c, r) \/ Leave(c, r)
          \/ \E r \in Rooms : CloseRoom(r) \/ BroadcastRoom(r)
          \/ \E u \in Users : BroadcastUser(u)

\* The rest of a verb that has started.
JsContinue == \/ JoinInfo \/ JoinSet
              \/ LeaveReap \/ LeaveInfo \/ LeaveSet
              \/ CloseRoomLeave \/ CloseReap \/ CloseRoomDone
              \/ FanoutPush \/ FanoutDone

\* Every connection task is finished and JS is idle: the engine may rest.
Finished == /\ jsPc = "idle"
            /\ \A c \in Conns : pc[c] = "done"
            /\ UNCHANGED vars

Next == \/ \E c \in Conns : Task(c)
        \/ JsCall
        \/ JsContinue
        \/ Finished

Spec == Init /\ [][Next]_vars

\* A tokio task that can run does run, and a synchronous verb returns.
FairSpec == /\ Spec
            /\ \A c \in Conns : WF_vars(Tail(c))
            /\ WF_vars(JsContinue)

-----------------------------------------------------------------------------
(* Properties.                                                             *)

\* No slot has been recycled often enough for its 24-bit generation to wrap.
\* ids.rs promises stale ids miss only up to that point.
NoWrap == \A s \in Slots : inserts[s] <= GenMod

\* The shards, guard by guard: what a slot holds and the generations given out.
SlabTypes ==
    /\ slab \in [Slots -> Entry \cup {Vacant}]
    /\ gens \in [Slots -> -1 .. GenMod - 1]
    /\ inserts \in [Slots -> Nat]

RoomTypes == roomKeys \in SUBSET Rooms /\ members \in [Rooms -> SUBSET Ids]

UserTypes == userKeys \in SUBSET Users /\ devices \in [Users -> SUBSET Ids]

InterestTypes == roomInterest \in SUBSET Rooms /\ userInterest \in SUBSET Users

TaskTypes ==
    /\ pc \in [Conns -> TaskPcs]
    /\ idOf \in [Conns -> Ids \cup {NoId}]
    /\ userOf \in [Conns -> Users \cup {NoUser}]

SweepTypes ==
    /\ joined \in [Conns -> SUBSET Rooms]
    /\ todo \in [Conns -> SUBSET Rooms]
    /\ cur \in [Conns -> Rooms \cup {NoRoom}]

JsTypes ==
    /\ jsPc \in JsPcs
    /\ jsRoom \in Rooms \cup {NoRoom}
    /\ jsId \in Ids \cup {NoId}
    /\ jsWork \in SUBSET Ids
    /\ jsSnap \in SUBSET Conns
    /\ reached \in SUBSET Conns

\* Every variable has its type; in particular a recycled slot's generation
\* stays within its 24 bits (Registry::insert masks it).
TypeOK == /\ SlabTypes /\ RoomTypes /\ UserTypes /\ InterestTypes
          /\ TaskTypes /\ SweepTypes /\ JsTypes

\* A stale id never addresses the connection that recycled its slot: what a
\* lookup of c's id finds is c (ids.rs, registry.rs get / with_rooms).
StaleIdMisses ==
    NoWrap => \A c \in Conns :
        idOf[c] # NoId /\ Live(idOf[c]) => slab[idOf[c].key].handle = c

\* rooms.rs membership is bidirectional: for every live connection the room
\* side and the connection side agree whatever interleaves with a join, a
\* leave, a sweep or another connection's disconnect.
Bidirectional ==
    NoWrap => \A s \in Slots : slab[s] # Vacant =>
        \A r \in Rooms :
            r \in slab[s].rooms <=> [key |-> s, generation |-> slab[s].generation] \in members[r]

\* A room never keeps the id of a connection whose task will not remove it:
\* every member is live or is in the rest of its own disconnect sweep.
NoGhostMember ==
    NoWrap => \A r \in Rooms : \A id \in members[r] :
        \/ Live(id)
        \/ \E c \in Conns : idOf[c] = id /\ pc[c] \in {"sweep", "reap"} /\ r \in todo[c]

\* rooms.rs: an empty room must never survive.  An empty entry exists only
\* between the two guards of somebody's remove_member, and a room without
\* an entry has no members (remove_if loses no concurrent join).
EmptyRoomDoomed ==
    \A r \in Rooms :
        /\ r \notin roomKeys => members[r] = {}
        /\ r \in roomKeys /\ members[r] = {} =>
             \/ \E c \in Conns : pc[c] = "reap" /\ cur[c] = r
             \/ jsPc \in {"leaveReap", "closeReap"} /\ jsRoom = r

\* identity.rs: the device set of a user is exactly the connections that
\* have bound and not yet unbound, and an empty user entry is about to go.
DevicesExact ==
    NoWrap => \A u \in Users :
        /\ devices[u] = {idOf[c] : c \in {d \in Conns :
               /\ userOf[d] = u
               /\ pc[d] \in TaskPcs \ {"admitted", "bind", "unbindReap",
                                       "unbindCount", "unbindSet", "done"}}}
        /\ u \notin userKeys => devices[u] = {}
        /\ u \in userKeys /\ devices[u] = {} =>
             \E c \in Conns : pc[c] = "unbindReap" /\ userOf[c] = u

\* Connect/disconnect churn leaves nothing behind: with every connection task
\* finished and no verb running, the slab, the room map and the user index
\* are empty again.
ChurnLeavesNothing ==
    NoWrap /\ jsPc = "idle" /\ (\A c \in Conns : pc[c] = "done") =>
        /\ \A s \in Slots : slab[s] = Vacant
        /\ roomKeys = {}
        /\ userKeys = {}

\* maxRoomsPerConnection holds for every live connection.
RoomCap ==
    MaxRooms # 0 => \A s \in Slots :
        slab[s] # Vacant => Cardinality(slab[s].rooms) <= MaxRooms

\* A fan-out over a copied-out list reaches no connection that was not in
\* the list (a slot recycled after the copy included), and misses only
\* connections that have since been removed.
FanoutExact ==
    NoWrap /\ jsPc = "fanout" =>
        /\ reached \subseteq jsSnap
        /\ \A c \in jsSnap : idOf[c] \in jsWork \/ c \in reached \/ ~Live(idOf[c])

\* closeRoom: when the sweep returns no live connection is in the room.
CloseRoomEmpties ==
    [][NoWrap /\ CloseRoomDone => \A id \in members[jsRoom] : ~Live(id)]_vars

\* A user interest is never stuck: when no task of the user is between
\* insert and its last step, this node no longer advertises the user.
UserInterestNotStuck ==
    NoWrap => \A u \in userInterest :
        \E c \in Conns : userOf[c] = u /\ pc[c] \notin {"admitted", "bind", "done"}

\* Disconnect cleanup terminates: a removed connection's task always
\* reaches its end, however the JS thread and the other tasks interleave.
CleanupCompletes == \A c \in Conns : pc[c] = "sweep" ~> pc[c] = "done"

\* No task and no verb is between two steps.
Quiescent == /\ jsPc = "idle"
             /\ \A c \in Conns : pc[c] \in {"admitted", "run", "done"}

\* RFC 0004 section 4.3: at rest, the node advertises exactly the rooms and the
\* users it hosts, whatever interleaving of join, leave, closeRoom, connect and
\* disconnect led there.
AdvertisesWhatItHosts ==
    Quiescent => /\ roomInterest = {r \in Rooms : members[r] # {}}
                 /\ userInterest = {u \in Users : devices[u] # {}}

-----------------------------------------------------------------------------
(* The inductive invariant behind the safety properties.                   *)

\* The connection's own entry is in the slab.
OpenPcs == {"bind", "bindCount", "bindSet", "run"}

\* The connection has bound its user and not yet unbound it.
BoundPcs == {"bindCount", "bindSet", "run", "sweep", "reap", "withdraw",
             "withdrawSet", "unbind"}

\* Membership of c in r as the connection side knows it.
InRoom(c, r) == \/ pc[c] \in OpenPcs /\ r \in slab[idOf[c].key].rooms
                \/ pc[c] \in {"sweep", "reap"} /\ r \in todo[c]

\* What each program point implies about the locals of its thread.
PointFacts ==
    /\ \A c \in Conns :
        /\ pc[c] = "admitted" <=> idOf[c] = NoId
        /\ pc[c] \in {"bind", "bindCount", "bindSet", "unbind", "unbindReap",
                      "unbindCount", "unbindSet"} => userOf[c] \in Users
        /\ pc[c] \in {"reap", "withdrawSet"} => cur[c] \in Rooms
    /\ jsPc \notin {"idle", "fanout"} => jsRoom \in Rooms
    /\ jsPc \in {"leaveReap", "closeReap"} => jsId \in Ids
    /\ jsPc # "fanout" => reached = {}

\* Without a cluster nothing is ever advertised.
UnclusteredQuiet ==
    ~Clustered => /\ userInterest = {}
                  /\ \A c \in Conns : pc[c] \notin {"bindCount", "bindSet"}

\* Open tasks and occupied slots correspond one to one.
SlabOwned ==
    /\ \A c \in Conns : pc[c] \in OpenPcs =>
        slab[idOf[c].key] # Vacant /\ slab[idOf[c].key].handle = c
    /\ \A s \in Slots : slab[s] # Vacant =>
        /\ pc[slab[s].handle] \in OpenPcs
        /\ idOf[slab[s].handle] = [key |-> s, generation |-> slab[s].generation]

\* Generations only grow, so ids are never handed out twice.
IdsFresh ==
    /\ \A s \in Slots : gens[s] = inserts[s] - 1
    /\ \A c \in Conns : idOf[c] # NoId => idOf[c].generation <= gens[idOf[c].key]
    /\ \A c, d \in Conns : idOf[c] # NoId /\ idOf[c] = idOf[d] => c = d

\* The room side holds exactly the ids the connection side accounts for.
MembersExact ==
    \A r \in Rooms :
        /\ \A id \in members[r] : \E c \in Conns : idOf[c] = id /\ InRoom(c, r)
        /\ \A c \in Conns : InRoom(c, r) => idOf[c] \in members[r]

\* The user side holds exactly the ids of bound connections.
DevicesBound ==
    \A u \in Users :
        /\ \A id \in devices[u] :
             \E c \in Conns : idOf[c] = id /\ pc[c] \in BoundPcs /\ userOf[c] = u
        /\ \A c \in Conns :
             pc[c] \in BoundPcs /\ userOf[c] = u => idOf[c] \in devices[u]

\* An empty user entry is between the two guards of an unbind.
EmptyUserDoomed ==
    \A u \in Users :
        /\ u \notin userKeys => devices[u] = {}
        /\ u \in userKeys /\ devices[u] = {} =>
             \E c \in Conns : pc[c] = "unbindReap" /\ userOf[c] = u

\* Nobody but the JS thread adds members, so a sweep has the rest in hand.
SweepCovers ==
    jsPc \in {"closeRoom", "closeReap"} =>
        \A id \in members[jsRoom] : Live(id) => id \in jsWork

\* The copied-out list names connections that were inserted before the copy.
SnapshotKnown ==
    jsPc = "fanout" =>
        /\ \A c \in jsSnap : idOf[c] # NoId
        /\ \A id \in jsWork : \E c \in jsSnap : idOf[c] = id

IInv == /\ TypeOK
        /\ PointFacts
        /\ UnclusteredQuiet
        /\ SlabOwned
        /\ EmptyRoomDoomed
        /\ EmptyUserDoomed
        /\ NoWrap => /\ IdsFresh
                     /\ MembersExact
                     /\ DevicesBound
                     /\ SweepCovers
                     /\ SnapshotKnown
                     /\ FanoutExact
                     /\ UserInterestNotStuck
=============================================================================
