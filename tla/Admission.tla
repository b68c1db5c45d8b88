----------------------------- MODULE Admission ------------------------------
(***************************************************************************)
(* From an upgrade request to an open connection, and the slots it holds:  *)
(*   limits.rs       Gate::admit, IpLimiter, IpAdmitGuard                  *)
(*   identity.rs     Authorizer: bounded in-flight count, pending table,   *)
(*                   timeout against a late answer                         *)
(*   engine.rs       run_admitted around them                              *)
(*   server.ts, correlation.ts   the SDK's authorize hook and the stash    *)
(*                   that keeps its answer until Opened                    *)
(*                                                                         *)
(* Each upgrade is one tokio task; hooks and event handlers are turns of   *)
(* the one JS thread.  One step is one map guard, one atomic operation or  *)
(* one channel operation.  An upgrade makes one authorize request, so it   *)
(* names its request_id.                                                   *)
(***************************************************************************)
EXTENDS Integers, Sequences, FiniteSets

CONSTANTS
    Upgrades,     \* upgrade requests
    Ips,          \* resolved client addresses
    NoIp,         \* no address resolved yet
    MaxPerIp,     \* maxConnectionsPerIp, 0 = unlimited
    MaxPending,   \* maxPendingAuthorizations
    Hook,         \* an authorize hook is registered
    StashCap,     \* PENDING_AUTH_CAP
    Nobody        \* no JS turn is in progress

ASSUME AdmissionAssumption ==
    /\ IsFiniteSet(Upgrades)
    /\ MaxPerIp \in Nat
    /\ MaxPending \in Nat
    /\ Hook \in BOOLEAN
    /\ StashCap \in Nat
    /\ NoIp \notin Ips
    /\ Nobody \notin Upgrades

VARIABLES
    draining,   \* Gate: close() has begun
    keys,       \* IpLimiter: addresses with a map entry
    counts,     \* IpLimiter: address -> count, 0 where there is no entry
    inFlight,   \* Authorizer: in_flight
    pending,    \* Authorizer: requests with an entry in the pending table
    upc,        \* upgrade -> where its task is
    ipOf,       \* upgrade -> resolved client address
    verdict,    \* upgrade -> what authorize resolved to
    reply,      \* upgrade -> value in its oneshot channel
    hook,       \* upgrade -> where its hook is
    answer,     \* upgrade -> what the hook decided
    turn,       \* the request the current JS turn is resolving
    stash,      \* SDK: requests in the BoundedMetaMap, oldest first
    opening     \* upgrades whose Opened event JS has not handled

gateVars == <<draining, keys, counts>>
authVars == <<inFlight, pending>>
taskVars == <<upc, ipOf, verdict>>
jsVars == <<hook, answer, turn, stash>>
vars == <<gateVars, authVars, taskVars, reply, jsVars, opening>>

UpgradePcs == {"new", "limit", "handshake", "reserve", "shed", "register", "emit",
               "await", "settle", "permit", "close", "open", "live", "drop", "reap",
               "done"}

Init ==
    /\ draining = FALSE
    /\ keys = {} /\ counts = [ip \in Ips |-> 0]
    /\ inFlight = 0 /\ pending = {}
    /\ upc = [u \in Upgrades |-> "new"]
    /\ ipOf = [u \in Upgrades |-> NoIp]
    /\ verdict = [u \in Upgrades |-> "none"]
    /\ reply = [u \in Upgrades |-> "none"]
    /\ hook = [u \in Upgrades |-> "none"]
    /\ answer = [u \in Upgrades |-> "none"]
    /\ turn = Nobody /\ stash = <<>>
    /\ opening = {}

Goto(u, where) == upc' = [upc EXCEPT ![u] = where]

-----------------------------------------------------------------------------
(* Gate::admit and the handshake.                                          *)

\* Engine::close, step 1.
SetDraining ==
    /\ ~draining
    /\ draining' = TRUE
    /\ UNCHANGED <<keys, counts, authVars, taskVars, reply, jsVars, opening>>

\* is_draining and resolve_client_ip: 503, or on to the limiter.
Check(u) ==
    /\ upc[u] = "new"
    /\ \E ip \in Ips : ipOf' = [ipOf EXCEPT ![u] = ip]
    /\ Goto(u, IF draining THEN "done" ELSE "limit")
    /\ UNCHANGED <<gateVars, authVars, verdict, reply, jsVars, opening>>

\* The cap is compared with >.
AtCapLate(ip) == MaxPerIp # 0 /\ counts[ip] > MaxPerIp

AtCap(ip) == MaxPerIp # 0 /\ counts[ip] >= MaxPerIp

\* IpLimiter::try_admit: 429, or a slot and its guard (a no-op guard when
\* unlimited).  or_insert(0) never leaves an entry behind a refusal: an entry
\* at the cap was there.
TryAdmit(u) ==
    /\ upc[u] = "limit"
    /\ \/ /\ AtCap(ipOf[u])
          /\ Goto(u, "done")
          /\ UNCHANGED <<keys, counts>>
       \/ /\ ~AtCap(ipOf[u])
          /\ Goto(u, "handshake")
          /\ keys' = IF MaxPerIp = 0 THEN keys ELSE keys \cup {ipOf[u]}
          /\ counts' = IF MaxPerIp = 0 THEN counts ELSE [counts EXCEPT ![ipOf[u]] = @ + 1]
    /\ UNCHANGED <<draining, authVars, ipOf, verdict, reply, jsVars, opening>>

\* The rest of accept / adopt: a failure drops the guard.
Handshake(u) ==
    /\ upc[u] = "handshake"
    /\ \/ Goto(u, IF Hook THEN "reserve" ELSE "open")
       \/ Goto(u, "drop")
    /\ UNCHANGED <<gateVars, authVars, ipOf, verdict, reply, jsVars, opening>>

-----------------------------------------------------------------------------
(* Authorizer::authorize.                                                  *)

\* in_flight.fetch_add and the test of its old value.
Reserve(u) ==
    /\ upc[u] = "reserve"
    /\ inFlight' = inFlight + 1
    /\ Goto(u, IF inFlight >= MaxPending THEN "shed" ELSE "register")
    /\ UNCHANGED <<gateVars, pending, ipOf, verdict, reply, jsVars, opening>>

\* Over the cap: the increment is undone, the upgrade rejected.
Shed(u) ==
    /\ upc[u] = "shed"
    /\ inFlight' = inFlight - 1
    /\ verdict' = [verdict EXCEPT ![u] = "unavailable"]
    /\ Goto(u, "close")
    /\ UNCHANGED <<gateVars, pending, ipOf, reply, jsVars, opening>>

\* A fresh request_id and its entry in the pending table.
Register(u) ==
    /\ upc[u] = "register"
    /\ pending' = pending \cup {u}
    /\ Goto(u, "emit")
    /\ UNCHANGED <<gateVars, inFlight, ipOf, verdict, reply, jsVars, opening>>

\* The Authorize event is queued; #handleAuthorize starts the hook.
Emit(u) ==
    /\ upc[u] = "emit"
    /\ hook' = [hook EXCEPT ![u] = "run"]
    /\ Goto(u, "await")
    /\ UNCHANGED <<gateVars, authVars, ipOf, verdict, reply, answer, turn, stash, opening>>

\* timeout(rx): the answer arrived.
Answered(u) ==
    /\ upc[u] = "await"
    /\ reply[u] # "none"
    /\ verdict' = [verdict EXCEPT ![u] = reply[u]]
    /\ Goto(u, "settle")
    /\ UNCHANGED <<gateVars, authVars, ipOf, reply, jsVars, opening>>

\* A timeout that admits.
TimedOutOpen(u) ==
    /\ upc[u] = "await"
    /\ reply[u] = "none"
    /\ verdict' = [verdict EXCEPT ![u] = "accept"]
    /\ Goto(u, "settle")
    /\ UNCHANGED <<gateVars, authVars, ipOf, reply, jsVars, opening>>

\* The round-trip has no timer.
TimedOutNever(u) == upc[u] = "await" /\ reply[u] = "none" /\ UNCHANGED vars

\* timeout(rx): the receiver is polled first, so only without an answer.
TimedOut(u) ==
    /\ upc[u] = "await"
    /\ reply[u] = "none"
    /\ verdict' = [verdict EXCEPT ![u] = "unavailable"]
    /\ Goto(u, "settle")
    /\ UNCHANGED <<gateVars, authVars, ipOf, reply, jsVars, opening>>

\* The pending entry of a timed-out request is left to resolve.
SettleLeavesEntry(u) ==
    /\ upc[u] = "settle"
    /\ Goto(u, "permit")
    /\ UNCHANGED <<gateVars, authVars, ipOf, verdict, reply, jsVars, opening>>

\* pending.remove(&request_id).
Settle(u) ==
    /\ upc[u] = "settle"
    /\ pending' = pending \ {u}
    /\ Goto(u, "permit")
    /\ UNCHANGED <<gateVars, inFlight, ipOf, verdict, reply, jsVars, opening>>

\* InFlightPermit dropped on return.
DropPermit(u) ==
    /\ upc[u] = "permit"
    /\ inFlight' = inFlight - 1
    /\ Goto(u, IF verdict[u] = "accept" THEN "open" ELSE "close")
    /\ UNCHANGED <<gateVars, pending, ipOf, verdict, reply, jsVars, opening>>

-----------------------------------------------------------------------------
(* run_admitted after the verdict, and IpAdmitGuard::drop.                 *)

\* reject_after_upgrade.
RejectAfterUpgrade(u) ==
    /\ upc[u] = "close"
    /\ Goto(u, "drop")
    /\ UNCHANGED <<gateVars, authVars, ipOf, verdict, reply, jsVars, opening>>

\* Registered, bound and Opened emitted.
Open(u) ==
    /\ upc[u] = "open"
    /\ opening' = opening \cup {u}
    /\ Goto(u, "live")
    /\ UNCHANGED <<gateVars, authVars, ipOf, verdict, reply, jsVars>>

\* run_connection and the cleanup after it are over.
Disconnect(u) ==
    /\ upc[u] = "live"
    /\ Goto(u, "drop")
    /\ UNCHANGED <<gateVars, authVars, ipOf, verdict, reply, jsVars, opening>>

\* IpLimiter::release, first guard.
Release(u) ==
    /\ upc[u] = "drop"
    /\ IF MaxPerIp = 0 \/ ipOf[u] \notin keys
         THEN Goto(u, "done") /\ UNCHANGED counts
         ELSE /\ counts' = [counts EXCEPT ![ipOf[u]] = @ - 1]
              /\ Goto(u, IF counts[ipOf[u]] = 1 THEN "reap" ELSE "done")
    /\ UNCHANGED <<draining, keys, authVars, ipOf, verdict, reply, jsVars, opening>>

\* IpLimiter::release, second guard: remove_if.
Reap(u) ==
    /\ upc[u] = "reap"
    /\ keys' = keys \ {ip \in {ipOf[u]} : counts[ip] = 0}
    /\ Goto(u, "done")
    /\ UNCHANGED <<draining, counts, authVars, ipOf, verdict, reply, jsVars, opening>>

-----------------------------------------------------------------------------
(* The SDK.  A turn that has started runs to its end before the next.      *)

\* BoundedMetaMap::set: over the cap the oldest entry goes.
StashSet(u) ==
    stash' = IF Len(stash) >= StashCap THEN Tail(Append(stash, u)) ELSE Append(stash, u)

\* The hook's promise settles: an accept is stashed first, then resolved.
HookAccepts(u) ==
    /\ turn = Nobody
    /\ hook[u] = "run"
    /\ StashSet(u)
    /\ answer' = [answer EXCEPT ![u] = "accept"]
    /\ hook' = [hook EXCEPT ![u] = "resolve"]
    /\ turn' = u
    /\ UNCHANGED <<gateVars, authVars, taskVars, reply, opening>>

\* A reject or a throwing hook.
HookRejects(u) ==
    /\ turn = Nobody
    /\ hook[u] = "run"
    /\ answer' = [answer EXCEPT ![u] = "reject"]
    /\ hook' = [hook EXCEPT ![u] = "resolve"]
    /\ turn' = u
    /\ UNCHANGED <<gateVars, authVars, taskVars, reply, stash, opening>>

\* Authorizer::resolve: the entry is taken out, or was gone ...
Resolve(u) ==
    /\ turn = u
    /\ hook[u] = "resolve"
    /\ pending' = pending \ {u}
    /\ IF u \in pending
         THEN hook' = [hook EXCEPT ![u] = "send"] /\ UNCHANGED turn
         ELSE hook' = [hook EXCEPT ![u] = "done"] /\ turn' = Nobody
    /\ UNCHANGED <<gateVars, inFlight, taskVars, reply, answer, stash, opening>>

\* ... and the answer sent, unless the receiver has timed out.
Send(u) ==
    /\ turn = u
    /\ hook[u] = "send"
    /\ reply' = IF upc[u] = "await" THEN [reply EXCEPT ![u] = answer[u]] ELSE reply
    /\ hook' = [hook EXCEPT ![u] = "done"]
    /\ turn' = Nobody
    /\ UNCHANGED <<gateVars, authVars, taskVars, answer, stash, opening>>

\* BoundedMetaMap::take: a key is in the map at most once.
StashTake(u) ==
    \/ \E i \in DOMAIN stash :
         /\ stash[i] = u
         /\ stash' = SubSeq(stash, 1, i - 1) \o SubSeq(stash, i + 1, Len(stash))
    \/ (\A i \in DOMAIN stash : stash[i] # u) /\ UNCHANGED stash

\* onOpen: the stashed answer is taken.
OnOpen(u) ==
    /\ turn = Nobody
    /\ u \in opening
    /\ opening' = opening \ {u}
    /\ StashTake(u)
    /\ UNCHANGED <<gateVars, authVars, taskVars, reply, hook, answer, turn>>

-----------------------------------------------------------------------------
Authorize(u) ==
    \/ Reserve(u) \/ Shed(u) \/ Register(u) \/ Emit(u) \/ Answered(u) \/ TimedOut(u)
    \/ Settle(u) \/ DropPermit(u)

Task(u) ==
    \/ Check(u) \/ TryAdmit(u) \/ Handshake(u) \/ Authorize(u)
    \/ RejectAfterUpgrade(u) \/ Open(u) \/ Disconnect(u) \/ Release(u) \/ Reap(u)

Js(u) == HookAccepts(u) \/ HookRejects(u) \/ Resolve(u) \/ Send(u) \/ OnOpen(u)

\* Every upgrade is over and JS has nothing left to handle.
Finished ==
    /\ \A u \in Upgrades : upc[u] = "done" /\ hook[u] \in {"none", "done"}
    /\ opening = {}
    /\ draining
    /\ UNCHANGED vars

Next == SetDraining \/ (\E u \in Upgrades : Task(u) \/ Js(u)) \/ Finished

Spec == Init /\ [][Next]_vars

\* Tasks are polled, the authorize timer fires and a JS turn ends; a hook's
\* promise may never settle and a connection may stay open.
FairSpec ==
    /\ Spec
    /\ \A u \in Upgrades :
         /\ WF_vars(TryAdmit(u) \/ Handshake(u) \/ Authorize(u) \/ RejectAfterUpgrade(u)
                      \/ Open(u) \/ Release(u) \/ Reap(u))
         /\ WF_vars(Resolve(u) \/ Send(u))

-----------------------------------------------------------------------------
(* Properties.                                                             *)

\* Every variable has its type; in particular neither counter underflows and
\* the stash stays within PENDING_AUTH_CAP.
TypeOK ==
    /\ draining \in BOOLEAN
    /\ keys \subseteq Ips
    /\ counts \in [Ips -> Nat]
    /\ inFlight \in Nat
    /\ pending \subseteq Upgrades
    /\ upc \in [Upgrades -> UpgradePcs]
    /\ ipOf \in [Upgrades -> Ips \cup {NoIp}]
    /\ verdict \in [Upgrades -> {"none", "accept", "reject", "unavailable"}]
    /\ reply \in [Upgrades -> {"none", "accept", "reject"}]
    /\ hook \in [Upgrades -> {"none", "run", "resolve", "send", "done"}]
    /\ answer \in [Upgrades -> {"none", "accept", "reject"}]
    /\ turn \in Upgrades \cup {Nobody}
    /\ stash \in Seq(Upgrades) /\ Len(stash) <= StashCap
    /\ opening \subseteq Upgrades

AuthorizingPcs == {"register", "emit", "await", "settle", "permit"}

SlotPcs == {"handshake", "reserve", "shed", "close", "open", "live", "drop"}
             \cup AuthorizingPcs

\* The upgrades that hold one of ip's slots.
Holders(ip) == {u \in Upgrades : ipOf[u] = ip /\ upc[u] \in SlotPcs}

\* The limiter admits at most maxConnectionsPerIp at a time from one address,
\* however the releases, the emptied-entry reaps and new admits interleave.
IpCap == MaxPerIp # 0 => \A ip \in Ips : Cardinality(Holders(ip)) <= MaxPerIp

\* An entry without holders is between a release and its reap.
IdleIpForgotten ==
    \A ip \in keys : \/ Holders(ip) # {}
                     \/ \E u \in Upgrades : ipOf[u] = ip /\ upc[u] = "reap"

\* The limiter's entries are exactly the addresses with connections: an
\* address without one costs nothing, its entry is gone or a release is about to
\* take it out; and no release takes out the entry a racing admit counts in.
EntriesMatchHolders ==
    /\ IdleIpForgotten
    /\ MaxPerIp # 0 => \A ip \in Ips : Holders(ip) # {} => ip \in keys

\* The pending table is bounded by maxPendingAuthorizations, whatever the
\* overshoot of the in-flight counter.
PendingBounded == Cardinality(pending) <= MaxPending

\* Every exit path of authorize frees its slot and its table entry: with no
\* upgrade inside it both are back to empty.
AuthorizeLeavesNothing ==
    (\A u \in Upgrades : upc[u] \notin {"shed"} \cup AuthorizingPcs)
      => inFlight = 0 /\ pending = {}

\* With a hook registered only the upgrades it accepted in time open: a
\* timeout racing the answer, a shed request or a reject never does.
OnlyAcceptedOpen ==
    \A u \in Upgrades : Hook /\ upc[u] \in {"open", "live"} => answer[u] = "accept"

\* A hook that never answers does not hold its upgrade: every upgrade that
\* reached the limiter opens or ends.
UpgradeSettles ==
    \A u \in Upgrades : upc[u] = "limit" ~> upc[u] \in {"live", "done"}

\* What server.ts says of the stash: an entry is consumed within a flush of
\* the accept, so it belongs to an upgrade that is still on its way to Opened.
StashIsInTransit ==
    \A i \in DOMAIN stash :
      \/ upc[stash[i]] \in AuthorizingPcs \cup {"open"}
      \/ stash[i] \in opening

-----------------------------------------------------------------------------
(* The inductive invariant behind the safety properties.                   *)

\* A slot count is the number of its holders; without an entry it is zero.
CountsExact ==
    /\ MaxPerIp # 0 => \A ip \in Ips : counts[ip] = Cardinality(Holders(ip))
    /\ MaxPerIp = 0 => keys = {}
    /\ \A ip \in Ips : ip \notin keys => counts[ip] = 0

CapRespected == MaxPerIp # 0 => \A ip \in Ips : counts[ip] <= MaxPerIp

Authorizing == {u \in Upgrades : upc[u] \in AuthorizingPcs}

Counted == {u \in Upgrades : upc[u] \in {"shed"} \cup AuthorizingPcs}

\* in_flight counts the upgrades inside authorize, the ones being shed too;
\* those that got past the test are within the bound.
InFlightExact ==
    /\ inFlight = Cardinality(Counted)
    /\ Cardinality(Authorizing) <= MaxPending
    /\ pending \subseteq {u \in Upgrades : upc[u] \in {"emit", "await", "settle"}}

BeforeAwait == {"new", "limit", "handshake", "reserve", "shed", "register", "emit"}

\* What is known of one upgrade.
UpgradeFacts ==
    \A u \in Upgrades :
      /\ upc[u] # "new" => ipOf[u] \in Ips
      /\ upc[u] \in BeforeAwait => reply[u] = "none" /\ verdict[u] = "none"
      /\ reply[u] # "none" => hook[u] = "done" /\ reply[u] = answer[u]
      /\ verdict[u] = "accept" => hook[u] = "done" /\ answer[u] = "accept"
      /\ Hook /\ upc[u] \in {"open", "live"} => verdict[u] = "accept"
      /\ upc[u] = "reap" => MaxPerIp # 0

IInv == /\ TypeOK
        /\ CountsExact
        /\ CapRespected
        /\ IdleIpForgotten
        /\ InFlightExact
        /\ UpgradeFacts
=============================================================================
