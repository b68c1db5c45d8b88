------------------------------- MODULE Drain --------------------------------
(***************************************************************************)
(* Engine::close and Engine::shutdown (engine.rs) against the connection   *)
(* tasks they end: the sweeps over the registry, the bounded waits and the *)
(* runtime teardown, which drops every task that is still there.           *)
(*                                                                         *)
(* A connection task is Connection reduced to what the drain sees of it:   *)
(* the close latch, CLOSE_GRACE, the writer that run_connection waits for, *)
(* the Closed event, the registry entry.  Registry::handles and is_empty   *)
(* lock one shard at a time, so a scan visits the connections one by one.  *)
(* Timers are ordered by their lengths: what is ready runs within a wait,  *)
(* and CLOSE_GRACE (10 s) fits in close's timeout or does not.             *)
(***************************************************************************)
EXTENDS FiniteSets

CONSTANT Conns    \* upgrade requests, each one connection if admitted

VARIABLES
    verb,       \* "close" or "shutdown"
    longTimeout, \* close's timeoutMs is longer than CLOSE_GRACE
    dpc,        \* where the verb is
    unscanned,  \* connections the scan in progress has not come to
    found,      \* those it found in the registry
    draining,   \* Gate: upgrades get 503
    accepting,  \* the accept loop runs
    registry,   \* connections with an entry
    cpc,        \* connection -> where its task is
    latch,      \* connection -> CloseSignal: "none", "graceful", "force"
    grace,      \* connection -> CLOSE_GRACE is armed
    peer,       \* connection -> "acks", "silent" or "stalled" (not reading)
    opened,     \* history: Opened was emitted
    reported,   \* history: Closed was emitted
    present,    \* history: connections with an entry when the verb began
    stragglers  \* history: connections the second sweep of close found

histVars == <<present, stragglers>>
callVars == <<verb, longTimeout>>
verbVars == <<callVars, dpc, unscanned, found, histVars>>
gateVars == <<draining, accepting>>
connVars == <<registry, cpc, latch, grace, peer, opened, reported>>
drainVars == <<verbVars, gateVars, connVars>>

DrainInit ==
    /\ verb \in {"close", "shutdown"} /\ longTimeout \in BOOLEAN
    /\ dpc = "idle"
    /\ unscanned = {} /\ found = {} /\ present = {} /\ stragglers = {}
    /\ draining = FALSE /\ accepting = TRUE
    /\ registry = {}
    /\ cpc = [c \in Conns |-> "new"]
    /\ latch = [c \in Conns |-> "none"]
    /\ grace = [c \in Conns |-> FALSE]
    /\ peer \in [Conns -> {"acks", "silent", "stalled"}]
    /\ opened = {} /\ reported = {}

Goto(c, where) == cpc' = [cpc EXCEPT ![c] = where]

-----------------------------------------------------------------------------
(* Connection tasks.                                                       *)

\* The upgrade arrives and passes the gate, or gets 503.
Connect(c) ==
    /\ cpc[c] = "new"
    /\ accepting
    /\ Goto(c, IF draining THEN "refused" ELSE "admitted")
    /\ UNCHANGED <<verbVars, gateVars, registry, latch, grace, peer, opened, reported>>

\* Authorize accepted: registry.insert.
Insert(c) ==
    /\ cpc[c] = "admitted"
    /\ Goto(c, "inserted")
    /\ registry' = registry \cup {c}
    /\ UNCHANGED <<verbVars, gateVars, latch, grace, peer, opened, reported>>

\* Authorize rejected, or the peer left.
Reject(c) ==
    /\ cpc[c] = "admitted"
    /\ Goto(c, "gone")
    /\ UNCHANGED <<verbVars, gateVars, registry, latch, grace, peer, opened, reported>>

\* Opened is emitted, the writer spawned.
Open(c) ==
    /\ cpc[c] = "inserted"
    /\ Goto(c, "open")
    /\ opened' = opened \cup {c}
    /\ UNCHANGED <<verbVars, gateVars, registry, latch, grace, peer, reported>>

\* read_loop sees the latch: CLOSE_GRACE is armed, or the loop returns.
SeeLatch(c) ==
    /\ cpc[c] = "open"
    /\ latch[c] # "none" /\ ~grace[c]
    /\ IF latch[c] = "graceful"
         THEN grace' = [grace EXCEPT ![c] = TRUE] /\ UNCHANGED cpc
         ELSE Goto(c, "ending") /\ UNCHANGED grace
    /\ UNCHANGED <<verbVars, gateVars, registry, latch, peer, opened, reported>>

\* The peer answers our close frame, or ends the connection on its own.
PeerCloses(c) ==
    /\ cpc[c] = "open"
    /\ peer[c] = "acks"
    /\ Goto(c, "ending")
    /\ UNCHANGED <<verbVars, gateVars, registry, latch, grace, peer, opened, reported>>

\* CLOSE_GRACE is over.
CloseDeadline(c) ==
    /\ cpc[c] = "open"
    /\ grace[c]
    /\ Goto(c, "ending")
    /\ UNCHANGED <<verbVars, gateVars, registry, latch, grace, peer, opened, reported>>

\* writer.await returns unless its send waits for the peer; Closed is emitted.
EmitClosed(c) ==
    /\ cpc[c] = "ending"
    /\ peer[c] # "stalled"
    /\ Goto(c, "closed")
    /\ reported' = reported \cup {c}
    /\ UNCHANGED <<verbVars, gateVars, registry, latch, grace, peer, opened>>

\* run_admitted takes the entry out.
Remove(c) ==
    /\ cpc[c] = "closed"
    /\ Goto(c, "gone")
    /\ registry' = registry \ {c}
    /\ UNCHANGED <<verbVars, gateVars, latch, grace, peer, opened, reported>>

\* The steps that wait for neither peer, hook nor timer.
Ready(c) == Open(c) \/ SeeLatch(c) \/ EmitClosed(c) \/ Remove(c)

Task(c) == Connect(c) \/ Insert(c) \/ Reject(c) \/ Ready(c) \/ PeerCloses(c) \/ CloseDeadline(c)

\* Nothing is ready to run.
Settled ==
    \A c \in Conns :
      /\ cpc[c] \notin {"inserted", "closed"}
      /\ cpc[c] = "open" => latch[c] = "none" \/ grace[c]
      /\ cpc[c] = "ending" => peer[c] = "stalled"

-----------------------------------------------------------------------------
(* The verbs.                                                              *)

Scan(where) == dpc' = where /\ unscanned' = Conns /\ found' = {}

\* close stops admitting and keeps accepting, shutdown stops accepting; both
\* go on to sweep.
Start ==
    /\ dpc = "idle"
    /\ IF verb = "close"
         THEN draining' = TRUE /\ UNCHANGED accepting
         ELSE accepting' = FALSE /\ UNCHANGED draining
    /\ Scan("sweep")
    /\ present' = registry
    /\ UNCHANGED <<callVars, stragglers, connVars>>

\* The scan gives up at the first entry it finds.
ScanOneFirst(c) ==
    /\ c \in unscanned
    /\ unscanned' = IF c \in registry THEN {} ELSE unscanned \ {c}
    /\ found' = IF c \in registry THEN found \cup {c} ELSE found
    /\ UNCHANGED <<callVars, dpc, histVars, gateVars, connVars>>

\* One shard of handles() or is_empty().
ScanOne(c) ==
    /\ c \in unscanned
    /\ unscanned' = unscanned \ {c}
    /\ found' = IF c \in registry THEN found \cup {c} ELSE found
    /\ UNCHANGED <<callVars, dpc, histVars, gateVars, connVars>>

\* initiate_close(1001): the first signal wins.
InitiateClose(c, how) ==
    /\ latch' = [latch EXCEPT ![c] = IF @ = "none" THEN how ELSE @]
    /\ UNCHANGED <<registry, cpc, grace, peer, opened, reported>>

\* The graceful sweep over the handles collected.
Sweep ==
    /\ dpc = "sweep" /\ unscanned = {}
    /\ \/ \E c \in found :
            /\ found' = found \ {c}
            /\ InitiateClose(c, "graceful")
            /\ UNCHANGED <<dpc, unscanned>>
       \/ found = {} /\ Scan("wait") /\ UNCHANGED connVars
    /\ UNCHANGED <<callVars, histVars, gateVars>>

Rest(where) == dpc' = where /\ unscanned' = {} /\ found' = {}

AfterWait == IF verb = "close" THEN Scan("force") ELSE Rest("runtime")

\* The wait polls until the registry is empty.
Poll ==
    /\ dpc = "wait" /\ unscanned = {}
    /\ IF found = {} THEN AfterWait ELSE Scan("wait")
    /\ UNCHANGED <<callVars, histVars, gateVars, connVars>>

\* The wait has no deadline.
DeadlineNever == dpc = "wait" /\ UNCHANGED drainVars

\* close's timeoutMs or shutdown's 3 s.
Deadline ==
    /\ dpc = "wait" /\ unscanned = {} /\ found # {}
    /\ Settled
    /\ longTimeout /\ verb = "close" => \A c \in Conns : cpc[c] = "open" => ~grace[c]
    /\ AfterWait
    /\ UNCHANGED <<callVars, histVars, gateVars, connVars>>

\* The force-close sweep; then the accept loop is stopped.
ForceSweep ==
    /\ dpc = "force" /\ unscanned = {}
    /\ \/ \E c \in found :
            /\ found' = found \ {c}
            /\ stragglers' = stragglers \cup {c}
            /\ InitiateClose(c, "force")
            /\ UNCHANGED <<dpc, unscanned, accepting>>
       \/ /\ found = {}
          /\ accepting' = FALSE
          /\ Scan("hard")
          /\ UNCHANGED <<stragglers, connVars>>
    /\ UNCHANGED <<callVars, present, draining>>

\* The second wait polls too ...
HardPoll ==
    /\ dpc = "hard" /\ unscanned = {}
    /\ IF found = {} THEN Rest("runtime") ELSE Scan("hard")
    /\ UNCHANGED <<callVars, histVars, gateVars, connVars>>

\* The runtime goes down at once.
HardDeadlineNow ==
    /\ dpc = "hard" /\ unscanned = {} /\ found # {}
    /\ Rest("runtime")
    /\ UNCHANGED <<callVars, histVars, gateVars, connVars>>

\* ... for 200 ms.
HardDeadline ==
    /\ dpc = "hard" /\ unscanned = {} /\ found # {}
    /\ Settled
    /\ Rest("runtime")
    /\ UNCHANGED <<callVars, histVars, gateVars, connVars>>

\* runtime.shutdown_timeout drops the tasks that are left.
Teardown ==
    /\ dpc = "runtime"
    /\ Rest("down")
    /\ accepting' = FALSE
    /\ cpc' = [c \in Conns |->
                 IF cpc[c] \in {"new", "refused", "gone"} THEN cpc[c] ELSE "dropped"]
    /\ UNCHANGED <<callVars, histVars, draining, registry, latch, grace, peer, opened, reported>>

Verb ==
    \/ Start \/ (\E c \in Conns : ScanOne(c)) \/ Sweep \/ Poll \/ Deadline
    \/ ForceSweep \/ HardPoll \/ HardDeadline \/ Teardown

Finished == dpc = "down" /\ UNCHANGED drainVars

DrainNext == (\E c \in Conns : Task(c)) \/ Verb \/ Finished

DrainSpec == DrainInit /\ [][DrainNext]_drainVars

\* The verb's thread runs, its timers fire, and ready tasks are polled; of
\* peers and hooks nothing is assumed.
DrainFairSpec ==
    /\ DrainSpec
    /\ WF_drainVars(\/ \E c \in Conns : ScanOne(c)
                    \/ Sweep \/ Poll \/ ForceSweep \/ HardPoll \/ Teardown)
    /\ SF_drainVars(Deadline) /\ SF_drainVars(HardDeadline)
    /\ \A c \in Conns : WF_drainVars(Ready(c)) /\ WF_drainVars(CloseDeadline(c))

-----------------------------------------------------------------------------
(* Properties.                                                             *)

\* Every variable has its type.
DrainTypeOK ==
    /\ verb \in {"close", "shutdown"} /\ longTimeout \in BOOLEAN
    /\ dpc \in {"idle", "sweep", "wait", "force", "hard", "runtime", "down"}
    /\ unscanned \subseteq Conns /\ found \subseteq Conns
    /\ present \subseteq Conns /\ stragglers \subseteq Conns
    /\ draining \in BOOLEAN /\ accepting \in BOOLEAN
    /\ registry \subseteq Conns
    /\ cpc \in [Conns -> {"new", "refused", "admitted", "inserted", "open", "ending",
                          "closed", "gone", "dropped"}]
    /\ latch \in [Conns -> {"none", "graceful", "force"}]
    /\ grace \in [Conns -> BOOLEAN]
    /\ peer \in [Conns -> {"acks", "silent", "stalled"}]
    /\ opened \subseteq Conns /\ reported \subseteq opened

\* A connection that heard of the drain has its Closed event out when the
\* runtime is gone: one whose first signal was the force-close always, one
\* that was asked gracefully if CLOSE_GRACE fits in the timeout; except where
\* its writer waits for a peer that does not read.
DrainReports ==
    dpc = "down" => \A c \in Conns :
      \/ latch[c] = "none"
      \/ latch[c] = "graceful" /\ ~(verb = "close" /\ longTimeout)
      \/ c \in reported
      \/ peer[c] = "stalled"

\* The sweep misses nobody: a connection with an entry when the verb began has
\* been signalled when the sweep is over, or has ended by itself.
SweepMissesNone ==
    dpc \notin {"idle", "sweep"}
      => \A c \in present : latch[c] # "none" \/ cpc[c] \in {"ending", "closed", "gone", "dropped"}

\* close and shutdown return whatever the peers and the hooks do.
VerbReturns == dpc = "sweep" ~> dpc = "down"

\* What close says of its fourth step: stragglers still open at the timeout
\* are force-closed and still reported.
StragglersReported ==
    dpc = "down" => \A c \in stragglers : c \in reported \/ peer[c] = "stalled"

\* What run_connection says: Closed is always emitted, once, at the end; so
\* even a close with time for every CLOSE_GRACE leaves no opened connection
\* unreported.
OpenedReported ==
    dpc = "down" /\ verb = "close" /\ longTimeout
      => \A c \in opened : c \in reported \/ peer[c] = "stalled"
=============================================================================
