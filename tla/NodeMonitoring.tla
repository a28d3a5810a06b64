--------------------------- MODULE NodeMonitoring ---------------------------
(***************************************************************************)
(* What watches the node: the health checker (internal/monitor/health.go   *)
(* and checks.go), started and stopped by the node manager, and the status *)
(* queries of the manager, with its stateMutex held as a lock.             *)
(*                                                                         *)
(* One checker serves all the runs of the node.  Each Start of the manager *)
(* leaves a checking loop and a monitorHealth goroutine; the loops share   *)
(* the status channel.  The process side of the manager is NodeManager;    *)
(* here a run of the node only starts, crashes and is stopped.             *)
(***************************************************************************)
EXTENDS Integers, Sequences, FiniteSets

CONSTANTS
  Queries,      \* goroutines that call GetStatus
  Answers,      \* how the node may answer the checks
  MinPeers,     \* DefaultMinPeers
  MaxRuns       \* bound: starts of the node

ASSUME MonitoringAssumption ==
  /\ MaxRuns \in Nat /\ MinPeers \in Nat
  /\ Answers \subseteq [endpoint : {"down", "refuses", "error", "answers"},
                        peers : Nat \cup {-1}, sync : {"no", "yes", "unknown"}]

Runs     == 1..MaxRuns
Verdicts == {"healthy", "unhealthy"}
NoStatus == "none"

VARIABLES
  answer,        \* how the node answers now
  nodeState,     \* m.state
  runs,          \* starts so far
  manager,       \* what the goroutine that drives the manager does next
  waiting,       \* the writers blocked in stateMutex.Lock
  query,         \* per GetStatus: "idle", "outer": has the read lock, "inner": GetVersion too
  checkLoop,     \* per run: its loop's next check, and the verdict so far
  stopped,       \* h.stopped; h.ctx is cancelled right after
  cancelled,     \* h.ctx
  lastStatus,
  statusCh,      \* the status in the channel of capacity 1
  statusClosed,
  heard,         \* the last status that a monitorHealth goroutine received
  healthPanic    \* the channel was closed twice, or sent on when closed

lockVars   == <<manager, waiting, query>>
healthVars == <<checkLoop, stopped, cancelled, lastStatus, statusCh, statusClosed, heard, healthPanic>>
monitoringVars == <<answer, nodeState, runs, lockVars, healthVars>>

Checks == <<"process", "rpc_endpoint", "peer_count", "syncing">>
Update == 5
Send   == 6
Wait   == 7
NoLoop == [at |-> 0, ok |-> TRUE]

MonitoringInit ==
  /\ answer \in Answers /\ nodeState = "Stopped" /\ runs = 0
  /\ manager = "idle" /\ waiting = {} /\ query = [q \in Queries |-> "idle"]
  /\ checkLoop = [r \in Runs |-> NoLoop]
  /\ stopped = FALSE /\ cancelled = FALSE
  /\ lastStatus = NoStatus /\ statusCh = NoStatus /\ statusClosed = FALSE
  /\ heard = NoStatus /\ healthPanic = FALSE

-----------------------------------------------------------------------------
(* The checks of checks.go, of a node that gives answer a.                 *)

\* RPCHealthCheck: status 200 and no error in the body.
RPCHealthy(a) == a.endpoint = "answers"

\* PeerCountCheck does not look at the HTTP status, only for a result; -1 is
\* a result that is no number.
EnoughPeers(a) == a.endpoint = "answers" /\ a.peers >= MinPeers

\* SyncingCheck: the result must be the boolean false.
Synced(a) == a.endpoint = "answers" /\ a.sync = "no"

\* ProcessCheck has no PID file: it passes always.  executeCheck derives the
\* context of a check from h.ctx: the requests fail once that is cancelled.
CheckPasses(check, a) ==
  CASE check = "process"      -> TRUE
    [] check = "rpc_endpoint" -> ~ cancelled /\ RPCHealthy(a)
    [] check = "peer_count"   -> ~ cancelled /\ EnoughPeers(a)
    [] check = "syncing"      -> ~ cancelled /\ Synced(a)

NodeHealthy(a) == RPCHealthy(a) /\ EnoughPeers(a) /\ Synced(a)

\* External: the node gains and loses peers, syncs, stops answering.
NodeAnswers ==
  /\ \E a \in Answers \ {answer} : answer' = a
  /\ UNCHANGED <<nodeState, runs, lockVars, healthVars>>

-----------------------------------------------------------------------------
(* The manager's methods, one critical section of stateMutex at a time.    *)

Ask(w) == waiting' = waiting \cup {w}

\* Lock returns: no reader holds the lock any more.
Locked(w) == /\ w \in waiting /\ \A q \in Queries : query[q] = "idle"
             /\ waiting' = waiting \ {w}

NodeCall(state, next) ==
  /\ manager = "idle" /\ nodeState = state
  /\ manager' = next /\ Ask("manager")
  /\ UNCHANGED <<answer, nodeState, runs, query, healthVars>>

CallStart   == runs < MaxRuns /\ NodeCall("Stopped", "start")
CallStop    == NodeCall("Running", "stop")
\* scheduleAutoRestart: Restart begins with resetState.
CallRestart == runs < MaxRuns /\ NodeCall("Crashed", "reset")

StartSection ==
  /\ manager = "start" /\ Locked("manager")
  /\ nodeState' = "Running" /\ manager' = "startMonitoring"
  /\ UNCHANGED <<answer, runs, query, healthVars>>

\* startMonitoring: the loop of the health checker, and its reader.
StartMonitoring ==
  /\ manager = "startMonitoring" /\ manager' = "idle"
  /\ runs' = runs + 1
  /\ checkLoop' = [checkLoop EXCEPT ![runs + 1] = [at |-> 1, ok |-> TRUE]]
  /\ UNCHANGED <<answer, nodeState, waiting, query, stopped, cancelled, lastStatus, statusCh,
                 statusClosed, heard, healthPanic>>

\* Stop finds the node running, or crashed meanwhile.
StopSection ==
  /\ manager = "stop" /\ Locked("manager")
  /\ \/ nodeState = "Running" /\ nodeState' = "Stopping" /\ manager' = "stopMonitoring"
     \/ nodeState # "Running" /\ manager' = "idle" /\ UNCHANGED nodeState
  /\ UNCHANGED <<answer, runs, query, healthVars>>

\* healthChecker.Stop: the flag, then the context.
HealthStop ==
  /\ manager = "stopMonitoring"
  /\ \/ ~ stopped /\ stopped' = TRUE /\ UNCHANGED <<cancelled, manager, waiting>>
     \/ stopped /\ cancelled' = TRUE /\ manager' = "cleanup" /\ Ask("manager") /\ UNCHANGED stopped
  /\ UNCHANGED <<answer, nodeState, runs, query, checkLoop, lastStatus, statusCh, statusClosed,
                 heard, healthPanic>>

CleanupSection ==
  /\ manager \in {"cleanup", "reset"} /\ Locked("manager")
  /\ nodeState' = "Stopped" /\ manager' = "idle"
  /\ UNCHANGED <<answer, runs, query, healthVars>>

\* The node exits while it runs: monitor waits for the lock, and finds it
\* being stopped, or handles the crash.
NodeExits ==
  /\ nodeState = "Running" /\ manager # "startMonitoring" /\ "monitor" \notin waiting
  /\ Ask("monitor")
  /\ UNCHANGED <<answer, nodeState, runs, manager, query, healthVars>>

MonitorSection ==
  /\ Locked("monitor")
  /\ nodeState' = IF nodeState = "Running" THEN "Crashed" ELSE nodeState
  /\ UNCHANGED <<answer, runs, manager, query, healthVars>>

-----------------------------------------------------------------------------
(* GetStatus.  A blocked writer keeps new readers out, also one who reads  *)
(* already.                                                                *)

RLock(q, from, to) ==
  /\ query[q] = from /\ waiting = {}
  /\ query' = [query EXCEPT ![q] = to]
  /\ UNCHANGED <<answer, nodeState, runs, manager, waiting, healthVars>>

GetStatus(q) == RLock(q, "idle", "outer")

\* GetVersion takes the lock for reading once more.
GetVersion(q) == nodeState = "Running" /\ RLock(q, "outer", "inner")

StatusReturns(q) ==
  /\ query[q] = "inner" \/ (query[q] = "outer" /\ nodeState # "Running")
  /\ query' = [query EXCEPT ![q] = "idle"]
  /\ UNCHANGED <<answer, nodeState, runs, manager, waiting, healthVars>>

-----------------------------------------------------------------------------
(* The loops of the health checker.                                        *)

Verdict(ok) == IF ok THEN "healthy" ELSE "unhealthy"

\* executeCheck, each check at its own time.
ExecuteCheck(r) ==
  /\ checkLoop[r].at \in DOMAIN Checks
  /\ checkLoop' = [checkLoop EXCEPT ![r].at = @ + 1,
                     ![r].ok = @ /\ CheckPasses(Checks[checkLoop[r].at], answer)]
  /\ UNCHANGED <<answer, nodeState, runs, lockVars, stopped, cancelled, lastStatus, statusCh,
                 statusClosed, heard, healthPanic>>

UpdateStatus(r) ==
  /\ checkLoop[r].at = Update
  /\ checkLoop' = [checkLoop EXCEPT ![r].at = Send]
  /\ lastStatus' = Verdict(checkLoop[r].ok)
  /\ UNCHANGED <<answer, nodeState, runs, lockVars, stopped, cancelled, statusCh, statusClosed,
                 heard, healthPanic>>

\* sendStatusUpdate, under stopMutex: skipped when the channel is full.
SendStatusUpdate(r) ==
  /\ checkLoop[r].at = Send
  /\ checkLoop' = [checkLoop EXCEPT ![r].at = Wait]
  /\ IF stopped \/ statusCh # NoStatus THEN UNCHANGED <<statusCh, healthPanic>>
     ELSE IF statusClosed THEN healthPanic' = TRUE /\ UNCHANGED statusCh
     ELSE statusCh' = Verdict(checkLoop[r].ok) /\ UNCHANGED healthPanic
  /\ UNCHANGED <<answer, nodeState, runs, lockVars, stopped, cancelled, lastStatus, statusClosed,
                 heard>>

\* Mutant: the next round goes on with the verdict of the last.
Tick_KeepsVerdict(r) ==
  /\ checkLoop[r].at = Wait
  /\ checkLoop' = [checkLoop EXCEPT ![r].at = 1]
  /\ UNCHANGED <<answer, nodeState, runs, lockVars, stopped, cancelled, lastStatus, statusCh,
                 statusClosed, heard, healthPanic>>

\* The ticker of run; it may be chosen although the context is done as well.
Tick(r) ==
  /\ checkLoop[r].at = Wait
  /\ checkLoop' = [checkLoop EXCEPT ![r] = [at |-> 1, ok |-> TRUE]]
  /\ UNCHANGED <<answer, nodeState, runs, lockVars, stopped, cancelled, lastStatus, statusCh,
                 statusClosed, heard, healthPanic>>

\* Mutant: whoever leaves closes the channel.
LoopEnds_Closes(r) ==
  /\ checkLoop[r].at = Wait /\ cancelled
  /\ checkLoop' = [checkLoop EXCEPT ![r] = NoLoop]
  /\ statusClosed' = TRUE /\ healthPanic' = (healthPanic \/ statusClosed)
  /\ UNCHANGED <<answer, nodeState, runs, lockVars, stopped, cancelled, lastStatus, statusCh, heard>>

\* The context is done: cleanupOnExit closes the channel unless it was Stop.
LoopEnds(r) ==
  /\ checkLoop[r].at = Wait /\ cancelled
  /\ checkLoop' = [checkLoop EXCEPT ![r] = NoLoop]
  /\ statusClosed' = (statusClosed \/ ~ stopped)
  /\ healthPanic' = (healthPanic \/ (~ stopped /\ statusClosed))
  /\ UNCHANGED <<answer, nodeState, runs, lockVars, stopped, cancelled, lastStatus, statusCh, heard>>

\* A monitorHealth goroutine, one per run: they all receive from the channel.
MonitorHealth ==
  /\ runs > 0 /\ statusCh # NoStatus
  /\ heard' = statusCh /\ statusCh' = NoStatus
  /\ UNCHANGED <<answer, nodeState, runs, lockVars, checkLoop, stopped, cancelled, lastStatus,
                 statusClosed, healthPanic>>

Loop(r)    == ExecuteCheck(r) \/ UpdateStatus(r) \/ SendStatusUpdate(r) \/ Tick(r)
Manager    == \/ StartSection \/ StartMonitoring \/ StopSection \/ HealthStop \/ CleanupSection
              \/ MonitorSection
Query(q)   == GetVersion(q) \/ StatusReturns(q)

MonitoringNext ==
  \/ NodeAnswers \/ NodeExits \/ CallStart \/ CallStop \/ CallRestart
  \/ Manager \/ MonitorHealth
  \/ \E r \in Runs : Loop(r) \/ LoopEnds(r)
  \/ \E q \in Queries : GetStatus(q) \/ Query(q)

MonitoringSpec == MonitoringInit /\ [][MonitoringNext]_monitoringVars

\* Every goroutine that can go on does, and the ticker keeps ticking; calls,
\* crashes and the node's answers are up to the environment.
MonitoringFairness ==
  /\ WF_monitoringVars(Manager) /\ WF_monitoringVars(MonitorHealth)
  /\ \A r \in Runs : WF_monitoringVars(Loop(r)) /\ SF_monitoringVars(LoopEnds(r))
  /\ \A q \in Queries : WF_monitoringVars(Query(q))

MonitoringFairSpec == MonitoringSpec /\ MonitoringFairness

-----------------------------------------------------------------------------
(* Properties.                                                             *)

MonitoringTypeOK ==
  /\ answer \in Answers /\ nodeState \in {"Stopped", "Running", "Stopping", "Crashed"}
  /\ runs \in 0..MaxRuns /\ waiting \subseteq {"manager", "monitor"}
  /\ query \in [Queries -> {"idle", "outer", "inner"}]
  /\ checkLoop \in [Runs -> [at : 0..Wait, ok : BOOLEAN]]
  /\ {lastStatus, statusCh, heard} \subseteq Verdicts \cup {NoStatus}
  /\ stopped \in BOOLEAN /\ cancelled \in BOOLEAN /\ statusClosed \in BOOLEAN

\* After a crash two loops share the channel and end together: none closes it
\* twice, none sends on it when it is closed (stopMutex and stopped).
NoHealthPanic == ~ healthPanic

MonitoringInv == MonitoringTypeOK /\ NoHealthPanic

\* While the checker runs, GetStatus and monitorHealth come to report what the
\* node is, whatever the loops of earlier runs still do: a node that stays as
\* it is gets its verdict, in both places.
HealthReported ==
  \A v \in Verdicts :
    <>[](runs > 0 /\ ~ stopped /\ Verdict(NodeHealthy(answer)) = v)
      => <>[](lastStatus = v /\ heard = v)

\* Does not hold: a node that was stopped and started again and is in good
\* health is never reported so: the checker's context stays cancelled.
HealthyAfterRestart ==
  <>[](nodeState = "Running" /\ NodeHealthy(answer)) => <>[](lastStatus = "healthy")

\* Does not hold: a writer between the two RLocks of GetStatus waits for the
\* outer one, and the inner one waits for the writer.
NoLockCycle ==
  ~ \E q \in Queries : query[q] = "outer" /\ nodeState = "Running" /\ waiting # {}

\* Does not hold: Stop leaves the status channel open, for it has set stopped.
StopClosesChannel ==
  [](stopped => <>(statusClosed \/ nodeState = "Running"))
=============================================================================
