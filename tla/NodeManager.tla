---------------------------- MODULE NodeManager ----------------------------
(***************************************************************************)
(* The node lifecycle manager, internal/node/manager.go.                   *)
(*                                                                         *)
(* One manager starts, stops and restarts one node process.  Its methods   *)
(* are called by the Callers (the CLI's goroutine, the orchestrator, the   *)
(* API), and by the goroutine that scheduleAutoRestart leaves behind after *)
(* a crash.  Every successful Start also leaves a monitor goroutine        *)
(* blocked in cmd.Wait.  A critical section of stateMutex is one action;   *)
(* between two critical sections, and at every unlocked read of the        *)
(* manager's fields, the other goroutines may run.                         *)
(*                                                                         *)
(* Arguments, metrics, logging, environment and log file are left out:     *)
(* no property depends on them.  The node has no children of its own, so   *)
(* that the process group is empty once the node is reaped.                *)
(***************************************************************************)
EXTENDS Naturals, FiniteSets

CONSTANTS
  Callers,           \* goroutines that call the manager's methods
  Methods,           \* the methods they call
  MaxProcs,          \* bound: OS processes the model ever starts
  MaxCalls,          \* bound: calls the callers make altogether
  MaxRestarts,       \* config.MaxRestarts
  RestartOnFailure,  \* config.RestartOnFailure
  TimersSlow         \* TRUE: a sleep or a timer of the manager (100 ms to
                     \* 30 s) outlasts every goroutine that is ready to run
                     \* and every process that has been sent SIGKILL.
                     \* FALSE: no timing assumption at all.

Procs   == 1..MaxProcs        \* processes in the order they are started
NoProc  == 0                  \* a nil m.cmd / m.process
Threads == Callers \cup Procs \* a process names the auto-restart goroutine
                              \* that its crash may leave behind

ASSUME NodeAssumption ==
  /\ Methods \subseteq {"start", "stop", "restart", "close"}
  /\ MaxProcs \in Nat
  /\ MaxCalls \in Nat
  /\ MaxRestarts \in Nat
  /\ RestartOnFailure \in BOOLEAN
  /\ TimersSlow \in BOOLEAN
  /\ Callers \cap Nat = {}

VARIABLES
  state,        \* m.state
  proc,         \* m.cmd and m.process: always set and cleared together
  doneCh,       \* m.doneCh: 0 when nil, else the number of the channel
  chans,        \* channels made so far
  closedCh,     \* channels closed so far
  restartCount, \* m.restartCount
  ctxDone,      \* m.ctx is cancelled
  nprocs,       \* processes started so far
  os,           \* what the kernel knows of each process
  pc, op,       \* per thread: next step, and the method it executes
  own,          \* per thread: the process Start made or Stop is stopping
  ch,           \* per thread: the doneCh that waitForShutdown selects on
  calls,        \* calls made so far
  mon, mproc,   \* per process: its monitor goroutine and the cmd it waits on
  reapers,      \* reapZombies goroutines that have not run yet
  panicked      \* a goroutine dereferenced a nil m.process

doneVars == <<doneCh, chans, closedCh>>
mgrVars  == <<state, proc, doneVars, restartCount, ctxDone>>
osVars   == <<nprocs, os, reapers>>
monVars  == <<mon, mproc>>
locals   == <<own, ch>>
vars     == <<mgrVars, osVars, monVars, pc, op, locals, calls, panicked>>

States   == {"Stopped", "Running", "Stopping", "Error", "Crashed"}
OSStates == {"unborn", "running", "killed", "zombie", "gone"}
Ops      == {"none", "start", "stop", "restart", "close"}
PCs      == {"idle", "start", "startMonitoring", "startLog", "stop", "signal",
             "await", "waiting", "exitWait", "cleanup", "restart", "reset",
             "delay", "count", "close", "closeCheck", "sleep"}
MonPCs   == {"none", "read", "wait", "handle", "done"}

TypeOK ==
  /\ state \in States
  /\ proc \in Procs \cup {NoProc}
  /\ chans \in Nat
  /\ doneCh \in 0..chans
  /\ closedCh \subseteq 1..chans
  /\ restartCount \in Nat
  /\ ctxDone \in BOOLEAN
  /\ nprocs \in 0..MaxProcs
  /\ os \in [Procs -> OSStates]
  /\ reapers \in Nat
  /\ pc \in [Threads -> PCs]
  /\ op \in [Threads -> Ops]
  /\ own \in [Threads -> Procs \cup {NoProc}]
  /\ ch \in [Threads -> 0..chans]
  /\ calls \in 0..MaxCalls
  /\ mon \in [Procs -> MonPCs]
  /\ mproc \in [Procs -> Procs \cup {NoProc}]
  /\ panicked \in BOOLEAN

Init ==
  /\ state = "Stopped" /\ proc = NoProc
  /\ doneCh = 1 /\ chans = 1 /\ closedCh = {}
  /\ restartCount = 0 /\ ctxDone = FALSE
  /\ nprocs = 0 /\ os = [p \in Procs |-> "unborn"] /\ reapers = 0
  /\ pc = [t \in Threads |-> "idle"] /\ op = [t \in Threads |-> "none"]
  /\ own = [t \in Threads |-> NoProc] /\ ch = [t \in Threads |-> 0]
  /\ calls = 0
  /\ mon = [p \in Procs |-> "none"] /\ mproc = [p \in Procs |-> NoProc]
  /\ panicked = FALSE

-----------------------------------------------------------------------------
(* Helpers.                                                                *)

Goto(t, l)   == pc' = [pc EXCEPT ![t] = l]
Alive(p)     == os[p] \in {"running", "killed"}
Exited(p)    == os[p] \in {"zombie", "gone"}

\* The method that thread t executes returns to its caller, or goes on, and
\* its local variables go out of scope.
Return(t)      == /\ Goto(t, "idle")
                  /\ op' = [op EXCEPT ![t] = "none"]
                  /\ own' = [own EXCEPT ![t] = NoProc]
                  /\ ch' = [ch EXCEPT ![t] = 0]
Continue(t, l) == Goto(t, l) /\ UNCHANGED <<op, locals>>

\* Frames: a step of a method that leaves the manager, or all but its state
\* and process, alone; a step of the environment.
KeepsRest    == UNCHANGED <<osVars, monVars, calls, panicked>>
KeepsManager == UNCHANGED mgrVars /\ KeepsRest
KeepsDone    == UNCHANGED <<doneVars, restartCount, ctxDone>> /\ KeepsRest
KeepsThreads == UNCHANGED <<pc, op, locals, calls, panicked>>

\* Mutant: the closed channel is left in m.doneCh.
CloseDone_KeepsField == /\ closedCh' = closedCh \cup ({doneCh} \ {0})
                        /\ UNCHANGED <<doneCh, chans>>

\* close(m.doneCh); m.doneCh = nil, guarded by m.doneCh != nil.
CloseDone == /\ closedCh' = closedCh \cup ({doneCh} \ {0})
             /\ doneCh' = 0
             /\ UNCHANGED chans

\* Nothing can happen without a timer: every goroutine is blocked or sleeps,
\* and no process is about to die of SIGKILL.
Blocked(t) == \/ pc[t] \in {"idle", "sleep", "delay", "exitWait"}
              \/ pc[t] = "waiting" /\ ch[t] \notin closedCh
Quiet ==
  /\ \A t \in Threads : Blocked(t)
  /\ \A p \in Procs :
       /\ mon[p] \notin {"read", "handle"}
       /\ mon[p] = "wait" => ~ Exited(mproc[p])
       /\ os[p] # "killed"
       /\ ctxDone => os[p] # "running"
TimerFires == TimersSlow => Quiet

-----------------------------------------------------------------------------
(* A caller enters one of the manager's methods.                           *)

Call(c) == \E o \in Methods :
  /\ pc[c] = "idle"
  /\ calls < MaxCalls
  /\ calls' = calls + 1
  /\ Goto(c, o)
  /\ op' = [op EXCEPT ![c] = o]
  /\ UNCHANGED <<mgrVars, osVars, monVars, locals, panicked>>

(* Start.  Its critical section either refuses, fails (no binary, or       *)
(* cmd.Start fails, as it must once m.ctx is cancelled) or starts.         *)

StartRefused(t) ==
  /\ pc[t] = "start"
  /\ state # "Stopped"
  /\ Return(t)
  /\ KeepsManager

\* Mutant: a restart that fails is tried again.
StartFails_Retries(t) ==
  /\ pc[t] = "start"
  /\ state = "Stopped"
  /\ state' = "Error"
  /\ IF op[t] = "restart" THEN Continue(t, "restart") ELSE Return(t)
  /\ UNCHANGED proc /\ KeepsDone

StartFails(t) ==
  /\ pc[t] = "start"
  /\ state = "Stopped"
  /\ state' = "Error"
  /\ Return(t)
  /\ UNCHANGED proc /\ KeepsDone

\* What Start does once its checks have passed.
Launch(t) ==
  /\ nprocs < MaxProcs
  /\ nprocs' = nprocs + 1
  /\ os' = [os EXCEPT ![nprocs + 1] = "running"]
  /\ proc' = nprocs + 1
  /\ state' = "Running"
  /\ own' = [own EXCEPT ![t] = nprocs + 1]
  /\ Goto(t, "startMonitoring")
  /\ UNCHANGED <<doneVars, restartCount, ctxDone, reapers, monVars, op, ch,
                 calls, panicked>>

\* Mutant: only a running node refuses Start.
StartProcess_WhileStopping(t) ==
  pc[t] = "start" /\ state # "Running" /\ ~ ctxDone /\ Launch(t)

StartProcess(t) ==
  pc[t] = "start" /\ state = "Stopped" /\ ~ ctxDone /\ Launch(t)

\* go m.monitor(), after the lock is released.
StartMonitoring(t) ==
  /\ pc[t] = "startMonitoring"
  /\ mon' = [mon EXCEPT ![own[t]] = "read"]
  /\ Continue(t, "startLog")
  /\ UNCHANGED <<mgrVars, osVars, mproc, calls, panicked>>

\* The log call reads m.process.Pid without the lock.
StartLog(t) ==
  /\ pc[t] = "startLog"
  /\ panicked' = (proc = NoProc)
  /\ IF op[t] = "restart" THEN Continue(t, "count") ELSE Return(t)
  /\ UNCHANGED <<mgrVars, osVars, monVars, calls>>

(* Stop.                                                                   *)

StopRefused(t) ==
  /\ pc[t] = "stop"
  /\ state # "Running"
  /\ Return(t)
  /\ KeepsManager

StopBegin(t) ==
  /\ pc[t] = "stop"
  /\ state = "Running"
  /\ state' = "Stopping"
  /\ panicked' = (proc = NoProc)        \* m.process.Pid
  /\ own' = [own EXCEPT ![t] = proc]
  /\ Goto(t, "signal")
  /\ UNCHANGED <<proc, doneVars, restartCount, ctxDone, osVars, monVars, op, ch,
                 calls>>

\* SIGTERM reaches the process, or its zombie.  Once it is reaped all three
\* signals fail and Stop returns, leaving the state Stopping.
SendStopSignal(t) ==
  /\ pc[t] = "signal"
  /\ IF os[own[t]] = "gone" THEN Return(t) ELSE Continue(t, "await")
  /\ KeepsManager

\* The select statement of waitForShutdown evaluates m.doneCh, unlocked.
WaitForShutdown(t) ==
  /\ pc[t] = "await"
  /\ ch' = [ch EXCEPT ![t] = doneCh]
  /\ Goto(t, "waiting")
  /\ UNCHANGED <<op, own>> /\ KeepsManager

StoppedGracefully(t) ==
  /\ pc[t] = "waiting"
  /\ ch[t] \in closedCh
  /\ Continue(t, "cleanup")
  /\ KeepsManager

\* The grace period is over.
GraceOver(t) ==
  /\ pc[t] = "waiting"
  /\ TimerFires
  /\ Continue(t, "exitWait")
  /\ UNCHANGED <<mgrVars, nprocs, reapers, monVars, calls, panicked>>
Kill(p) == os' = IF Alive(p) THEN [os EXCEPT ![p] = "killed"] ELSE os

\* Mutant: the grace period ends without SIGKILL.
ForceKill_NoKill(t) == GraceOver(t) /\ UNCHANGED os

\* Mutant: the timer branch is taken only for a node that still lives.
ForceKill_OnlyAlive(t) == GraceOver(t) /\ Alive(own[t]) /\ Kill(own[t])

ForceKill(t) == GraceOver(t) /\ Kill(own[t])

CleanupState(t) ==
  /\ \/ pc[t] = "cleanup"
     \/ pc[t] = "exitWait" /\ TimerFires
  /\ state' = "Stopped"
  /\ proc' = NoProc
  /\ CloseDone
  /\ IF op[t] = "restart" THEN Continue(t, "delay") ELSE Return(t)
  /\ UNCHANGED <<restartCount, ctxDone>> /\ KeepsRest

(* Restart, by a caller or by an auto-restart goroutine.                   *)

RestartBegin(t) ==
  /\ pc[t] = "restart"
  /\ Continue(t, CASE state = "Running" -> "stop"
                   [] state = "Stopped" -> "delay"
                   [] OTHER             -> "reset")
  /\ KeepsManager

ResetState(t) ==
  /\ pc[t] = "reset"
  /\ state' = "Stopped"
  /\ proc' = NoProc
  /\ Continue(t, "delay")
  /\ KeepsDone

RestartDelay(t) ==
  /\ pc[t] = "delay"
  /\ TimerFires
  /\ IF doneCh = 0
       THEN chans' = chans + 1 /\ doneCh' = chans + 1
       ELSE UNCHANGED <<chans, doneCh>>
  /\ Continue(t, "start")
  /\ UNCHANGED <<state, proc, closedCh, restartCount, ctxDone>> /\ KeepsRest

\* m.restartCount++ without the lock: two of them may lose one increment.
CountRestart(t) ==
  /\ pc[t] = "count"
  /\ \/ restartCount' = restartCount + 1
     \/ /\ \E u \in Threads \ {t} : pc[u] = "count"
        /\ UNCHANGED restartCount
  /\ Return(t)
  /\ UNCHANGED <<state, proc, doneVars, ctxDone>> /\ KeepsRest

(* Close.                                                                  *)

CloseCancel(t) ==
  /\ pc[t] = "close"
  /\ ctxDone' = TRUE
  /\ Continue(t, "closeCheck")
  /\ UNCHANGED <<state, proc, doneVars, restartCount>> /\ KeepsRest

CloseCheck(t) ==
  /\ pc[t] = "closeCheck"
  /\ IF state = "Running" THEN Continue(t, "stop") ELSE Return(t)
  /\ KeepsManager

(* The monitor goroutine of process p.                                     *)

MonitorRead(p) ==
  /\ mon[p] = "read"
  /\ mproc' = [mproc EXCEPT ![p] = proc]
  /\ mon' = [mon EXCEPT ![p] = IF proc = NoProc THEN "done" ELSE "wait"]
  /\ UNCHANGED <<mgrVars, osVars>> /\ KeepsThreads

MonitorWait(p) ==
  /\ mon[p] = "wait"
  /\ Exited(mproc[p])
  /\ os' = [os EXCEPT ![mproc[p]] = "gone"]
  /\ reapers' = reapers + 1             \* go m.reapZombies()
  /\ mon' = [mon EXCEPT ![p] = "handle"]
  /\ UNCHANGED <<mgrVars, nprocs, mproc>> /\ KeepsThreads

MonitorDone(p) == /\ mon' = [mon EXCEPT ![p] = "done"]
                  /\ mproc' = [mproc EXCEPT ![p] = NoProc]

MonitorIgnores(p) ==
  /\ mon[p] = "handle"
  /\ state = "Stopping"
  /\ MonitorDone(p)
  /\ UNCHANGED <<mgrVars, osVars>> /\ KeepsThreads

\* An exit that the manager did not ask for closes doneCh; the state and, for
\* an auto-restart, the goroutine of scheduleAutoRestart follow.
ShouldAutoRestart == RestartOnFailure /\ restartCount < MaxRestarts
Crash(p) ==
  /\ mon[p] = "handle"
  /\ state # "Stopping"
  /\ CloseDone
  /\ MonitorDone(p)
  /\ IF ShouldAutoRestart THEN Goto(p, "sleep") ELSE UNCHANGED pc
  /\ UNCHANGED <<restartCount, ctxDone, osVars, op, locals, calls, panicked>>
CrashState == IF ShouldAutoRestart THEN "Crashed" ELSE "Error"

\* Mutant: no StateError when the restarts are used up.
HandleProcessCrash_NoError(p) == Crash(p) /\ state' = "Crashed" /\ UNCHANGED proc

HandleProcessCrash(p) == Crash(p) /\ state' = CrashState /\ UNCHANGED proc

\* The goroutine of scheduleAutoRestart wakes up and calls Restart.
AutoRestart(p) ==
  /\ pc[p] = "sleep"
  /\ TimerFires
  /\ Goto(p, "restart")
  /\ op' = [op EXCEPT ![p] = "restart"]
  /\ UNCHANGED locals /\ KeepsManager

ReapZombies ==
  /\ reapers > 0
  /\ reapers' = reapers - 1
  /\ os' = [p \in Procs |-> IF os[p] = "zombie" THEN "gone" ELSE os[p]]
  /\ UNCHANGED <<mgrVars, nprocs, monVars>> /\ KeepsThreads

(* The operating system and os/exec.                                       *)

OSChange == UNCHANGED <<mgrVars, nprocs, reapers, monVars>> /\ KeepsThreads

\* The node exits: by itself, because of SIGTERM, or killed.
ProcessExit(p) ==
  Alive(p) /\ os' = [os EXCEPT ![p] = "zombie"] /\ OSChange

\* exec.CommandContext kills the process once m.ctx is cancelled.
ContextKill(p) ==
  ctxDone /\ os[p] = "running" /\ Kill(p) /\ OSChange

-----------------------------------------------------------------------------

Start(t)   == StartRefused(t) \/ StartFails(t) \/ StartProcess(t)
              \/ StartMonitoring(t) \/ StartLog(t)
Stop(t)    == StopRefused(t) \/ StopBegin(t) \/ SendStopSignal(t)
              \/ WaitForShutdown(t) \/ StoppedGracefully(t) \/ ForceKill(t)
              \/ CleanupState(t)
Restart(t) == RestartBegin(t) \/ ResetState(t) \/ RestartDelay(t)
              \/ CountRestart(t)
Close(t)   == CloseCancel(t) \/ CloseCheck(t)
Step(t)    == Start(t) \/ Stop(t) \/ Restart(t) \/ Close(t)

Monitor(p) == MonitorRead(p) \/ MonitorWait(p) \/ MonitorIgnores(p)
              \/ HandleProcessCrash(p)

\* A panic takes the whole program down.
Next ==
  \/ ~ panicked /\ \E c \in Callers : Call(c)
  \/ ~ panicked /\ \E t \in Threads : Step(t)
  \/ ~ panicked /\ \E p \in Procs : Monitor(p)
  \/ ~ panicked /\ \E p \in Procs : AutoRestart(p)
  \/ ~ panicked /\ ReapZombies
  \/ ~ panicked /\ \E p \in Procs : ContextKill(p)
  \/ \E p \in Procs : ProcessExit(p)

Spec == Init /\ [][Next]_vars

\* Goroutines are scheduled, timers fire, SIGKILL kills.  Nothing obliges a
\* caller to call or a node to exit by itself.
Fairness ==
  /\ \A t \in Threads : WF_vars(~ panicked /\ Step(t))
  /\ \A p \in Procs : /\ WF_vars(~ panicked /\ Monitor(p))
                       /\ WF_vars(~ panicked /\ AutoRestart(p))
                       /\ WF_vars(~ panicked /\ ContextKill(p))
                       /\ WF_vars(os[p] = "killed" /\ ProcessExit(p))
  /\ WF_vars(~ panicked /\ ReapZombies)

FairSpec == Spec /\ Fairness

-----------------------------------------------------------------------------
(* Properties that hold whoever calls, and however slowly goroutines run.  *)

\* Stop dereferences m.process, and IsHealthy and GetStatus report on it, on
\* the strength of the state alone: while the manager says that the node runs
\* or is being stopped, it has a process.
StateHasProcess == state \in {"Running", "Stopping"} => proc # NoProc

\* m.doneCh is closed by Stop, by the crash handler, and replaced by Restart,
\* in any order: the channel the field holds is never a closed one, so no
\* close(m.doneCh) can panic.
DoneChOpen == doneCh \notin closedCh

\* However Start, Restart, reset and auto-restart interleave, the process that
\* the manager would signal or report is the one started last, not an older.
NewestProcess == proc \in {NoProc, nprocs}

\* In every interleaving, then, the fields that Stop, the crash handler and the
\* auto-restart rely on without looking belong together.
ManagerInv == StateHasProcess /\ DoneChOpen /\ NewestProcess

NodeInv == TypeOK /\ ManagerInv

\* However the critical sections interleave, the state moves as the abstract
\* NodeService says: in particular no crash handler overrides a Stop in
\* progress, and no second node is started over a running or stopping one.
Service == INSTANCE NodeService
IsNodeService == Service!ServiceSpec

\* Stop comes back: doneCh may never be closed for it, the timer always is.
InStop(t) == pc[t] \in {"stop", "signal", "await", "waiting", "exitWait", "cleanup"}
StopReturns == \A t \in Threads : InStop(t) ~> ~ InStop(t)


-----------------------------------------------------------------------------
(* Properties of a manager whose callers start, stop and close it, and     *)
(* whose timers outlast ready goroutines.                                  *)

\* Two nodes on one data directory (and one validator key) never run at once,
\* though a node, its monitor and an auto-restart may overlap the next Start.
AtMostOneNode == \A p, q \in Procs : Alive(p) /\ Alive(q) => p = q

\* A running node that nobody has killed is the one the manager knows, and the
\* manager does not call it stopped, failed or crashed.
NoOrphan == \A p \in Procs :
  os[p] = "running" => proc = p /\ state \in {"Running", "Stopping"}

\* The log line of Start dereferences m.process, with no lock, and finds it: neither
\* a Stop nor an auto-restart comes between.
FoundToLog == ~ panicked

\* No node is ever lost sight of: not by Stop's timers, by the crash handler, nor
\* by an auto-restart.
OneKnownNode == AtMostOneNode /\ NoOrphan /\ FoundToLog

\* The monitor of a node that exits reaches the manager, and a crash is either
\* final (Error) or somebody is going to restart the node: the manager does not
\* stay Running without a node, nor Crashed.
ExitIsHandled ==
  /\ (state = "Running" /\ proc # NoProc /\ Exited(proc)) ~> state # "Running"
  /\ state = "Crashed" ~> state # "Crashed"

\* Close at any time, in a Stop, a Start or the auto-restart's delay, brings the manager
\* to rest for good: whatever is called then, no node, no monitor and no auto-restart is
\* left, and the manager neither calls a node running nor promises its restart.
AtRest ==
  /\ \A p \in Procs : ~ Alive(p) /\ mon[p] \in {"none", "done"} /\ pc[p] = "idle"
  /\ state \notin {"Running", "Crashed"}
ClosedComesToRest == ctxDone ~> []AtRest

-----------------------------------------------------------------------------
(* What the documentation says and the code does not do.                   *)

\* state.go:14, "StateStopped indicates the node is not running": once every
\* method has returned, a manager in that state has no node running.
StoppedIsNotRunning ==
  state = "Stopped" /\ (\A t \in Threads : pc[t] = "idle")
    => \A p \in Procs : os[p] # "running"

\* manager.go:424, "Wait waits for the node to exit": the channel that Wait
\* returns while a node runs is one that its exit will close.
WaitObservesExit == state = "Running" => doneCh # 0

\* manager.go:274, "waits for the process to exit gracefully": when the monitor
\* has seen the node exit and is done, the Stop that waits for it knows.
GracefulExitSeen == \A t \in Threads :
  pc[t] = "waiting" /\ mon[own[t]] = "done" => ch[t] \in closedCh

\* manager.go:233, "Stop stops the node gracefully": a Stop that has begun
\* leaves the manager in a state from which the node can be started.
StoppingEnds == state = "Stopping" ~> state # "Stopping"
=============================================================================
