------------------------- MODULE NodeManagerProofs -------------------------
(***************************************************************************)
(* Theorems about NodeManager, for every set of callers, every bound and   *)
(* every timing (TimersSlow TRUE or FALSE); the last, NoNodeIsLost, for    *)
(* slow timers and for callers that do not call Restart.                   *)
(***************************************************************************)
EXTENDS NodeManager, TLAPS

(* What the proofs call a step: one of the actions, with ~ panicked left   *)
(* out, or a stutter.                                                      *)
LEMMA StepCases ==
  ASSUME [Next]_vars
  PROVE  \/ \E c \in Callers : Call(c)
         \/ \E t \in Threads : Step(t)
         \/ \E p \in Procs : Monitor(p) \/ AutoRestart(p) \/ ContextKill(p)
                             \/ ProcessExit(p)
         \/ ReapZombies
         \/ UNCHANGED vars
BY DEF Next

-----------------------------------------------------------------------------
(* Type correctness.                                                       *)

LEMMA ProcsAreThreads == Procs \subseteq Threads /\ Callers \subseteq Threads
BY DEF Threads

LEMMA TypeStart ==
  ASSUME TypeOK, NEW t \in Threads, Start(t)
  PROVE  TypeOK'
<1> USE NodeAssumption DEF TypeOK, vars, mgrVars, osVars, monVars, locals, doneVars,
        Return, Continue, Goto, KeepsManager, KeepsRest, KeepsDone, States,
        OSStates, Ops, PCs, MonPCs, NoProc
<1>1. CASE StartRefused(t)  BY <1>1 DEF StartRefused
<1>2. CASE StartFails(t)    BY <1>2 DEF StartFails
<1>3. CASE StartProcess(t)
  <2>1. nprocs + 1 \in Procs /\ nprocs + 1 \in 0..MaxProcs
    BY <1>3 DEF StartProcess, Launch, Procs
  <2>2. QED  BY <1>3, <2>1 DEF StartProcess, Launch
<1>4. CASE StartMonitoring(t)  BY <1>4 DEF StartMonitoring
<1>5. CASE StartLog(t)         BY <1>5 DEF StartLog
<1>6. QED  BY <1>1, <1>2, <1>3, <1>4, <1>5 DEF Start

LEMMA TypeStop ==
  ASSUME TypeOK, NEW t \in Threads, Stop(t)
  PROVE  TypeOK'
<1> USE NodeAssumption DEF TypeOK, vars, mgrVars, osVars, monVars, locals, doneVars,
        Return, Continue, Goto, KeepsManager, KeepsRest, KeepsDone, States,
        OSStates, Ops, PCs, MonPCs, NoProc
<1>1. CASE StopRefused(t)        BY <1>1 DEF StopRefused
<1>2. CASE StopBegin(t)          BY <1>2 DEF StopBegin
<1>3. CASE SendStopSignal(t)     BY <1>3 DEF SendStopSignal
<1>4. CASE WaitForShutdown(t)    BY <1>4 DEF WaitForShutdown
<1>5. CASE StoppedGracefully(t)  BY <1>5 DEF StoppedGracefully
<1>6. CASE ForceKill(t)          BY <1>6 DEF ForceKill, GraceOver, Kill
<1>7. CASE CleanupState(t)       BY <1>7 DEF CleanupState, CloseDone
<1>8. QED
  BY <1>1, <1>2, <1>3, <1>4, <1>5, <1>6, <1>7 DEF Stop

LEMMA TypeRestart ==
  ASSUME TypeOK, NEW t \in Threads, Restart(t) \/ Close(t)
  PROVE  TypeOK'
<1> USE NodeAssumption DEF TypeOK, vars, mgrVars, osVars, monVars, locals, doneVars,
        Return, Continue, Goto, KeepsManager, KeepsRest, KeepsDone, States,
        OSStates, Ops, PCs, MonPCs, NoProc
<1>1. CASE RestartBegin(t)  BY <1>1 DEF RestartBegin
<1>2. CASE ResetState(t)    BY <1>2 DEF ResetState
<1>3. CASE RestartDelay(t)  BY <1>3 DEF RestartDelay
<1>4. CASE CountRestart(t)  BY <1>4 DEF CountRestart
<1>5. CASE CloseCancel(t)   BY <1>5 DEF CloseCancel
<1>6. CASE CloseCheck(t)    BY <1>6 DEF CloseCheck
<1>7. QED
  BY <1>1, <1>2, <1>3, <1>4, <1>5, <1>6 DEF Restart, Close

LEMMA TypeMonitor ==
  ASSUME TypeOK, NEW p \in Procs,
         Monitor(p) \/ AutoRestart(p) \/ ContextKill(p) \/ ProcessExit(p)
  PROVE  TypeOK'
<1> USE NodeAssumption, ProcsAreThreads
    DEF TypeOK, vars, mgrVars, osVars, monVars, locals, doneVars, Goto,
        KeepsManager, KeepsRest, KeepsThreads, States, OSStates, Ops, PCs,
        MonPCs, NoProc, OSChange
<1>1. CASE MonitorRead(p)     BY <1>1 DEF MonitorRead
<1>2. CASE MonitorWait(p)
  <2>1. os' \in [Procs -> OSStates]  BY <1>2 DEF MonitorWait
  <2>2. reapers' \in Nat /\ mon' \in [Procs -> MonPCs]  BY <1>2 DEF MonitorWait
  <2>3. QED  BY <1>2, <2>1, <2>2 DEF MonitorWait
<1>3. CASE MonitorIgnores(p)  BY <1>3 DEF MonitorIgnores, MonitorDone
<1>4. CASE HandleProcessCrash(p)
  BY <1>4 DEF HandleProcessCrash, Crash, CrashState, MonitorDone, CloseDone
<1>5. CASE AutoRestart(p)  BY <1>5 DEF AutoRestart
<1>6. CASE ContextKill(p)  BY <1>6 DEF ContextKill, Kill
<1>7. CASE ProcessExit(p)  BY <1>7 DEF ProcessExit
<1>8. QED
  BY <1>1, <1>2, <1>3, <1>4, <1>5, <1>6, <1>7 DEF Monitor

LEMMA TypeStep == TypeOK /\ [Next]_vars => TypeOK'
<1> SUFFICES ASSUME TypeOK, [Next]_vars PROVE TypeOK'  OBVIOUS
<1>1. CASE \E c \in Callers : Call(c)
  <2>1. PICK c \in Callers : Call(c)  BY <1>1
  <2>2. PICK o \in Methods : Call(c)!(o)  BY <2>1 DEF Call
  <2>3. c \in Threads /\ o \in PCs /\ o \in Ops
    BY ProcsAreThreads, NodeAssumption DEF PCs, Ops
  <2>4. QED
    BY <2>2, <2>3, NodeAssumption DEF TypeOK, Goto, mgrVars, osVars, monVars,
       locals, doneVars
<1>2. CASE \E t \in Threads : Step(t)
  BY <1>2, TypeStart, TypeStop, TypeRestart DEF Step
<1>3. CASE \E p \in Procs : Monitor(p) \/ AutoRestart(p) \/ ContextKill(p)
                            \/ ProcessExit(p)
  BY <1>3, TypeMonitor
<1>4. CASE ReapZombies
  BY <1>4 DEF ReapZombies, TypeOK, KeepsThreads, mgrVars, osVars, monVars,
     locals, doneVars, OSStates
<1>5. CASE UNCHANGED vars
  BY <1>5 DEF TypeOK, vars, mgrVars, osVars, monVars, locals, doneVars
<1>6. QED  BY <1>1, <1>2, <1>3, <1>4, <1>5, StepCases

\* Every variable keeps its type, whatever the callers do.
THEOREM TypeCorrect == Spec => []TypeOK
<1>1. ASSUME Init PROVE TypeOK
  <2>1. /\ state \in States /\ proc \in Procs \cup {NoProc} /\ restartCount \in Nat
        /\ nprocs \in 0..MaxProcs /\ calls \in 0..MaxCalls /\ reapers \in Nat
    BY <1>1, NodeAssumption DEF Init, States
  <2>2. ctxDone \in BOOLEAN /\ panicked \in BOOLEAN
    BY <1>1, Zenon DEF Init
  <2>3. chans \in Nat /\ doneCh \in 0..chans /\ closedCh \subseteq 1..chans
    BY <1>1 DEF Init
  <2>4. /\ os \in [Procs -> OSStates] /\ mon \in [Procs -> MonPCs]
        /\ mproc \in [Procs -> Procs \cup {NoProc}]
    BY <1>1 DEF Init, OSStates, MonPCs
  <2>5. /\ pc \in [Threads -> PCs] /\ op \in [Threads -> Ops]
        /\ own \in [Threads -> Procs \cup {NoProc}] /\ ch \in [Threads -> 0..chans]
    BY <1>1, <2>3 DEF Init, PCs, Ops
  <2>6. QED  BY <2>1, <2>2, <2>3, <2>4, <2>5 DEF TypeOK
<1>2. QED  BY <1>1, TypeStep, PTL DEF Spec
-----------------------------------------------------------------------------
(* The invariants of the manager's own fields.  With the types they are    *)
(* inductive together; the actions that change no field are one case.      *)

LEMMA ManagerUntouched ==
  ASSUME ManagerInv, UNCHANGED <<mgrVars, nprocs>>
  PROVE  ManagerInv'
BY DEF ManagerInv, StateHasProcess, DoneChOpen, NewestProcess, mgrVars, doneVars

LEMMA InvStart ==
  ASSUME TypeOK, ManagerInv, NEW t \in Threads, Start(t)
  PROVE  ManagerInv'
<1> USE DEF ManagerInv, StateHasProcess, DoneChOpen, NewestProcess, NoProc, doneVars
<1>1. CASE StartFails(t)
  BY <1>1 DEF StartFails, KeepsDone, KeepsRest, osVars
<1>2. CASE StartProcess(t)
  BY <1>2 DEF StartProcess, Launch, TypeOK
<1>3. CASE StartRefused(t) \/ StartMonitoring(t) \/ StartLog(t)
  BY <1>3, ManagerUntouched
     DEF StartRefused, StartMonitoring, StartLog, KeepsManager, KeepsRest, osVars
<1>4. QED  BY <1>1, <1>2, <1>3 DEF Start

LEMMA InvStop ==
  ASSUME TypeOK, ManagerInv, NEW t \in Threads, Stop(t)
  PROVE  ManagerInv'
<1> USE DEF ManagerInv, StateHasProcess, DoneChOpen, NewestProcess, NoProc, doneVars
<1>1. CASE StopBegin(t)
  BY <1>1 DEF StopBegin, osVars
<1>2. CASE CleanupState(t)
  <2>1. 0 \notin closedCh'  BY <1>2 DEF CleanupState, CloseDone, TypeOK
  <2>2. QED  BY <1>2, <2>1 DEF CleanupState, CloseDone, KeepsRest, osVars
<1>3. CASE StopRefused(t) \/ SendStopSignal(t) \/ WaitForShutdown(t)
           \/ StoppedGracefully(t) \/ ForceKill(t)
  BY <1>3, ManagerUntouched
     DEF StopRefused, SendStopSignal, WaitForShutdown, StoppedGracefully,
         ForceKill, GraceOver, KeepsManager, KeepsRest, osVars
<1>4. QED  BY <1>1, <1>2, <1>3 DEF Stop

LEMMA InvRestart ==
  ASSUME TypeOK, ManagerInv, NEW t \in Threads, Restart(t) \/ Close(t)
  PROVE  ManagerInv'
<1> USE DEF ManagerInv, StateHasProcess, DoneChOpen, NewestProcess, NoProc, doneVars
<1>1. CASE ResetState(t)
  BY <1>1 DEF ResetState, KeepsDone, KeepsRest, osVars
<1>2. CASE RestartDelay(t)
  <2>1. chans + 1 \notin closedCh  BY DEF TypeOK
  <2>2. QED  BY <1>2, <2>1 DEF RestartDelay, KeepsRest, osVars
<1>3. CASE CountRestart(t) \/ CloseCancel(t)
  BY <1>3 DEF CountRestart, CloseCancel, KeepsRest, osVars
<1>4. CASE RestartBegin(t) \/ CloseCheck(t)
  BY <1>4, ManagerUntouched
     DEF RestartBegin, CloseCheck, KeepsManager, KeepsRest, osVars
<1>5. QED  BY <1>1, <1>2, <1>3, <1>4 DEF Restart, Close

LEMMA InvMonitor ==
  ASSUME TypeOK, ManagerInv, NEW p \in Procs,
         Monitor(p) \/ AutoRestart(p) \/ ContextKill(p) \/ ProcessExit(p)
  PROVE  ManagerInv'
<1>1. CASE HandleProcessCrash(p)
  <2>1. 0 \notin closedCh'
    BY <1>1 DEF HandleProcessCrash, Crash, CloseDone, TypeOK
  <2>2. QED
    BY <1>1, <2>1 DEF HandleProcessCrash, Crash, CrashState, CloseDone, osVars,
       ManagerInv, StateHasProcess, DoneChOpen, NewestProcess, NoProc
<1>2. CASE MonitorRead(p) \/ MonitorWait(p) \/ MonitorIgnores(p) \/ AutoRestart(p)
           \/ ContextKill(p) \/ ProcessExit(p)
  BY <1>2, ManagerUntouched
     DEF MonitorRead, MonitorWait, MonitorIgnores, AutoRestart, ContextKill,
         ProcessExit, OSChange, KeepsManager, KeepsRest, osVars
<1>3. QED  BY <1>1, <1>2 DEF Monitor

LEMMA InvStep == TypeOK /\ ManagerInv /\ [Next]_vars => ManagerInv'
<1> SUFFICES ASSUME TypeOK, ManagerInv, [Next]_vars PROVE ManagerInv'  OBVIOUS
<1>1. CASE \E c \in Callers : Call(c)
  BY <1>1, ManagerUntouched DEF Call, osVars
<1>2. CASE \E t \in Threads : Step(t)
  BY <1>2, InvStart, InvStop, InvRestart DEF Step
<1>3. CASE \E p \in Procs : Monitor(p) \/ AutoRestart(p) \/ ContextKill(p)
                            \/ ProcessExit(p)
  BY <1>3, InvMonitor
<1>4. CASE ReapZombies
  BY <1>4, ManagerUntouched DEF ReapZombies
<1>5. CASE UNCHANGED vars
  BY <1>5, ManagerUntouched DEF vars, osVars
<1>6. QED  BY <1>1, <1>2, <1>3, <1>4, <1>5, StepCases

\* State, process and exit channel of the manager belong together whatever is
\* interleaved: the inductive part of what Stop and the crash handler rely on.
THEOREM ManagerConsistent == Spec => []ManagerInv
<1>1. Init => ManagerInv
  BY DEF Init, ManagerInv, StateHasProcess, DoneChOpen, NewestProcess
<1>2. QED  BY <1>1, InvStep, TypeCorrect, PTL DEF Spec

\* The two together: types, and the fields that belong together (NodeInv).
THEOREM NodeInvariant == Spec => []NodeInv
<1>1. NodeInv <=> TypeOK /\ ManagerInv  BY DEF NodeInv
<1>2. QED  BY <1>1, TypeCorrect, ManagerConsistent, PTL

\* Start, Stop, Restart, Close, the monitors and the auto-restarts may run in
\* any interleaving: Stop never finds a nil m.process in a running manager.
THEOREM ProcessWhileRunning == Spec => []StateHasProcess
<1>1. ManagerInv => StateHasProcess  BY DEF ManagerInv
<1>2. QED  BY <1>1, ManagerConsistent, PTL

\* No goroutine closes a channel twice.
THEOREM NoDoubleClose == Spec => []DoneChOpen
<1>1. ManagerInv => DoneChOpen  BY DEF ManagerInv
<1>2. QED  BY <1>1, ManagerConsistent, PTL

\* What the manager signals and reports is the node started last.
THEOREM LatestNode == Spec => []NewestProcess
<1>1. ManagerInv => NewestProcess  BY DEF ManagerInv
<1>2. QED  BY <1>1, ManagerConsistent, PTL

-----------------------------------------------------------------------------
(* The refinement: every step of the manager is a step of NodeService on   *)
(* the same state, or leaves that state alone.                             *)

ServiceStep == [Service!ServiceNext]_state

LEMMA StateUntouched == ASSUME UNCHANGED mgrVars PROVE ServiceStep
BY DEF ServiceStep, mgrVars

LEMMA ServiceStart ==
  ASSUME NEW t \in Threads, Start(t)
  PROVE  ServiceStep
<1>1. CASE StartFails(t)
  BY <1>1 DEF StartFails, ServiceStep, Service!ServiceNext, Service!StartFails
<1>2. CASE StartProcess(t)
  BY <1>2 DEF StartProcess, Launch, ServiceStep, Service!ServiceNext, Service!Starts
<1>3. CASE StartRefused(t) \/ StartMonitoring(t) \/ StartLog(t)
  BY <1>3, StateUntouched DEF StartRefused, StartMonitoring, StartLog, KeepsManager
<1>4. QED  BY <1>1, <1>2, <1>3 DEF Start

LEMMA ServiceStop ==
  ASSUME NEW t \in Threads, Stop(t)
  PROVE  ServiceStep
<1>1. CASE StopBegin(t)
  BY <1>1 DEF StopBegin, ServiceStep, Service!ServiceNext, Service!StopBegins
<1>2. CASE CleanupState(t)
  BY <1>2 DEF CleanupState, ServiceStep, Service!ServiceNext, Service!BecomesStopped
<1>3. CASE StopRefused(t) \/ SendStopSignal(t) \/ WaitForShutdown(t)
           \/ StoppedGracefully(t) \/ ForceKill(t)
  BY <1>3, StateUntouched
     DEF StopRefused, SendStopSignal, WaitForShutdown, StoppedGracefully,
         ForceKill, GraceOver, KeepsManager
<1>4. QED  BY <1>1, <1>2, <1>3 DEF Stop

LEMMA ServiceRestart ==
  ASSUME NEW t \in Threads, Restart(t) \/ Close(t)
  PROVE  ServiceStep
<1>1. CASE ResetState(t)
  BY <1>1 DEF ResetState, ServiceStep, Service!ServiceNext, Service!BecomesStopped
<1>2. CASE RestartDelay(t) \/ CountRestart(t) \/ CloseCancel(t)
  BY <1>2 DEF RestartDelay, CountRestart, CloseCancel, ServiceStep
<1>3. CASE RestartBegin(t) \/ CloseCheck(t)
  BY <1>3, StateUntouched DEF RestartBegin, CloseCheck, KeepsManager
<1>4. QED  BY <1>1, <1>2, <1>3 DEF Restart, Close

LEMMA ServiceMonitor ==
  ASSUME NEW p \in Procs,
         Monitor(p) \/ AutoRestart(p) \/ ContextKill(p) \/ ProcessExit(p)
  PROVE  ServiceStep
<1>1. CASE HandleProcessCrash(p)
  BY <1>1 DEF HandleProcessCrash, Crash, CrashState, ServiceStep,
     Service!ServiceNext, Service!NodeExits
<1>2. CASE MonitorRead(p) \/ MonitorWait(p) \/ MonitorIgnores(p) \/ AutoRestart(p)
           \/ ContextKill(p) \/ ProcessExit(p)
  BY <1>2, StateUntouched
     DEF MonitorRead, MonitorWait, MonitorIgnores, AutoRestart, ContextKill,
         ProcessExit, OSChange, KeepsManager
<1>3. QED  BY <1>1, <1>2 DEF Monitor

\* The node manager implements NodeService, whatever the interleaving.
THEOREM ManagerIsService == Spec => IsNodeService
<1>1. Init => Service!ServiceInit  BY DEF Init, Service!ServiceInit
<1>2. [Next]_vars => [Service!ServiceNext]_state
  <2> SUFFICES ASSUME [Next]_vars PROVE ServiceStep  BY DEF ServiceStep
  <2>1. CASE \E c \in Callers : Call(c)
    BY <2>1, StateUntouched DEF Call
  <2>2. CASE \E t \in Threads : Step(t)
    BY <2>2, ServiceStart, ServiceStop, ServiceRestart DEF Step
  <2>3. CASE \E p \in Procs : Monitor(p) \/ AutoRestart(p) \/ ContextKill(p)
                              \/ ProcessExit(p)
    BY <2>3, ServiceMonitor
  <2>4. CASE ReapZombies  BY <2>4, StateUntouched DEF ReapZombies
  <2>5. CASE UNCHANGED vars  BY <2>5, StateUntouched DEF vars
  <2>6. QED  BY <2>1, <2>2, <2>3, <2>4, <2>5, StepCases
<1>3. QED  BY <1>1, <1>2, PTL DEF Spec, IsNodeService, Service!ServiceSpec

-----------------------------------------------------------------------------
(* Which node lives, while nobody calls Restart and timers outlast what is *)
(* ready to run.                                                           *)

\* A node that lives is the manager's, and the manager does not take it for ended.
Known == \A p \in Procs :
  Alive(p) => p = proc /\ state \in {"Running", "Stopping"}

Born == \A p \in Procs :
  IF p <= nprocs THEN os[p] # "unborn" ELSE mon[p] = "none" /\ os[p] = "unborn"

\* The monitor at work, or about to be started, is that of the manager's node.
Current(p) == p = nprocs /\ p = proc /\ state \in {"Running", "Stopping"}
Watching ==
  /\ \A p \in Procs :
       /\ mon[p] \in {"read", "wait", "handle"} => Current(p)
       /\ mon[p] \in {"wait", "handle"} => mproc[p] = p
       /\ mon[p] = "handle" => os[p] = "gone"
  /\ \A t \in Threads : pc[t] = "startMonitoring" =>
       /\ Current(own[t]) /\ mon[own[t]] = "none"
       /\ \A u \in Threads : pc[u] = "startMonitoring" => u = t

\* An auto-restart is on only in a manager that has crashed, and then only one; it
\* never stops a node.
Restarting == {"sleep", "restart", "reset"}
Restarts ==
  /\ \A p \in Procs : pc[p] \in Restarting \cup {"idle", "delay", "start", "startMonitoring",
                                                 "startLog", "count"}
  /\ \A p \in Procs : pc[p] \in Restarting =>
       state = "Crashed" /\ \A q \in Procs : pc[q] \in Restarting => q = p

\* A Stop is of the manager's node, and it is the only one; nobody closes the channel
\* it waits on, so that it ends by SIGKILL.
Stops == \A c \in Callers :
  /\ op[c] # "restart"
  /\ pc[c] \in {"idle", "start", "startMonitoring", "startLog", "stop", "signal", "await",
                 "waiting", "exitWait", "close", "closeCheck"}
  /\ pc[c] \in {"signal", "await", "waiting", "exitWait"} =>
       /\ state = "Stopping" /\ own[c] = proc
       /\ \A d \in Callers : pc[d] \in {"signal", "await", "waiting", "exitWait"} => d = c
  /\ pc[c] = "waiting" => ch[c] \notin closedCh
  /\ pc[c] = "exitWait" => os[own[c]] # "running"

\* The log line of Start finds the process that Start has set, though it reads it with no
\* lock: an auto-restart does not begin before the line is written.
Logs ==
  /\ ~ panicked
  /\ \A t \in Threads : pc[t] = "startLog" => proc # NoProc
  /\ \A p \in Procs : pc[p] \in {"restart", "reset"} =>
       \A t \in Threads : pc[t] \notin {"startMonitoring", "startLog"}

OneIInv == Known /\ Born /\ Watching /\ Restarts /\ Stops

LEMMA OneFacts ==
  ASSUME TypeOK
  PROVE  /\ nprocs \in Nat /\ nprocs <= MaxProcs /\ MaxProcs \in Nat
         /\ \A p \in Procs : p \in Nat /\ p # 0 /\ p \in Threads /\ p \notin Callers
         /\ \A c \in Callers : c \in Threads /\ c \notin Procs
         /\ \A p \in Procs : os[p] = "unborn" <=> ~ Alive(p) /\ ~ Exited(p)
<1>1. Procs \subseteq Nat \ {0} /\ MaxProcs \in Nat
  BY NodeAssumption DEF Procs
<1>2. Callers \cap Procs = {}
  BY <1>1, NodeAssumption
<1>3. nprocs \in Nat /\ nprocs <= MaxProcs
  BY <1>1 DEF TypeOK
<1>4. \A p \in Procs : os[p] = "unborn" <=> ~ Alive(p) /\ ~ Exited(p)
  BY DEF TypeOK, OSStates, Alive, Exited
<1>5. QED  BY <1>1, <1>2, <1>3, <1>4, ProcsAreThreads

\* Only an auto-restart is in Restart, only a caller in Stop and Close.
LEMMA Elsewhere ==
  ASSUME TypeOK, Restarts, Stops, NEW t \in Threads
  PROVE  /\ pc[t] \in Restarting \cup {"delay", "count"} => t \in Procs
         /\ pc[t] \in {"stop", "signal", "await", "waiting", "exitWait", "close", "closeCheck"} => t \in Callers
         /\ pc[t] # "cleanup"
<1>1. t \in Callers \/ t \in Procs
  BY DEF Threads
<1>2. QED  BY <1>1 DEF Restarts, Stops, Restarting

\* No node lives, and nobody watches one or is about to: a new one may be started.
\* So it is whenever the manager takes the node for ended, and at the end of a Stop,
\* when nothing is ready to run and no node is dying.
Still == /\ \A p \in Procs : ~ Alive(p) /\ mon[p] \in {"none", "done"}
         /\ \A t \in Threads : pc[t] # "startMonitoring"

LEMMA StillFacts ==
  ASSUME TypeOK, OneIInv, state \notin {"Running", "Stopping"}
  PROVE  Still
<1>1. \A p \in Procs : mon[p] \in MonPCs
  BY DEF TypeOK
<1>2. QED  BY <1>1 DEF OneIInv, Known, Watching, Current, Still, MonPCs

LEMMA QuietFacts ==
  ASSUME TypeOK, ManagerInv, OneIInv, Quiet, NEW c \in Callers, pc[c] = "exitWait"
  PROVE  Still
<1>1. state = "Stopping" /\ own[c] = proc /\ os[own[c]] # "running"
  BY DEF OneIInv, Stops
<1>2. \A p \in Procs : ~ Alive(p)
  BY <1>1 DEF OneIInv, Known, Alive, Quiet
<1>3. \A p \in Procs : mon[p] \in MonPCs
  BY DEF TypeOK
<1>4. \A p \in Procs : mon[p] \notin {"read", "handle"}
  BY DEF Quiet
<1>5. ASSUME NEW p \in Procs, mon[p] = "wait" PROVE FALSE
  <2>1. mproc[p] = p /\ p = nprocs
    BY <1>5 DEF OneIInv, Watching, Current
  <2>2. os[p] # "unborn" /\ ~ Exited(p)
    BY <1>5, <2>1, OneFacts DEF OneIInv, Born, Quiet
  <2>3. QED  BY <1>2, <2>2, OneFacts
<1>6. \A t \in Threads : pc[t] # "startMonitoring"
  BY DEF Quiet, Blocked
<1>7. QED  BY <1>2, <1>3, <1>4, <1>5, <1>6 DEF Still, MonPCs

-----------------------------------------------------------------------------
(* It is inductive: one lemma for each kind of step.                       *)

\* Steps of a thread that change only where it is, what it waits for, and the counters.
LEMMA ThreadMoves ==
  ASSUME TypeOK, OneIInv, TypeOK', NEW t \in Threads,
         UNCHANGED <<state, proc, nprocs, os, mon, mproc>>,
         \A u \in Threads \ {t} : pc'[u] = pc[u] /\ own'[u] = own[u] /\ ch'[u] = ch[u] /\ op'[u] = op[u],
         closedCh' = closedCh,
         pc'[t] \notin Restarting \cup {"startMonitoring"},
         t \in Procs => pc'[t] \in {"idle", "delay", "start", "startLog", "count"},
         t \in Callers =>
           /\ op'[t] # "restart"
           /\ pc'[t] \in {"idle", "start", "startLog", "stop", "close", "closeCheck",
                          "signal", "await", "waiting", "exitWait"}
           /\ pc'[t] \in {"signal", "await", "waiting", "exitWait"} =>
                pc[t] \in {"signal", "await", "waiting", "exitWait"} /\ own'[t] = own[t]
           /\ pc'[t] = "waiting" => ch'[t] \notin closedCh
           /\ pc'[t] = "exitWait" => os[own[t]] # "running"
  PROVE  OneIInv'
<1>1. Known' /\ Born'
  BY DEF OneIInv, Known, Born, Alive
<1>2. Watching'
  BY DEF OneIInv, Watching, Current
<1>3. Restarts'
  BY OneFacts DEF OneIInv, Restarts, Restarting
<1>4. Stops'
  BY OneFacts DEF OneIInv, Stops
<1>5. QED  BY <1>1, <1>2, <1>3, <1>4 DEF OneIInv

LEMMA OneCall ==
  ASSUME TypeOK, TypeOK', OneIInv, "restart" \notin Methods, NEW c \in Callers, Call(c)
  PROVE  OneIInv'
<1>1. PICK o \in Methods : /\ Goto(c, o) /\ op' = [op EXCEPT ![c] = o]
                           /\ UNCHANGED <<mgrVars, osVars, monVars, locals>>
  BY DEF Call
<1>2. o \in {"start", "stop", "close"} /\ c \in Threads
  BY NodeAssumption, OneFacts
<1>3. /\ pc' = [pc EXCEPT ![c] = o] /\ UNCHANGED <<own, ch, closedCh, state, proc, nprocs, os, mon, mproc>>
  BY <1>1 DEF Goto, mgrVars, doneVars, osVars, monVars, locals
<1>4. /\ pc'[c] = o /\ op'[c] = o /\ own'[c] = own[c]
      /\ \A u \in Threads \ {c} : pc'[u] = pc[u] /\ own'[u] = own[u] /\ ch'[u] = ch[u] /\ op'[u] = op[u]
  BY <1>1, <1>2, <1>3 DEF TypeOK
<1>5. QED
  BY <1>2, <1>3, <1>4, ThreadMoves, OneFacts DEF Restarting

LEMMA OneStart ==
  ASSUME TypeOK, TypeOK', ManagerInv, OneIInv, NEW t \in Threads, Start(t)
  PROVE  OneIInv'
<1> USE DEF Goto, Return, Continue, KeepsManager, KeepsDone, KeepsRest, mgrVars, doneVars, osVars, monVars, locals
<1>1. CASE StartRefused(t)
  <2>1. /\ UNCHANGED <<state, proc, nprocs, os, mon, mproc, closedCh>>
        /\ pc'[t] = "idle" /\ op'[t] = "none"
        /\ \A u \in Threads \ {t} : pc'[u] = pc[u] /\ own'[u] = own[u] /\ ch'[u] = ch[u] /\ op'[u] = op[u]
    BY <1>1 DEF StartRefused, TypeOK
  <2>2. QED  BY <2>1, ThreadMoves DEF Restarting
<1>2. CASE StartFails(t)
  <2>1. /\ UNCHANGED <<proc, nprocs, os, mon, mproc, closedCh>> /\ state = "Stopped" /\ state' = "Error"
        /\ pc'[t] = "idle" /\ op'[t] = "none"
        /\ \A u \in Threads \ {t} : pc'[u] = pc[u] /\ own'[u] = own[u] /\ ch'[u] = ch[u] /\ op'[u] = op[u]
    BY <1>2 DEF StartFails, TypeOK
  <2>2. Still
    BY <2>1, StillFacts
  <2>3. Known' /\ Born'
    BY <2>1, <2>2 DEF OneIInv, Known, Born, Alive, Still
  <2>4. Watching'
    BY <2>1, <2>2 DEF Watching, Still
  <2>5. Restarts'
    BY <2>1, OneFacts DEF OneIInv, Restarts, Restarting
  <2>6. Stops'
    BY <2>1, OneFacts DEF OneIInv, Stops
  <2>7. QED  BY <2>3, <2>4, <2>5, <2>6 DEF OneIInv
<1>3. CASE StartProcess(t)
  <2> DEFINE n == nprocs + 1
  <2>1. /\ nprocs < MaxProcs /\ nprocs' = n /\ os' = [os EXCEPT ![n] = "running"] /\ proc' = n
        /\ state = "Stopped" /\ state' = "Running" /\ UNCHANGED <<mon, mproc, closedCh>>
        /\ own' = [own EXCEPT ![t] = n] /\ pc' = [pc EXCEPT ![t] = "startMonitoring"]
        /\ UNCHANGED <<op, ch>> /\ pc[t] = "start"
    BY <1>3 DEF StartProcess, Launch
  <2>2. n \in Procs /\ n \in Nat /\ n # 0
    BY <2>1, OneFacts DEF Procs
  <2>3. /\ pc'[t] = "startMonitoring" /\ own'[t] = n /\ os'[n] = "running"
        /\ \A p \in Procs \ {n} : os'[p] = os[p]
        /\ \A u \in Threads \ {t} : pc'[u] = pc[u] /\ own'[u] = own[u]
    BY <2>1, <2>2 DEF TypeOK
  <2>4. Still
    BY <2>1, StillFacts
  <2> HIDE DEF n
  <2>5. Known'
    BY <2>1, <2>3, <2>4 DEF Known, Alive, Still
  <2>6. Born'
    <3>1. \A p \in Procs : p <= n => p <= nprocs \/ p = n
      BY <2>1, OneFacts DEF n
    <3>2. \A p \in Procs : ~ (p <= n) => ~ (p <= nprocs) /\ p # n
      BY <2>1, OneFacts DEF n
    <3>3. QED  BY <2>1, <2>3, <3>1, <3>2 DEF OneIInv, Born
  <2>7. Watching'
    <3>1. mon[n] = "none"
      BY <2>1, <2>2, OneFacts DEF OneIInv, Born, n
    <3>2. QED  BY <2>1, <2>3, <2>4, <3>1 DEF Watching, Current, Still
  <2>8. Restarts'
    BY <2>1, <2>3, OneFacts DEF OneIInv, Restarts, Restarting
  <2>9. Stops'
    BY <2>1, <2>3, OneFacts DEF OneIInv, Stops
  <2>10. QED  BY <2>5, <2>6, <2>7, <2>8, <2>9 DEF OneIInv
<1>4. CASE StartMonitoring(t)
  <2> DEFINE n == own[t]
  <2>1. /\ pc[t] = "startMonitoring" /\ mon' = [mon EXCEPT ![n] = "read"]
        /\ pc' = [pc EXCEPT ![t] = "startLog"]
        /\ UNCHANGED <<state, proc, nprocs, os, mproc, closedCh, op, own, ch>>
    BY <1>4 DEF StartMonitoring
  <2>2. /\ Current(n) /\ mon[n] = "none" /\ \A u \in Threads : pc[u] = "startMonitoring" => u = t
    BY <2>1 DEF OneIInv, Watching
  <2>3. n \in Procs
    <3>1. n # NoProc
      BY <2>2 DEF Current, ManagerInv, StateHasProcess, NoProc
    <3>2. QED  BY <3>1 DEF TypeOK
  <2>4. /\ mon'[n] = "read" /\ \A p \in Procs \ {n} : mon'[p] = mon[p]
        /\ pc'[t] = "startLog" /\ \A u \in Threads \ {t} : pc'[u] = pc[u]
    BY <2>1, <2>3 DEF TypeOK
  <2> HIDE DEF n
  <2>5. Known'
    BY <2>1 DEF OneIInv, Known, Alive
  <2>6. Born'
    BY <2>1, <2>2, <2>4, OneFacts DEF OneIInv, Born, Current
  <2>7. Watching'
    BY <2>1, <2>2, <2>4 DEF OneIInv, Watching, Current
  <2>8. Restarts'
    BY <2>1, <2>4, OneFacts DEF OneIInv, Restarts, Restarting
  <2>9. Stops'
    BY <2>1, <2>4, OneFacts DEF OneIInv, Stops
  <2>10. QED  BY <2>5, <2>6, <2>7, <2>8, <2>9 DEF OneIInv
<1>5. CASE StartLog(t)
  <2>1. pc[t] = "startLog" /\ UNCHANGED <<state, proc, nprocs, os, mon, mproc, closedCh>>
    BY <1>5 DEF StartLog
  <2>2. CASE op[t] = "restart"
    <3>1. /\ pc'[t] = "count" /\ t \notin Callers /\ op' = op
          /\ \A u \in Threads \ {t} : pc'[u] = pc[u] /\ own'[u] = own[u] /\ ch'[u] = ch[u] /\ op'[u] = op[u]
      BY <1>5, <2>2 DEF StartLog, TypeOK, OneIInv, Stops
    <3>2. QED  BY <2>1, <3>1, ThreadMoves DEF Restarting
  <2>3. CASE op[t] # "restart"
    <3>1. /\ pc'[t] = "idle" /\ op'[t] = "none"
          /\ \A u \in Threads \ {t} : pc'[u] = pc[u] /\ own'[u] = own[u] /\ ch'[u] = ch[u] /\ op'[u] = op[u]
      BY <1>5, <2>3 DEF StartLog, TypeOK
    <3>2. QED  BY <2>1, <3>1, ThreadMoves DEF Restarting
  <2>4. QED  BY <2>2, <2>3
<1>6. QED  BY <1>1, <1>2, <1>3, <1>4, <1>5 DEF Start

LEMMA OneStop ==
  ASSUME TypeOK, TypeOK', ManagerInv, OneIInv, TimersSlow, NEW t \in Threads, Stop(t)
  PROVE  OneIInv'
<1> USE DEF Goto, Return, Continue, KeepsManager, KeepsDone, KeepsRest, mgrVars, doneVars, osVars, monVars, locals
<1> DEFINE Same == \A u \in Threads \ {t} :
                     pc'[u] = pc[u] /\ own'[u] = own[u] /\ ch'[u] = ch[u] /\ op'[u] = op[u]
<1>1. CASE StopRefused(t)
  <2>1. /\ UNCHANGED <<state, proc, nprocs, os, mon, mproc, closedCh>>
        /\ pc'[t] = "idle" /\ op'[t] = "none" /\ Same
    BY <1>1 DEF StopRefused, TypeOK
  <2>2. QED  BY <2>1, ThreadMoves DEF Restarting
<1>2. CASE StopBegin(t)
  <2>1. /\ state = "Running" /\ state' = "Stopping" /\ pc[t] = "stop" /\ pc'[t] = "signal"
        /\ own'[t] = proc /\ op' = op /\ Same
        /\ UNCHANGED <<proc, nprocs, os, mon, mproc, closedCh, op, ch>>
    BY <1>2 DEF StopBegin, TypeOK
  <2>2. t \in Callers /\ t \notin Procs
    BY <2>1, Elsewhere, OneFacts DEF OneIInv
  <2>3. Known' /\ Born'
    BY <2>1 DEF OneIInv, Known, Born, Alive
  <2>4. Watching'
    BY <2>1 DEF OneIInv, Watching, Current
  <2>5. Restarts'
    BY <2>1, <2>2, OneFacts DEF OneIInv, Restarts, Restarting
  <2>6. Stops'
    BY <2>1, <2>2, OneFacts DEF OneIInv, Stops
  <2>7. QED  BY <2>3, <2>4, <2>5, <2>6 DEF OneIInv
<1>3. CASE SendStopSignal(t)
  <2>1. /\ UNCHANGED <<state, proc, nprocs, os, mon, mproc, closedCh>> /\ pc[t] = "signal" /\ Same
        /\ \/ pc'[t] = "idle" /\ op'[t] = "none"
           \/ pc'[t] = "await" /\ op' = op /\ own' = own
    BY <1>3 DEF SendStopSignal, TypeOK
  <2>2. t \in Callers /\ t \notin Procs /\ op[t] # "restart"
    BY <2>1, Elsewhere, OneFacts DEF OneIInv, Stops
  <2>3. QED  BY <2>1, <2>2, ThreadMoves DEF Restarting
<1>4. CASE WaitForShutdown(t)
  <2>1. /\ UNCHANGED <<state, proc, nprocs, os, mon, mproc, closedCh>> /\ pc[t] = "await" /\ Same
        /\ pc'[t] = "waiting" /\ ch'[t] = doneCh /\ op' = op /\ own' = own
    BY <1>4 DEF WaitForShutdown, TypeOK
  <2>2. t \in Callers /\ t \notin Procs /\ op[t] # "restart" /\ doneCh \notin closedCh
    BY <2>1, Elsewhere, OneFacts DEF OneIInv, Stops, ManagerInv, DoneChOpen
  <2>3. QED  BY <2>1, <2>2, ThreadMoves DEF Restarting
<1>5. CASE StoppedGracefully(t)
  <2>1. pc[t] = "waiting" /\ ch[t] \in closedCh
    BY <1>5 DEF StoppedGracefully
  <2>2. QED  BY <2>1, Elsewhere DEF OneIInv, Stops
<1>6. CASE ForceKill(t)
  <2>1. /\ UNCHANGED <<state, proc, nprocs, mon, mproc, closedCh, op, own, ch>> /\ pc[t] = "waiting" /\ Same
        /\ pc'[t] = "exitWait" /\ os' = IF Alive(own[t]) THEN [os EXCEPT ![own[t]] = "killed"] ELSE os
    BY <1>6 DEF ForceKill, GraceOver, Kill, TypeOK
  <2>2. t \in Callers /\ t \notin Procs /\ own[t] = proc /\ state = "Stopping"
    BY <2>1, Elsewhere, OneFacts DEF OneIInv, Stops
  <2>3. own[t] \in Procs
    BY <2>2 DEF TypeOK, ManagerInv, StateHasProcess, NoProc
  <2>4. /\ os'[own[t]] # "running" /\ \A p \in Procs \ {own[t]} : os'[p] = os[p]
        /\ Alive(own[t])' <=> Alive(own[t])
        /\ os[own[t]] # "unborn" <=> os'[own[t]] # "unborn"
        /\ os[own[t]] = "gone" <=> os'[own[t]] = "gone"
    BY <2>1, <2>3 DEF TypeOK, Alive
  <2>5. Known' /\ Born'
    BY <2>1, <2>3, <2>4 DEF OneIInv, Known, Born, Alive
  <2>6. Watching'
    BY <2>1, <2>3, <2>4 DEF OneIInv, Watching, Current
  <2>7. Restarts'
    BY <2>1, <2>2, OneFacts DEF OneIInv, Restarts, Restarting
  <2>8. Stops'
    BY <2>1, <2>2, <2>4, OneFacts DEF OneIInv, Stops
  <2>9. QED  BY <2>5, <2>6, <2>7, <2>8 DEF OneIInv
<1>7. CASE CleanupState(t)
  <2>1. /\ pc[t] = "exitWait" /\ Quiet /\ t \in Callers
    BY <1>7, Elsewhere DEF CleanupState, TimerFires, OneIInv
  <2>2. state = "Stopping" /\ op[t] # "restart"
    BY <2>1 DEF OneIInv, Stops
  <2>3. /\ UNCHANGED <<nprocs, os, mon, mproc>> /\ state' = "Stopped" /\ proc' = NoProc
        /\ pc'[t] = "idle" /\ op'[t] = "none" /\ Same
    BY <1>7, <2>2 DEF CleanupState, TypeOK
  <2>4. Still
    BY <2>1, QuietFacts
  <2>5. Known' /\ Born'
    BY <2>3, <2>4 DEF OneIInv, Known, Born, Alive, Still
  <2>6. Watching'
    BY <2>3, <2>4 DEF Watching, Still
  <2>7. Restarts'
    BY <2>1, <2>2, <2>3, OneFacts DEF OneIInv, Restarts, Restarting
  <2>8. Stops'
    <3>1. \A c \in Callers \ {t} : pc[c] \notin {"signal", "await", "waiting", "exitWait"}
      BY <2>1 DEF OneIInv, Stops
    <3>2. QED  BY <2>1, <2>3, <3>1, OneFacts DEF OneIInv, Stops
  <2>9. QED  BY <2>5, <2>6, <2>7, <2>8 DEF OneIInv
<1>8. QED  BY <1>1, <1>2, <1>3, <1>4, <1>5, <1>6, <1>7 DEF Stop

LEMMA OneRestart ==
  ASSUME TypeOK, TypeOK', ManagerInv, OneIInv, NEW t \in Threads, Restart(t) \/ Close(t)
  PROVE  OneIInv'
<1> USE DEF Goto, Return, Continue, KeepsManager, KeepsDone, KeepsRest, mgrVars, doneVars, osVars, monVars, locals
<1> DEFINE Same == \A u \in Threads \ {t} :
                     pc'[u] = pc[u] /\ own'[u] = own[u] /\ ch'[u] = ch[u] /\ op'[u] = op[u]
<1>1. CASE RestartBegin(t)
  <2>1. pc[t] = "restart" /\ t \in Procs /\ t \notin Callers /\ state = "Crashed"
    BY <1>1, Elsewhere, OneFacts DEF RestartBegin, OneIInv, Restarts, Restarting
  <2>2. (CASE state = "Running" -> "stop" [] state = "Stopped" -> "delay" [] OTHER -> "reset") = "reset"
    BY <2>1
  <2>3. /\ UNCHANGED <<state, proc, nprocs, os, mon, mproc, closedCh, op, own, ch>>
        /\ pc'[t] = "reset" /\ Same
    BY <1>1, <2>2 DEF RestartBegin, TypeOK
  <2>4. Known' /\ Born'
    BY <2>3 DEF OneIInv, Known, Born, Alive
  <2>5. Watching'
    BY <2>3 DEF OneIInv, Watching, Current
  <2>6. Restarts'
    BY <2>1, <2>3, OneFacts DEF OneIInv, Restarts, Restarting
  <2>7. Stops'
    BY <2>1, <2>3, OneFacts DEF OneIInv, Stops
  <2>8. QED  BY <2>4, <2>5, <2>6, <2>7 DEF OneIInv
<1>2. CASE ResetState(t)
  <2>1. pc[t] = "reset" /\ t \in Procs /\ t \notin Callers /\ state = "Crashed"
    BY <1>2, Elsewhere, OneFacts DEF ResetState, OneIInv, Restarts, Restarting
  <2>2. /\ state' = "Stopped" /\ proc' = NoProc /\ pc'[t] = "delay" /\ Same
        /\ UNCHANGED <<nprocs, os, mon, mproc, closedCh, op, own, ch>>
    BY <1>2 DEF ResetState, TypeOK
  <2>3. Still
    BY <2>1, StillFacts
  <2>4. Known' /\ Born'
    BY <2>2, <2>3 DEF OneIInv, Known, Born, Alive, Still
  <2>5. Watching'
    BY <2>2, <2>3 DEF Watching, Still
  <2>6. Restarts'
    <3>1. \A q \in Procs \ {t} : pc[q] \notin Restarting
      BY <2>1 DEF OneIInv, Restarts, Restarting
    <3>2. QED  BY <2>1, <2>2, <3>1, OneFacts DEF OneIInv, Restarts, Restarting
  <2>7. Stops'
    BY <2>1, <2>2, OneFacts DEF OneIInv, Stops
  <2>8. QED  BY <2>4, <2>5, <2>6, <2>7 DEF OneIInv
<1>3. CASE RestartDelay(t)
  <2>1. pc[t] = "delay" /\ t \in Procs /\ t \notin Callers
    BY <1>3, Elsewhere, OneFacts DEF RestartDelay, OneIInv
  <2>2. /\ UNCHANGED <<state, proc, nprocs, os, mon, mproc, closedCh>> /\ pc'[t] = "start" /\ Same
    BY <1>3 DEF RestartDelay, TypeOK
  <2>3. QED  BY <2>1, <2>2, ThreadMoves DEF Restarting
<1>4. CASE CountRestart(t)
  <2>1. pc[t] = "count" /\ t \in Procs /\ t \notin Callers
    BY <1>4, Elsewhere, OneFacts DEF CountRestart, OneIInv
  <2>2. /\ UNCHANGED <<state, proc, nprocs, os, mon, mproc, closedCh>> /\ pc'[t] = "idle" /\ Same
    BY <1>4 DEF CountRestart, TypeOK
  <2>3. QED  BY <2>1, <2>2, ThreadMoves DEF Restarting
<1>5. CASE Close(t)
  <2>1. pc[t] \in {"close", "closeCheck"} /\ t \in Callers /\ t \notin Procs /\ op[t] # "restart"
    BY <1>5, Elsewhere, OneFacts DEF Close, CloseCancel, CloseCheck, OneIInv, Stops
  <2>2. /\ UNCHANGED <<state, proc, nprocs, os, mon, mproc, closedCh>> /\ Same
        /\ \/ pc'[t] \in {"closeCheck", "stop"} /\ op' = op
           \/ pc'[t] = "idle" /\ op'[t] = "none"
    BY <1>5 DEF Close, CloseCancel, CloseCheck, TypeOK
  <2>3. QED  BY <2>1, <2>2, ThreadMoves DEF Restarting
<1>6. QED  BY <1>1, <1>2, <1>3, <1>4, <1>5 DEF Restart

\* Steps of the kernel and of the monitors: no thread moves.
LEMMA OneMonitor ==
  ASSUME TypeOK, TypeOK', ManagerInv, OneIInv, NEW p \in Procs, Monitor(p)
  PROVE  OneIInv'
<1> USE DEF KeepsThreads, mgrVars, doneVars, osVars, monVars, locals
<1>1. CASE MonitorRead(p)
  <2>1. /\ UNCHANGED <<state, proc, nprocs, os, closedCh, pc, op, own, ch>> /\ mon[p] = "read"
        /\ mproc'[p] = proc /\ mon'[p] \in {"wait", "done"}
        /\ \A q \in Procs \ {p} : mproc'[q] = mproc[q] /\ mon'[q] = mon[q]
    BY <1>1 DEF MonitorRead, TypeOK
  <2>2. Current(p)
    BY <2>1 DEF OneIInv, Watching
  <2>3. Known' /\ Born'
    BY <2>1, <2>2, OneFacts DEF OneIInv, Known, Born, Alive, Current
  <2>4. Watching'
    BY <2>1, <2>2 DEF OneIInv, Watching, Current
  <2>5. Restarts' /\ Stops'
    BY <2>1 DEF OneIInv, Restarts, Stops
  <2>6. QED  BY <2>3, <2>4, <2>5 DEF OneIInv
<1>2. CASE MonitorWait(p)
  <2>1. mon[p] = "wait" /\ mproc[p] = p /\ Current(p)
    BY <1>2 DEF MonitorWait, OneIInv, Watching
  <2>2. /\ UNCHANGED <<state, proc, nprocs, mproc, closedCh, pc, op, own, ch>>
        /\ os'[p] = "gone" /\ mon'[p] = "handle"
        /\ \A q \in Procs \ {p} : os'[q] = os[q] /\ mon'[q] = mon[q]
    BY <1>2, <2>1 DEF MonitorWait, TypeOK
  <2>3. Known' /\ Born'
    BY <2>1, <2>2, OneFacts DEF OneIInv, Known, Born, Alive, Current
  <2>4. Watching'
    BY <2>1, <2>2 DEF OneIInv, Watching, Current
  <2>5. Restarts'
    BY <2>2 DEF OneIInv, Restarts
  <2>6. Stops'
    <3>1. \A c \in Callers : pc[c] = "exitWait" => own[c] = p
      BY <2>1 DEF OneIInv, Stops, Current
    <3>2. QED  BY <2>2, <3>1 DEF OneIInv, Stops
  <2>7. QED  BY <2>3, <2>4, <2>5, <2>6 DEF OneIInv
<1>3. CASE MonitorIgnores(p)
  <2>1. /\ UNCHANGED <<state, proc, nprocs, os, closedCh, pc, op, own, ch>> /\ mon[p] = "handle"
        /\ mon'[p] = "done" /\ \A q \in Procs \ {p} : mproc'[q] = mproc[q] /\ mon'[q] = mon[q]
    BY <1>3 DEF MonitorIgnores, MonitorDone, TypeOK
  <2>2. Current(p)
    BY <2>1 DEF OneIInv, Watching
  <2>3. Known' /\ Born'
    BY <2>1, <2>2, OneFacts DEF OneIInv, Known, Born, Alive, Current
  <2>4. Watching'
    BY <2>1, <2>2 DEF OneIInv, Watching, Current
  <2>5. Restarts' /\ Stops'
    BY <2>1 DEF OneIInv, Restarts, Stops
  <2>6. QED  BY <2>3, <2>4, <2>5 DEF OneIInv
<1>4. CASE HandleProcessCrash(p)
  <2>1. /\ UNCHANGED <<proc, nprocs, os, op, own, ch>> /\ mon[p] = "handle" /\ state # "Stopping"
        /\ mon'[p] = "done" /\ \A q \in Procs \ {p} : mproc'[q] = mproc[q] /\ mon'[q] = mon[q]
        /\ \/ state' = "Crashed" /\ pc' = [pc EXCEPT ![p] = "sleep"]
           \/ state' = "Error" /\ pc' = pc
    BY <1>4 DEF HandleProcessCrash, Crash, CrashState, MonitorDone, Goto, TypeOK
  <2>2. Current(p) /\ state = "Running" /\ os[p] = "gone" /\ p \in Threads
    BY <2>1, OneFacts DEF OneIInv, Watching, Current
  <2>3. /\ \A q \in Procs : ~ Alive(q) /\ pc[q] \notin Restarting
        /\ \A q \in Procs : mon[q] \in {"read", "wait", "handle"} => q = p
        /\ \A u \in Threads : pc[u] # "startMonitoring"
        /\ \A c \in Callers : pc[c] \notin {"signal", "await", "waiting", "exitWait"}
    <3>1. \A q \in Procs : ~ Alive(q)
      BY <2>2 DEF OneIInv, Known, Current, Alive
    <3>2. \A u \in Threads : pc[u] # "startMonitoring"
      BY <2>1, <2>2 DEF OneIInv, Watching, Current
    <3>3. \A q \in Procs : mon[q] \in {"read", "wait", "handle"} => q = p
      BY <2>2 DEF OneIInv, Watching, Current
    <3>4. \A q \in Procs : pc[q] \notin Restarting
      BY <2>2 DEF OneIInv, Restarts
    <3>5. QED  BY <2>2, <3>1, <3>2, <3>3, <3>4 DEF OneIInv, Stops
  <2>4. /\ pc'[p] \in {pc[p], "sleep"} /\ \A u \in Threads \ {p} : pc'[u] = pc[u]
        /\ pc'[p] = "sleep" => state' = "Crashed"
    BY <2>1, <2>2, <2>3 DEF TypeOK, Restarting
  <2>5. Known' /\ Born'
    BY <2>1, <2>2, <2>3, OneFacts DEF OneIInv, Known, Born, Alive, Current
  <2>6. Watching'
    BY <2>1, <2>3, <2>4 DEF Watching
  <2>7. Restarts'
    BY <2>2, <2>3, <2>4, OneFacts DEF OneIInv, Restarts, Restarting
  <2>8. Stops'
    BY <2>1, <2>3, <2>4, OneFacts DEF OneIInv, Stops
  <2>9. QED  BY <2>5, <2>6, <2>7, <2>8 DEF OneIInv
<1>5. QED  BY <1>1, <1>2, <1>3, <1>4 DEF Monitor

\* Nobody comes to life, and what is not known to the kernel stays unknown.
LEMMA OneFewer ==
  ASSUME TypeOK, ManagerInv, OneIInv,
         UNCHANGED <<state, proc, nprocs, mon, mproc, closedCh, pc, op, own, ch>>,
         \A p \in Procs : /\ Alive(p)' => Alive(p)
                          /\ os'[p] = "unborn" <=> os[p] = "unborn"
                          /\ os[p] = "gone" => os'[p] = "gone"
                          /\ os[p] # "running" => os'[p] # "running"
  PROVE  OneIInv'
<1>1. Known'
  BY DEF OneIInv, Known
<1>2. Born'
  BY DEF OneIInv, Born
<1>3. Watching'
  BY DEF OneIInv, Watching, Current
<1>4. Restarts'
  BY DEF OneIInv, Restarts
<1>5. Stops'
  <2>1. ASSUME NEW c \in Callers, pc[c] = "exitWait" PROVE own[c] \in Procs
    <3>1. own[c] = proc /\ state = "Stopping"
      BY <2>1 DEF OneIInv, Stops
    <3>2. QED  BY <3>1 DEF TypeOK, ManagerInv, StateHasProcess
  <2>2. QED  BY <2>1 DEF OneIInv, Stops
<1>6. QED  BY <1>1, <1>2, <1>3, <1>4, <1>5 DEF OneIInv

LEMMA OneKernel ==
  ASSUME TypeOK, TypeOK', ManagerInv, OneIInv,
         ReapZombies \/ \E p \in Procs : ContextKill(p) \/ ProcessExit(p)
  PROVE  OneIInv'
<1> USE DEF KeepsThreads, mgrVars, doneVars, osVars, monVars, locals
<1>1. UNCHANGED <<state, proc, nprocs, mon, mproc, closedCh, pc, op, own, ch>>
  BY DEF ReapZombies, ContextKill, ProcessExit, OSChange
<1>2. \A p \in Procs : /\ Alive(p)' => Alive(p)
                       /\ os'[p] = "unborn" <=> os[p] = "unborn"
                       /\ os[p] = "gone" => os'[p] = "gone"
                       /\ os[p] # "running" => os'[p] # "running"
  <2>1. CASE ReapZombies
    BY <2>1 DEF ReapZombies, Alive
  <2>2. CASE \E p \in Procs : ContextKill(p) \/ ProcessExit(p)
    BY <2>2 DEF ContextKill, ProcessExit, Kill, Alive, TypeOK
  <2>3. QED  BY <2>1, <2>2
<1>3. QED  BY <1>1, <1>2, OneFewer

LEMMA OneAutoRestart ==
  ASSUME TypeOK, TypeOK', OneIInv, NEW p \in Procs, AutoRestart(p)
  PROVE  OneIInv'
<1>1. /\ UNCHANGED <<state, proc, nprocs, os, mon, mproc, closedCh, own, ch>> /\ p \in Threads
      /\ pc[p] = "sleep" /\ pc'[p] = "restart"
      /\ \A u \in Threads \ {p} : pc'[u] = pc[u] /\ op'[u] = op[u]
  BY OneFacts DEF AutoRestart, Goto, TypeOK, KeepsManager, KeepsRest, mgrVars, doneVars, osVars, monVars, locals
<1>2. Known' /\ Born'
  BY <1>1 DEF OneIInv, Known, Born, Alive
<1>3. Watching'
  BY <1>1 DEF OneIInv, Watching, Current
<1>4. Restarts'
  BY <1>1, OneFacts DEF OneIInv, Restarts, Restarting
<1>5. Stops'
  BY <1>1, OneFacts DEF OneIInv, Stops
<1>6. QED  BY <1>2, <1>3, <1>4, <1>5 DEF OneIInv

\* Steps that do not concern the log line.
LEMMA LogsKept ==
  ASSUME Logs, UNCHANGED <<proc, panicked>>,
         \A t \in Threads : pc'[t] = pc[t] \/ pc'[t] \notin {"startMonitoring", "startLog", "restart"},
         \A t \in Threads : pc'[t] = "reset" => pc[t] \in {"restart", "reset"}
  PROVE  Logs'
BY ProcsAreThreads DEF Logs

LEMMA LogsThread ==
  ASSUME TypeOK, ManagerInv, OneIInv, Logs, TimersSlow, NEW t \in Threads, Step(t)
  PROVE  Logs'
<1> USE DEF Goto, Return, Continue, KeepsManager, KeepsDone, KeepsRest, mgrVars, doneVars, osVars, monVars, locals
<1>1. CASE StartRefused(t) \/ StartFails(t) \/ StopRefused(t) \/ SendStopSignal(t) \/ WaitForShutdown(t)
           \/ StoppedGracefully(t) \/ RestartDelay(t) \/ CountRestart(t) \/ Close(t)
  BY <1>1, LogsKept DEF StartRefused, StartFails, StopRefused, SendStopSignal, WaitForShutdown,
     StoppedGracefully, RestartDelay, CountRestart, Close, CloseCancel, CloseCheck, TypeOK
<1>2. CASE StartProcess(t)
  <2>1. /\ proc' # NoProc /\ state = "Stopped" /\ panicked' = panicked /\ pc'[t] = "startMonitoring"
        /\ \A u \in Threads \ {t} : pc'[u] = pc[u]
    BY <1>2, OneFacts DEF StartProcess, Launch, TypeOK, NoProc
  <2>2. \A p \in Procs : pc[p] \notin {"restart", "reset"}
    BY <2>1 DEF OneIInv, Restarts, Restarting
  <2>3. QED  BY <2>1, <2>2, ProcsAreThreads DEF Logs
<1>3. CASE StartMonitoring(t)
  <2>1. /\ UNCHANGED <<proc, panicked>> /\ pc[t] = "startMonitoring" /\ pc'[t] = "startLog"
        /\ \A u \in Threads \ {t} : pc'[u] = pc[u]
    BY <1>3 DEF StartMonitoring, TypeOK
  <2>2. proc # NoProc
    BY <2>1 DEF OneIInv, Watching, Current, ManagerInv, StateHasProcess
  <2>3. QED  BY <2>1, <2>2, ProcsAreThreads DEF Logs
<1>4. CASE StartLog(t)
  <2>1. /\ proc' = proc /\ pc[t] = "startLog" /\ pc'[t] \in {"count", "idle"}
        /\ \A u \in Threads \ {t} : pc'[u] = pc[u]
    BY <1>4 DEF StartLog, TypeOK
  <2>2. ~ panicked'
    BY <1>4, <2>1 DEF StartLog, Logs
  <2>3. QED  BY <2>1, <2>2, ProcsAreThreads DEF Logs
<1>5. CASE StopBegin(t)
  <2>1. /\ proc' = proc /\ pc'[t] = "signal" /\ \A u \in Threads \ {t} : pc'[u] = pc[u]
    BY <1>5 DEF StopBegin, TypeOK
  <2>2. ~ panicked'
    BY <1>5 DEF StopBegin, ManagerInv, StateHasProcess
  <2>3. QED  BY <2>1, <2>2, ProcsAreThreads DEF Logs
<1>6. CASE ForceKill(t)
  BY <1>6, LogsKept DEF ForceKill, GraceOver, TypeOK
<1>7. CASE CleanupState(t)
  <2>1. Quiet
    BY <1>7, Elsewhere DEF CleanupState, TimerFires, OneIInv
  <2>2. \A u \in Threads : pc[u] # "startLog"
    BY <2>1 DEF Quiet, Blocked
  <2>3. /\ panicked' = panicked /\ pc'[t] \in {"delay", "idle"} /\ \A u \in Threads \ {t} : pc'[u] = pc[u]
    BY <1>7 DEF CleanupState, TypeOK
  <2>4. QED  BY <2>2, <2>3, ProcsAreThreads DEF Logs
<1>8. CASE RestartBegin(t)
  <2>1. pc[t] = "restart" /\ UNCHANGED <<proc, panicked>>
    BY <1>8 DEF RestartBegin
  <2>2. /\ pc'[t] \in {"stop", "delay", "reset"} /\ \A u \in Threads \ {t} : pc'[u] = pc[u]
    <3> DEFINE l == CASE state = "Running" -> "stop" [] state = "Stopped" -> "delay" [] OTHER -> "reset"
    <3>1. l \in {"stop", "delay", "reset"}
      OBVIOUS
    <3> HIDE DEF l
    <3>2. pc' = [pc EXCEPT ![t] = l]
      BY <1>8 DEF RestartBegin, l
    <3>3. QED  BY <3>1, <3>2 DEF TypeOK
  <2>3. QED  BY <2>1, <2>2, LogsKept
<1>9. CASE ResetState(t)
  <2>1. /\ pc[t] = "reset" /\ panicked' = panicked /\ pc'[t] = "delay"
        /\ \A u \in Threads \ {t} : pc'[u] = pc[u]
    BY <1>9 DEF ResetState, TypeOK
  <2>2. t \in Procs
    BY <2>1, Elsewhere DEF OneIInv, Restarting
  <2>3. \A u \in Threads : pc[u] # "startLog"
    BY <2>1, <2>2 DEF Logs
  <2>4. QED  BY <2>1, <2>3, ProcsAreThreads DEF Logs
<1>10. QED
  BY <1>1, <1>2, <1>3, <1>4, <1>5, <1>6, <1>7, <1>8, <1>9 DEF Step, Start, Stop, Restart

LEMMA LogsStep ==
  ASSUME TypeOK, ManagerInv, OneIInv, Logs, TimersSlow, "restart" \notin Methods, [Next]_vars
  PROVE  Logs'
<1> USE DEF KeepsThreads, mgrVars, doneVars, osVars, monVars, locals
<1>1. CASE \E c \in Callers : Call(c)
  <2>1. PICK c \in Callers : Call(c)
    BY <1>1
  <2>2. /\ UNCHANGED <<proc, panicked>> /\ pc'[c] \notin {"startMonitoring", "startLog", "restart", "reset"}
        /\ \A u \in Threads \ {c} : pc'[u] = pc[u]
    BY <2>1, NodeAssumption, ProcsAreThreads DEF Call, Goto, TypeOK
  <2>3. QED  BY <2>2, LogsKept
<1>2. CASE \E t \in Threads : Step(t)
  BY <1>2, LogsThread
<1>3. ASSUME NEW p \in Procs, AutoRestart(p) PROVE Logs'
  <2>1. /\ Quiet /\ UNCHANGED <<proc, panicked>> /\ pc'[p] = "restart"
        /\ \A u \in Threads \ {p} : pc'[u] = pc[u]
    BY <1>3, ProcsAreThreads DEF AutoRestart, TimerFires, Goto, KeepsManager, KeepsRest, TypeOK
  <2>2. \A u \in Threads : pc[u] \notin {"startMonitoring", "startLog"}
    BY <2>1 DEF Quiet, Blocked
  <2>3. QED  BY <2>1, <2>2, ProcsAreThreads DEF Logs
<1>4. ASSUME NEW p \in Procs, HandleProcessCrash(p) PROVE Logs'
  <2>1. /\ UNCHANGED <<proc, panicked>> /\ p \in Threads
        /\ pc' = pc \/ pc' = [pc EXCEPT ![p] = "sleep"]
    BY <1>4, ProcsAreThreads DEF HandleProcessCrash, Crash, Goto
  <2>2. QED  BY <2>1, LogsKept DEF TypeOK
<1>5. CASE \/ \E p \in Procs : \/ MonitorRead(p) \/ MonitorWait(p) \/ MonitorIgnores(p)
                               \/ ContextKill(p) \/ ProcessExit(p)
           \/ ReapZombies \/ UNCHANGED vars
  <2>1. UNCHANGED <<proc, panicked, pc>>
    BY <1>5 DEF MonitorRead, MonitorWait, MonitorIgnores, ContextKill, ProcessExit, OSChange,
       ReapZombies, vars
  <2>2. QED  BY <2>1, LogsKept
<1>6. QED  BY <1>1, <1>2, <1>3, <1>4, <1>5, StepCases DEF Monitor

\* OneKnownNode: whoever calls Start, Stop and Close, and however often nodes crash
\* and are restarted by the manager, there is never a second node, nor a running one
\* that the manager does not know, and Start finds the process it logs.  A Restart by
\* a caller breaks it, and so do timers that overtake what is ready to run.
THEOREM NoNodeIsLost ==
  ASSUME TimersSlow, "restart" \notin Methods
  PROVE  Spec => []OneKnownNode
<1>1. ASSUME Init PROVE OneIInv /\ Logs
  <2>1. /\ \A p \in Procs : os[p] = "unborn" /\ mon[p] = "none"
        /\ \A t \in Threads : pc[t] = "idle" /\ op[t] = "none"
    BY <1>1 DEF Init
  <2>2. \A p \in Procs : ~ (p <= nprocs)
    BY <1>1, NodeAssumption DEF Init, Procs
  <2>3. Known /\ Born /\ Watching
    BY <2>1, <2>2 DEF Known, Born, Watching, Alive
  <2>4. Restarts /\ Stops
    BY <2>1, ProcsAreThreads DEF Restarts, Restarting, Stops
  <2>5. Logs
    BY <1>1, <2>1, ProcsAreThreads DEF Logs, Init
  <2>6. QED  BY <2>3, <2>4, <2>5 DEF OneIInv
<1>2. TypeOK /\ TypeOK' /\ ManagerInv /\ OneIInv /\ [Next]_vars => OneIInv'
  <2> SUFFICES ASSUME TypeOK, TypeOK', ManagerInv, OneIInv, [Next]_vars PROVE OneIInv'
    OBVIOUS
  <2>1. CASE \E c \in Callers : Call(c)
    BY <2>1, OneCall
  <2>2. CASE \E t \in Threads : Step(t)
    BY <2>2, OneStart, OneStop, OneRestart DEF Step
  <2>3. CASE \E p \in Procs : Monitor(p) \/ AutoRestart(p) \/ ContextKill(p) \/ ProcessExit(p)
    BY <2>3, OneMonitor, OneAutoRestart, OneKernel
  <2>4. CASE ReapZombies
    BY <2>4, OneKernel
  <2>5. CASE UNCHANGED vars
    BY <2>5, OneFewer DEF vars, mgrVars, osVars, monVars, locals, doneVars, Alive
  <2>6. QED  BY <2>1, <2>2, <2>3, <2>4, <2>5, StepCases
<1>3. TypeOK /\ ManagerInv /\ OneIInv /\ Logs /\ [Next]_vars => Logs'
  BY LogsStep
<1>4. OneIInv /\ Logs => OneKnownNode
  <2>1. Known /\ Logs => OneKnownNode
    BY DEF Known, Logs, OneKnownNode, AtMostOneNode, NoOrphan, FoundToLog, Alive
  <2>2. QED  BY <2>1 DEF OneIInv
<1>5. QED  BY <1>1, <1>2, <1>3, <1>4, TypeCorrect, ManagerConsistent, PTL DEF Spec
=============================================================================
