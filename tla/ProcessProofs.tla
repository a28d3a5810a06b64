--------------------------- MODULE ProcessProofs ---------------------------
(***************************************************************************)
(* Theorems about ProcessManager, for any plans, any number of processes   *)
(* and any troubles: ProcessInv, and that the data directory has one user  *)
(* at a time.  Both rest on where Run is: what link, data and backup are   *)
(* to each other, and which process may be alive, follows from run.        *)
(***************************************************************************)
EXTENDS ProcessManager, TLAPS

Upgrading == run \in {"backup", "hook", "unlink", "symlink", "restore"}
Startable == {"genesis"} \cup Installed

\* The upgrade in progress is one whose binary is in place, and has a backup.
Prepared ==
  /\ Upgrading => plan \in Installed
  /\ Upgrading /\ run # "backup" => backup # "none"

\* Link, data and backup, as long as no disk fails and wemixvisor survives.
DiskFits == trouble \subseteq {"stubborn"} =>
  /\ run \in {"off", "ensure", "link"} /\ link = "none" => data = "genesis"
  /\ run = "link" => link = "none"
  /\ run \in {"off", "ensure"} => link \in {data, "none"}
  /\ run \notin {"off", "ensure", "link", "unlink", "symlink", "restore"} => link = data
  /\ run \in {"hook", "restore"} => link = backup
  /\ run \notin {"unlink", "symlink"} => link \in Startable \cup {"none"}
  /\ run \in {"unlink", "symlink"} => data = plan

\* As long as nodes exit when asked to, and wemixvisor survives.
OneUser == trouble \subseteq {"disk"} =>
  \A p \in Procs : Alive(p) => p = cmd /\ run \in {"wait", "stop", "grace"}

\* TypeOK, in two parts.
FlagTypes ==
  needsUpdate \in BOOLEAN /\ signalled \in BOOLEAN /\ ctxDone \in BOOLEAN
OtherTypes ==
  /\ run \in {"off", "ensure", "link", "watch", "loop", "start", "wait", "stop",
              "grace", "failed", "backup", "hook", "unlink", "symlink", "restore"}
  /\ link \in Versions \cup {"none"} /\ data \in Versions \cup {"dirty"}
  /\ made \subseteq Plans
  /\ backup \in Versions \cup {"none", "dirty"} /\ savedFile \in Plans \cup {NoPlan}
  /\ plan \in Plans \cup {NoPlan} /\ file \in Plans \cup {NoPlan}
  /\ current \in Plans \cup {NoPlan}
  /\ cmd \in 0..MaxProcs /\ crashes \in 0..MaxCrashes /\ trouble \in Troubles
ProcTypes == os \in [Procs -> {"running", "termed", "killed", "ok", "bad"}]

ProcessIInv ==
  FlagTypes /\ OtherTypes /\ ProcTypes /\ Prepared /\ DiskFits /\ OneUser

USE DEF vars, diskVars, upgradeVars, watchVars, procVars, envVars

LEMMA ProcessInitial == Init => ProcessIInv
<1> SUFFICES ASSUME Init PROVE ProcessIInv
  OBVIOUS
<1> USE ProcessAssumption DEF Init
<1>1. FlagTypes  BY DEF FlagTypes
<1>2. OtherTypes  BY DEF OtherTypes, Versions
<1>3. ProcTypes  BY DEF ProcTypes
<1>4. Prepared  BY DEF Prepared, Upgrading
<1>5. DiskFits  BY DEF DiskFits, Startable
<1>6. OneUser  BY DEF OneUser, Alive
<1>7. QED  BY <1>1, <1>2, <1>3, <1>4, <1>5, <1>6 DEF ProcessIInv

-----------------------------------------------------------------------------
(* Every step, one part of the invariant at a time.                        *)

LEMMA FlagTypesStep == ProcessIInv /\ [Next]_vars => FlagTypes'
<1> SUFFICES ASSUME FlagTypes, [Next]_vars PROVE FlagTypes'
  BY DEF ProcessIInv
<1> USE DEF FlagTypes, Keeps, Returns, RunEnds, Forget, UpgradeDone, KeepsDisk, KeepsData,
            KeepsRun
<1>1. CASE Prepare
  BY <1>1 DEF Prepare, RunBegin, EnsureCurrentLink, SymLinkToGenesis, SymLinkFails, StartWatcher
<1>2. CASE NextCycle \/ Finish  BY <1>2 DEF NextCycle, Finish
<1>3. CASE RunProcess
  BY <1>3 DEF RunProcess, CannotStart, StartProcess, ProcessExited, StopNeeded, SignalProcess,
              StoppedGracefully, GraceOver
<1>4. CASE PerformUpgrade
  <2>1. CASE ProcessFailed  BY <2>1 DEF ProcessFailed
  <2>2. CASE CreateBackup \/ BackupFails \/ ExecuteHook \/ HookFails \/ RemoveLink
    BY <2>2 DEF CreateBackup, BackupFails, ExecuteHook, HookFails, HookWrites, RemoveLink
  <2>3. CASE CreateLink \/ CreateLinkFails \/ RestoreBackup
    BY <2>3 DEF CreateLink, CreateLinkFails, RestoreBackup
  <2>4. QED  BY <1>4, <2>1, <2>2, <2>3 DEF PerformUpgrade
<1>5. CASE \E p \in Procs : NodeExits(p) \/ NodeFails(p)  BY <1>5 DEF NodeExits, NodeFails
<1>6. CASE \E p \in Plans : SchedulePlan(p)  BY <1>6 DEF SchedulePlan
<1>7. CASE DetectPlan  BY <1>7 DEF DetectPlan
<1>8. CASE Signal \/ CancelContext  BY <1>8 DEF Signal, CancelContext
<1>9. CASE Crash  BY <1>9 DEF Crash
<1>10. QED
  BY <1>1, <1>2, <1>3, <1>4, <1>5, <1>6, <1>7, <1>8, <1>9 DEF Next, Run

LEMMA OtherTypesStep == ProcessIInv /\ [Next]_vars => OtherTypes'
<1> SUFFICES ASSUME OtherTypes, Prepared, [Next]_vars PROVE OtherTypes'
  BY DEF ProcessIInv
<1> USE ProcessAssumption
    DEF OtherTypes, Versions, Procs, Goto, Keeps,
        Returns, RunEnds, Forget, UpgradeDone, KeepsDisk, KeepsData, KeepsRun
<1>1. CASE Prepare
  BY <1>1 DEF Prepare, RunBegin, EnsureCurrentLink, SymLinkToGenesis, SymLinkFails, StartWatcher
<1>2. CASE NextCycle \/ Finish  BY <1>2 DEF NextCycle, Finish
<1>3. CASE RunProcess
  <2>1. CASE StartProcess  BY <2>1 DEF StartProcess, Launch
  <2>2. CASE CannotStart \/ ProcessExited \/ StopNeeded
    BY <2>2 DEF CannotStart, ProcessExited, StopNeeded
  <2>3. CASE SignalProcess \/ StoppedGracefully \/ GraceOver
    BY <2>3 DEF SignalProcess, StoppedGracefully, GraceOver
  <2>4. QED  BY <1>3, <2>1, <2>2, <2>3 DEF RunProcess
<1>4. CASE PerformUpgrade
  <2>1. CASE ProcessFailed  BY <2>1 DEF ProcessFailed
  <2>2. CASE CreateBackup \/ BackupFails  BY <2>2 DEF CreateBackup, BackupFails
  <2>3. CASE ExecuteHook \/ HookFails \/ RemoveLink \/ CreateLink
    BY <2>3 DEF ExecuteHook, HookFails, HookWrites, RemoveLink, CreateLink, Prepared, Upgrading
  <2>4. CASE CreateLinkFails \/ RestoreBackup
    BY <2>4 DEF CreateLinkFails, RestoreBackup, Prepared, Upgrading
  <2>5. QED  BY <1>4, <2>1, <2>2, <2>3, <2>4 DEF PerformUpgrade
<1>5. CASE \E p \in Procs : NodeExits(p) \/ NodeFails(p)  BY <1>5 DEF NodeExits, NodeFails
<1>6. CASE \E p \in Plans : SchedulePlan(p)  BY <1>6 DEF SchedulePlan
<1>7. CASE DetectPlan  BY <1>7 DEF DetectPlan
<1>8. CASE Signal \/ CancelContext  BY <1>8 DEF Signal, CancelContext
<1>9. CASE Crash  BY <1>9 DEF Crash, Prepared, Upgrading
<1>10. CASE UNCHANGED vars  BY <1>10
<1>11. QED
  BY <1>1, <1>2, <1>3, <1>4, <1>5, <1>6, <1>7, <1>8, <1>9, <1>10 DEF Next, Run

LEMMA ProcTypesStep == ProcessIInv /\ [Next]_vars => ProcTypes'
<1> SUFFICES ASSUME ProcTypes, cmd \in 0..MaxProcs, [Next]_vars PROVE ProcTypes'
  BY DEF ProcessIInv, OtherTypes
<1> USE DEF ProcTypes, Keeps, Returns, RunEnds, Forget, UpgradeDone, KeepsDisk, KeepsData, KeepsRun
<1>1. CASE UNCHANGED os  BY <1>1
<1>2. CASE StartProcess  BY <1>2 DEF StartProcess, Launch
<1>3. CASE SignalProcess  BY <1>3 DEF SignalProcess
<1>4. CASE GraceOver  BY <1>4 DEF GraceOver
<1>5. CASE \E p \in Procs : NodeExits(p) \/ NodeFails(p)  BY <1>5 DEF NodeExits, NodeFails
<1>6. CASE CancelContext  BY <1>6 DEF CancelContext
<1>7. [Next]_vars => StartProcess \/ SignalProcess \/ GraceOver \/ CancelContext
        \/ UNCHANGED os \/ \E p \in Procs : NodeExits(p) \/ NodeFails(p)
  BY DEF Next, Run, Prepare, RunBegin, EnsureCurrentLink, SymLinkToGenesis, SymLinkFails,
         StartWatcher, NextCycle, Finish, RunProcess, CannotStart, ProcessExited, StopNeeded,
         StoppedGracefully, PerformUpgrade, ProcessFailed, CreateBackup, BackupFails,
         ExecuteHook, HookFails, HookWrites, RemoveLink, CreateLink, CreateLinkFails, RestoreBackup,
         SchedulePlan, DetectPlan, Signal, Crash
<1>8. QED  BY <1>1, <1>2, <1>3, <1>4, <1>5, <1>6, <1>7

LEMMA PreparedStep == ProcessIInv /\ [Next]_vars => Prepared'
<1> SUFFICES ASSUME OtherTypes, Prepared, [Next]_vars PROVE Prepared'
  BY DEF ProcessIInv
<1> USE ProcessAssumption
    DEF Prepared, Upgrading, Goto, Keeps,
        Returns, RunEnds, Forget, UpgradeDone, KeepsDisk, KeepsData, KeepsRun
<1>1. CASE Prepare
  BY <1>1 DEF Prepare, RunBegin, EnsureCurrentLink, SymLinkToGenesis, SymLinkFails, StartWatcher
<1>2. CASE NextCycle \/ Finish  BY <1>2 DEF NextCycle, Finish
<1>3. CASE RunProcess
  BY <1>3 DEF RunProcess, CannotStart, StartProcess, ProcessExited, StopNeeded, SignalProcess,
              StoppedGracefully, GraceOver
<1>4. CASE PerformUpgrade
  <2>1. CASE ProcessFailed  BY <2>1 DEF ProcessFailed
  <2>2. CASE CreateBackup  BY <2>2 DEF CreateBackup, OtherTypes, Versions
  <2>3. CASE BackupFails \/ ExecuteHook \/ HookFails \/ RemoveLink \/ CreateLink
             \/ CreateLinkFails \/ RestoreBackup
    BY <2>3 DEF BackupFails, ExecuteHook, HookFails, HookWrites, RemoveLink, CreateLink,
                CreateLinkFails, RestoreBackup
  <2>4. QED  BY <1>4, <2>1, <2>2, <2>3 DEF PerformUpgrade
<1>5. CASE \E p \in Procs : NodeExits(p) \/ NodeFails(p)  BY <1>5 DEF NodeExits, NodeFails
<1>6. CASE (\E p \in Plans : SchedulePlan(p)) \/ DetectPlan \/ Signal
  BY <1>6 DEF SchedulePlan, DetectPlan, Signal
<1>7. CASE CancelContext \/ Crash  BY <1>7 DEF CancelContext, Crash
<1>8. CASE UNCHANGED vars  BY <1>8
<1>9. QED  BY <1>1, <1>2, <1>3, <1>4, <1>5, <1>6, <1>7, <1>8 DEF Next, Run

LEMMA DiskFitsStep == ProcessIInv /\ [Next]_vars => DiskFits'
<1> SUFFICES ASSUME OtherTypes, Prepared, DiskFits, [Next]_vars, trouble' \subseteq {"stubborn"}
             PROVE  DiskFits'
  BY DEF ProcessIInv, DiskFits
<1> USE ProcessAssumption
    DEF DiskFits, Startable, Goto, Keeps,
        Returns, RunEnds, Forget, UpgradeDone, KeepsDisk, KeepsData, KeepsRun
<1>0. trouble' = trouble /\ "disk" \notin trouble /\ "crash" \notin trouble
  BY DEF Next, Run, Prepare, RunBegin, EnsureCurrentLink, SymLinkToGenesis, SymLinkFails,
         StartWatcher, NextCycle, Finish, RunProcess, CannotStart, StartProcess, ProcessExited,
         StopNeeded, SignalProcess, StoppedGracefully, GraceOver, PerformUpgrade,
         ProcessFailed, CreateBackup, BackupFails, ExecuteHook, HookFails, HookWrites, RemoveLink,
         CreateLink, CreateLinkFails, RestoreBackup, NodeExits, NodeFails, SchedulePlan,
         DetectPlan, Signal, CancelContext, Crash
<1>10. data # "none"  BY DEF OtherTypes, Versions
<1>1. CASE Prepare
  BY <1>0, <1>1 DEF Prepare, RunBegin, EnsureCurrentLink, SymLinkToGenesis, SymLinkFails,
                    StartWatcher
<1>2. CASE NextCycle \/ Finish  BY <1>0, <1>2, <1>10 DEF NextCycle, Finish
<1>3. CASE RunProcess
  BY <1>0, <1>3 DEF RunProcess, CannotStart, StartProcess, ProcessExited, StopNeeded,
                    SignalProcess, StoppedGracefully, GraceOver
<1>4. CASE PerformUpgrade
  <2> USE DEF Prepared, Upgrading
  <2>1. CASE ProcessFailed  BY <1>0, <1>10, <2>1 DEF ProcessFailed
  <2>2. CASE CreateBackup \/ BackupFails
    BY <1>0, <1>10, <2>2 DEF CreateBackup, BackupFails
  <2>3. CASE ExecuteHook \/ HookFails \/ RemoveLink
    BY <1>0, <2>3 DEF ExecuteHook, HookFails, HookWrites, RemoveLink
  <2>4. CASE CreateLink \/ CreateLinkFails \/ RestoreBackup
    BY <1>0, <2>4 DEF CreateLink, CreateLinkFails, RestoreBackup
  <2>5. QED  BY <1>4, <2>1, <2>2, <2>3, <2>4 DEF PerformUpgrade
<1>5. CASE \E p \in Procs : NodeExits(p) \/ NodeFails(p)  BY <1>0, <1>5 DEF NodeExits, NodeFails
<1>6. CASE (\E p \in Plans : SchedulePlan(p)) \/ DetectPlan \/ Signal
  BY <1>0, <1>6 DEF SchedulePlan, DetectPlan, Signal
<1>7. CASE CancelContext \/ Crash  BY <1>0, <1>7 DEF CancelContext, Crash
<1>8. CASE UNCHANGED vars  BY <1>8
<1>9. QED  BY <1>1, <1>2, <1>3, <1>4, <1>5, <1>6, <1>7, <1>8 DEF Next, Run

LEMMA OneUserStep == ProcessIInv /\ [Next]_vars => OneUser'
<1> SUFFICES ASSUME ProcTypes, cmd \in 0..MaxProcs, OneUser, [Next]_vars,
                    trouble' \subseteq {"disk"}
             PROVE  OneUser'
  BY DEF ProcessIInv, OtherTypes, OneUser
<1> USE DEF OneUser, Alive, ProcTypes, Goto, Keeps, Returns, RunEnds, Forget, UpgradeDone,
            KeepsDisk, KeepsData, KeepsRun
<1>0. trouble' = trouble /\ "stubborn" \notin trouble /\ "crash" \notin trouble
  BY DEF Next, Run, Prepare, RunBegin, EnsureCurrentLink, SymLinkToGenesis, SymLinkFails,
         StartWatcher, NextCycle, Finish, RunProcess, CannotStart, StartProcess, ProcessExited,
         StopNeeded, SignalProcess, StoppedGracefully, GraceOver, PerformUpgrade,
         ProcessFailed, CreateBackup, BackupFails, ExecuteHook, HookFails, HookWrites, RemoveLink,
         CreateLink, CreateLinkFails, RestoreBackup, NodeExits, NodeFails, SchedulePlan,
         DetectPlan, Signal, CancelContext, Crash
<1>1. CASE Prepare
  BY <1>0, <1>1 DEF Prepare, RunBegin, EnsureCurrentLink, SymLinkToGenesis, SymLinkFails,
                    StartWatcher
<1>2. CASE NextCycle \/ Finish  BY <1>0, <1>2 DEF NextCycle, Finish
<1>3. CASE RunProcess
  <2>1. CASE StartProcess  BY <1>0, <2>1 DEF StartProcess, Launch
  <2>2. CASE CannotStart \/ ProcessExited \/ StopNeeded
    BY <1>0, <2>2 DEF CannotStart, ProcessExited, StopNeeded
  <2>3. CASE SignalProcess  BY <1>0, <2>3 DEF SignalProcess
  <2>4. CASE StoppedGracefully \/ GraceOver
    BY <1>0, <2>4 DEF StoppedGracefully, GraceOver
  <2>5. QED  BY <1>3, <2>1, <2>2, <2>3, <2>4 DEF RunProcess
<1>4. CASE PerformUpgrade
  BY <1>0, <1>4
     DEF PerformUpgrade, ProcessFailed, CreateBackup, BackupFails, ExecuteHook, HookFails,
         HookWrites, RemoveLink, CreateLink, CreateLinkFails, RestoreBackup
<1>5. CASE \E p \in Procs : NodeExits(p) \/ NodeFails(p)  BY <1>0, <1>5 DEF NodeExits, NodeFails
<1>6. CASE (\E p \in Plans : SchedulePlan(p)) \/ DetectPlan \/ Signal
  BY <1>0, <1>6 DEF SchedulePlan, DetectPlan, Signal
<1>7. CASE CancelContext \/ Crash  BY <1>0, <1>7 DEF CancelContext, Crash
<1>8. CASE UNCHANGED vars  BY <1>8
<1>9. QED  BY <1>1, <1>2, <1>3, <1>4, <1>5, <1>6, <1>7, <1>8 DEF Next, Run

-----------------------------------------------------------------------------

LEMMA ProcessInductive == Spec => []ProcessIInv
<1>1. ProcessIInv /\ [Next]_vars => ProcessIInv'
  <2> HIDE DEF vars
  <2>1. QED
    BY FlagTypesStep, OtherTypesStep, ProcTypesStep, PreparedStep, DiskFitsStep, OneUserStep
       DEF ProcessIInv
<1>2. QED  BY ProcessInitial, <1>1, PTL DEF Spec

\* ProcessInv: whatever fails between hook, link and restore, a node is only run
\* on data made for its binary (performUpgrade, restoreBackupOnFailure).
THEOREM ProcessInvariant == Spec => []ProcessInv
<1>1. ProcessIInv => ProcessInv
  <2> SUFFICES ASSUME ProcessIInv PROVE ProcessInv
    OBVIOUS
  <2>1. TypeOK  BY DEF ProcessIInv, FlagTypes, OtherTypes, ProcTypes, TypeOK
  <2>2. DataFitsBinary  BY DEF ProcessIInv, DiskFits, DataFitsBinary
  <2>3. QED  BY <2>1, <2>2 DEF ProcessInv
<1>2. QED  BY <1>1, ProcessInductive, PTL

\* DataIsExclusive: of a node, the next node, backup, hook and restore one at a
\* time uses the data directory (waitForProcessOrUpgrade, stopProcess).
THEOREM OneUserAtATime == Spec => []DataIsExclusive
<1>1. ProcessIInv => DataIsExclusive
  BY DEF ProcessIInv, OneUser, DataIsExclusive, AtMostOneNode, UpgradeQuiesced
<1>2. QED  BY <1>1, ProcessInductive, PTL
=============================================================================
