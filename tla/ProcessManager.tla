--------------------------- MODULE ProcessManager ---------------------------
(***************************************************************************)
(* The process manager, internal/process/manager.go: Run keeps one node    *)
(* process going and, when it fails while an upgrade is known, upgrades    *)
(* and runs the next one.  With it the current link                        *)
(* (internal/config/paths.go) and the upgrade's effects on the data        *)
(* directory (internal/hooks, internal/backup), which outlive wemixvisor.  *)
(*                                                                         *)
(* A data directory or a link is named by the binary it is made for.  The  *)
(* data directory holds the plan file, too, so that a backup saves and a   *)
(* restore overwrites it; and a restore puts back what was saved but takes *)
(* nothing away, so that what hooks have added is counted apart from data. *)
(* The file watcher is reduced to what it tells (UpgradeWatcher has more). *)
(* Each upgrade's binary has been installed, or not, beforehand, so that   *)
(* EnsureUpgradeBinary, which runs after ValidateUpgrade, finds it.        *)
(***************************************************************************)
EXTENDS Naturals

CONSTANTS
  Plans,               \* the upgrades
  Installed,           \* those whose binary is in place
  NoPlan,
  RestartAfterUpgrade, \* cfg.RestartAfterUpgrade
  MaxProcs,            \* bound: node processes alive at the same time
  MaxCrashes,          \* bound: crashes of wemixvisor
  Troubles             \* the combinations of troubles to look at, see AllTroubles

Procs    == 1..MaxProcs
Versions == {"genesis"} \cup Plans

\* wemixvisor is killed; os.Symlink and RestoreBackup fail (the disk is full);
\* the node does not exit on SIGTERM within ShutdownGrace.
AllTroubles == {"crash", "disk", "stubborn"}

ASSUME ProcessAssumption ==
  /\ Installed \subseteq Plans
  /\ Plans \cap {NoPlan, "genesis", "none", "dirty"} = {}
  /\ RestartAfterUpgrade \in BOOLEAN
  /\ Troubles \subseteq SUBSET AllTroubles
  /\ MaxProcs \in Nat /\ MaxCrashes \in Nat

VARIABLES
  run,       \* where Run is: "off" before it and after it returned
  link,      \* what the current link points to
  data,      \* the version the data directory is made for, or "dirty"
  made,      \* the upgrades whose hook may have added files to the data directory
  plan,      \* the upgrade that performUpgrade is given
  backup,    \* the data in the archive at its backupPath, or "none"
  savedFile, \* the plan file in that archive
  file,      \* the plan in upgrade-info.json
  current, needsUpdate, \* what the watcher tells
  cmd,       \* m.cmd: the process started last, 0 before
  os,        \* the processes, numbered anew when they are gone
  signalled, \* sigChan holds a signal
  ctxDone,   \* the context given to Run is cancelled
  crashes,   \* crashes of wemixvisor so far
  trouble    \* what may go wrong in this behaviour

diskVars    == <<link, data, made>>
upgradeVars == <<plan, backup, savedFile>>
watchVars   == <<file, current, needsUpdate>>
procVars    == <<cmd, os>>
envVars     == <<signalled, ctxDone, crashes, trouble>>
vars        == <<run, diskVars, upgradeVars, watchVars, procVars, envVars>>

Alive(p) == os[p] \in {"running", "termed", "killed"}

TypeOK ==
  /\ run \in {"off", "ensure", "link", "watch", "loop", "start", "wait", "stop",
              "grace", "failed", "backup", "hook", "unlink", "symlink", "restore"}
  /\ link \in Versions \cup {"none"}
  /\ data \in Versions \cup {"dirty"}
  /\ made \subseteq Plans
  /\ backup \in Versions \cup {"none", "dirty"} /\ savedFile \in Plans \cup {NoPlan}
  /\ plan \in Plans \cup {NoPlan} /\ file \in Plans \cup {NoPlan}
  /\ current \in Plans \cup {NoPlan} /\ needsUpdate \in BOOLEAN
  /\ cmd \in 0..MaxProcs
  /\ os \in [Procs -> {"running", "termed", "killed", "ok", "bad"}]
  /\ signalled \in BOOLEAN /\ ctxDone \in BOOLEAN
  /\ crashes \in 0..MaxCrashes
  /\ trouble \in Troubles

Init ==
  /\ run = "off" /\ link = "none"
  /\ data = "genesis" /\ made = {}
  /\ plan = NoPlan /\ backup = "none" /\ savedFile = NoPlan
  /\ file = NoPlan /\ current = NoPlan /\ needsUpdate = FALSE
  /\ cmd = 0 /\ os = [p \in Procs |-> "ok"]
  /\ signalled = FALSE /\ ctxDone = FALSE /\ crashes = 0
  /\ trouble \in Troubles

Goto(from, to) == run = from /\ run' = to

\* Run returns, or wemixvisor dies: what it had in memory is gone.
UpgradeDone == plan' = NoPlan /\ backup' = "none" /\ savedFile' = NoPlan
Forget == /\ run' = "off" /\ UpgradeDone
          /\ current' = NoPlan /\ needsUpdate' = FALSE
          /\ signalled' = FALSE /\ ctxDone' = FALSE
RunEnds(from) == run = from /\ Forget /\ UNCHANGED <<crashes, trouble>>
Returns(from) == RunEnds(from) /\ UNCHANGED file
KeepsDisk == UNCHANGED diskVars
KeepsData == UNCHANGED <<data, made>>
Keeps(v)  == UNCHANGED <<watchVars, envVars, v>>

-----------------------------------------------------------------------------
(* Run, up to the main loop.                                               *)

\* wemixvisor is started, or started again.
RunBegin ==
  /\ Goto("off", "ensure")
  /\ Keeps(<<upgradeVars, procVars>>) /\ KeepsDisk

\* The link is recreated, to genesis, unless it leads to a binary.
EnsureCurrentLink ==
  /\ Goto("ensure", IF link \in {"genesis"} \cup Installed THEN "watch" ELSE "link")
  /\ link' = IF run' = "watch" THEN link ELSE "none"
  /\ Keeps(<<upgradeVars, procVars>>) /\ KeepsData

SymLinkToGenesis ==
  /\ Goto("link", "watch")
  /\ link' = "genesis"
  /\ Keeps(<<upgradeVars, procVars>>) /\ KeepsData

SymLinkFails ==
  /\ "disk" \in trouble
  /\ Returns("link")
  /\ UNCHANGED procVars /\ KeepsDisk

\* The watcher loads an existing file, and does not ask for an update.
StartWatcher ==
  /\ Goto("watch", "loop")
  /\ current' = file
  /\ UNCHANGED <<file, needsUpdate, envVars, upgradeVars, procVars>> /\ KeepsDisk

-----------------------------------------------------------------------------
(* The main loop: select with a default.                                   *)

NextCycle ==
  /\ ~ ctxDone /\ ~ signalled
  /\ Goto("loop", "start")
  /\ Keeps(<<upgradeVars, procVars>>) /\ KeepsDisk

\* A signal or the context: the process has exited or been killed before, so
\* that stopProcess and Kill have nothing left to do but wait for its end.
Finish ==
  /\ ctxDone \/ signalled
  /\ Returns("loop")
  /\ UNCHANGED procVars /\ KeepsDisk

-----------------------------------------------------------------------------
(* runProcess.                                                             *)

CannotStart ==
  /\ run = "start"
  /\ link \notin {"genesis"} \cup Installed \/ ctxDone
  /\ run' = "failed"
  /\ Keeps(<<upgradeVars, procVars>>) /\ KeepsDisk

Launch == \E p \in Procs :
  /\ ~ Alive(p)
  /\ cmd' = p
  /\ os' = [os EXCEPT ![p] = "running"]

StartProcess ==
  /\ Goto("start", "wait")
  /\ link \in {"genesis"} \cup Installed
  /\ ~ ctxDone
  /\ Launch
  /\ Keeps(upgradeVars) /\ KeepsDisk

\* waitForProcessOrUpgrade: the exit, a tick with an update, or the context.
ProcessExited ==
  /\ run = "wait" /\ ~ Alive(cmd)
  /\ run' = IF os[cmd] = "ok" THEN "loop" ELSE "failed"
  /\ Keeps(<<upgradeVars, procVars>>) /\ KeepsDisk

StopNeeded ==
  /\ needsUpdate \/ ctxDone
  /\ Goto("wait", "stop")
  /\ Keeps(<<upgradeVars, procVars>>) /\ KeepsDisk

\* Mutant: waitForProcessOrUpgrade leaves the stop to the next cycle.
SignalProcess_NoWait ==
  /\ Goto("stop", "loop")
  /\ os' = IF os[cmd] = "running" THEN [os EXCEPT ![cmd] = "termed"] ELSE os
  /\ Keeps(<<upgradeVars, cmd>>) /\ KeepsDisk

\* stopProcess: SIGTERM and SIGKILL fail for a process that has been waited
\* for, and that is an error; one that has just exited can be signalled.
SignalProcess ==
  /\ run = "stop"
  /\ run' \in IF Alive(cmd) THEN {"grace"} ELSE {"failed", "loop"}
  /\ os' = IF os[cmd] = "running" THEN [os EXCEPT ![cmd] = "termed"] ELSE os
  /\ Keeps(<<upgradeVars, cmd>>) /\ KeepsDisk

StoppedGracefully ==
  /\ run = "grace" /\ ~ Alive(cmd)
  /\ run' = "loop"
  /\ Keeps(<<upgradeVars, procVars>>) /\ KeepsDisk

\* The grace period ends with a SIGKILL, and without waiting for the end.  It may
\* end although the node has exited, since runProcess waits for the same process
\* and takes the answer; then the SIGKILL fails.
GraceOver ==
  /\ run = "grace"
  /\ "stubborn" \in trouble \/ ~ Alive(cmd)
  /\ run' = IF Alive(cmd) THEN "loop" ELSE "failed"
  /\ os' = IF Alive(cmd) THEN [os EXCEPT ![cmd] = "killed"] ELSE os
  /\ Keeps(<<upgradeVars, cmd>>) /\ KeepsDisk

-----------------------------------------------------------------------------
(* runProcessCycle after an error, and performUpgrade.                     *)

\* GetCurrentUpgrade and ValidateUpgrade.
ProcessFailed ==
  /\ run = "failed"
  /\ IF RestartAfterUpgrade /\ current \in Installed
       THEN /\ run' = "backup" /\ plan' = current
            /\ Keeps(<<backup, savedFile, procVars>>) /\ KeepsDisk
       ELSE Returns("failed") /\ UNCHANGED procVars /\ KeepsDisk

CreateBackup ==
  /\ Goto("backup", "hook")
  /\ backup' = data /\ savedFile' = file
  /\ Keeps(<<plan, procVars>>) /\ KeepsDisk

BackupFails == Returns("backup") /\ UNCHANGED procVars /\ KeepsDisk

\* The pre-upgrade script prepares the data for the new binary, or fails half
\* way through (or at once, or for lack of the right permissions).  It rewrites
\* files and, perhaps, adds some.
HookWrites(to) == data' \in to /\ made' = made \cup {plan} /\ UNCHANGED link

ExecuteHook ==
  /\ Goto("hook", "unlink")
  /\ HookWrites({plan})
  /\ Keeps(<<upgradeVars, procVars>>)

\* Mutant: the error of the hook is returned without a restore.
HookFails_NoRestore ==
  /\ Returns("hook")
  /\ HookWrites({data, "dirty"})
  /\ UNCHANGED procVars

HookFails ==
  /\ Goto("hook", "restore")
  /\ HookWrites({data, "dirty"})
  /\ Keeps(<<upgradeVars, procVars>>)

\* createSymlink: os.RemoveAll, and os.Symlink.
RemoveLink ==
  /\ Goto("unlink", "symlink")
  /\ link' = "none"
  /\ Keeps(<<upgradeVars, procVars>>) /\ KeepsData

CreateLink ==
  /\ Goto("symlink", "loop")
  /\ link' = plan
  /\ UpgradeDone
  /\ Keeps(procVars) /\ KeepsData

\* Mutant: the link is retried for ever.
CreateLinkFails_Retries ==
  /\ "disk" \in trouble
  /\ Goto("symlink", "unlink")
  /\ Keeps(<<upgradeVars, procVars>>) /\ KeepsDisk

CreateLinkFails ==
  /\ "disk" \in trouble
  /\ Goto("symlink", "restore")
  /\ Keeps(<<upgradeVars, procVars>>) /\ KeepsDisk

\* restoreBackupOnFailure, whose own failure is only logged; then Run returns
\* the error.  The archive is extracted over the directory: what it holds is as
\* it was, the plan file included, and what it does not hold stays.
RestoreBackup ==
  /\ RunEnds("restore")
  /\ \/ data' = backup /\ file' = savedFile
     \/ /\ "disk" \in trouble
        /\ data' \in {data, "dirty"} /\ file' \in {file, savedFile, NoPlan}
  /\ UNCHANGED <<link, made, procVars>>

-----------------------------------------------------------------------------
(* The rest of the world.                                                  *)

\* A node exits, on its own or because of a signal; SIGKILL ends it as well.
NodeExits(p) ==
  /\ Alive(p)
  /\ os' = [os EXCEPT ![p] = IF os[p] = "killed" THEN "bad" ELSE "ok"]
  /\ UNCHANGED <<run, upgradeVars, cmd>> /\ Keeps(diskVars)
NodeFails(p) ==
  /\ os[p] \in {"running", "termed"}
  /\ os' = [os EXCEPT ![p] = "bad"]
  /\ UNCHANGED <<run, upgradeVars, cmd>> /\ Keeps(diskVars)

KeepsRun == UNCHANGED <<run, diskVars, upgradeVars, procVars>>

SchedulePlan(p) ==
  /\ file # p
  /\ file' = p
  /\ UNCHANGED <<current, needsUpdate, envVars>> /\ KeepsRun

\* The watcher's monitor sees another plan than the current one.
DetectPlan ==
  /\ run \notin {"off", "ensure", "link", "watch"}
  /\ file \notin {NoPlan, current}
  /\ current' = file /\ needsUpdate' = TRUE
  /\ UNCHANGED <<file, envVars>> /\ KeepsRun

\* The handler is installed when the main loop begins.
Signal ==
  /\ run \notin {"off", "ensure", "link", "watch"}
  /\ ~ signalled
  /\ signalled' = TRUE
  /\ UNCHANGED <<watchVars, ctxDone, crashes, trouble>> /\ KeepsRun

\* exec.CommandContext kills the process.
CancelContext ==
  /\ ~ ctxDone /\ run # "off"
  /\ ctxDone' = TRUE
  /\ os' = [p \in Procs |-> IF p = cmd /\ run \in {"wait", "stop", "grace"} /\ Alive(p)
                              THEN "killed" ELSE os[p]]
  /\ UNCHANGED <<run, diskVars, upgradeVars, watchVars, cmd, signalled, crashes,
                 trouble>>

\* wemixvisor is killed, perhaps in the middle of a hook or a restore; the node,
\* in a process group of its own, is not.
Crash ==
  /\ "crash" \in trouble
  /\ run # "off"
  /\ crashes < MaxCrashes
  /\ crashes' = crashes + 1
  /\ Forget
  /\ data' \in {data} \cup (IF run \in {"hook", "restore"} THEN {"dirty"} ELSE {})
  /\ made' = made \cup (IF run = "hook" THEN {plan} ELSE {})
  /\ UNCHANGED <<link, file, procVars, trouble>>

-----------------------------------------------------------------------------

Prepare == RunBegin \/ EnsureCurrentLink \/ SymLinkToGenesis \/ SymLinkFails
           \/ StartWatcher
RunProcess == CannotStart \/ StartProcess \/ ProcessExited \/ StopNeeded
              \/ SignalProcess \/ StoppedGracefully \/ GraceOver
PerformUpgrade == ProcessFailed \/ CreateBackup \/ BackupFails \/ ExecuteHook
                  \/ HookFails \/ RemoveLink \/ CreateLink \/ CreateLinkFails
                  \/ RestoreBackup
Run == Prepare \/ NextCycle \/ Finish \/ RunProcess \/ PerformUpgrade

Next ==
  \/ Run
  \/ \E p \in Procs : NodeExits(p) \/ NodeFails(p)
  \/ \E p \in Plans : SchedulePlan(p)
  \/ DetectPlan \/ Signal \/ CancelContext \/ Crash

Spec == Init /\ [][Next]_vars

\* Run goes on, the watcher polls, a node that was sent a signal exits (unless it
\* is stubborn, or after SIGKILL).
Fairness ==
  /\ WF_vars(run # "off" /\ Run)
  /\ WF_vars(DetectPlan)
  /\ SF_vars(ProcessExited)
  /\ \A p \in Procs :
       WF_vars(os[p] \in {"killed"} \cup (IF "stubborn" \in trouble THEN {} ELSE {"termed"})
                 /\ NodeExits(p))

FairSpec == Spec /\ Fairness

-----------------------------------------------------------------------------
(* Properties.  What the troubles break is said in the hypothesis.          *)

\* A node only ever runs on data that was prepared for its binary, whichever
\* step of whichever upgrade failed before it was started.  (Files that only a
\* failed hook has added may lie beside it, see LeftoversGone.)
DataFitsBinary ==
  trouble \subseteq {"stubborn"} =>
    (run = "wait" /\ os[cmd] = "running" => link = data)

ProcessInv == TypeOK /\ DataFitsBinary

\* As long as nodes exit when asked to, no second one is started beside a first.
AtMostOneNode ==
  trouble \subseteq {"disk"} => \A p, q \in Procs : Alive(p) /\ Alive(q) => p = q

\* Backup, hook and restore work on a data directory that no node is using.
UpgradeQuiesced ==
  trouble \subseteq {"disk"} /\ run \in {"backup", "hook", "unlink", "symlink", "restore"}
    => \A p \in Procs : ~ Alive(p)

\* The data directory has one user at a time, a node or an upgrade.
DataIsExclusive == AtMostOneNode /\ UpgradeQuiesced

\* A started upgrade ends, with the next node or the end of Run, whatever goes
\* wrong in between.
UpgradeEnds ==
  []<>(run \notin {"backup", "hook", "unlink", "symlink", "restore"})

-----------------------------------------------------------------------------
(* What the documentation says and the code does not do.                   *)

\* README.md:11, "Monitors for upgrade triggers and executes seamlessly": an
\* upgrade that was detected and is in place is installed, unless Run ends.
DetectedIsInstalled == \A p \in Installed :
  needsUpdate /\ current = p ~> link = p \/ current # p

\* README.md:213, "Node stops gracefully -> binary switches -> node restarts".
StopsBeforeRestart == \A p, q \in Procs : Alive(p) /\ Alive(q) => p = q

\* README.md:214, "Automatic rollback to previous binary if upgrade fails": the
\* binary started next is the one the (restored) data was made for.
RollbackToPrevious == [][StartProcess => link = data]_vars

\* README.md:15, "Automatic backup before upgrades with rollback on failure": with
\* the binary from before an upgrade, nothing of the upgrade is left in the data.
LeftoversGone == run = "wait" /\ link = "genesis" => made = {}

\* An upgrade that is scheduled stays scheduled until another one replaces it
\* (upgrade.go:45): a failing one does not take a later one back.
ScheduledStays == [][file' # file => \E p \in Plans : SchedulePlan(p)]_vars

\* README.md:18, "Graceful Shutdown": wemixvisor ends when it is told to.
SignalIsHandled == signalled ~> run = "off"
=============================================================================
