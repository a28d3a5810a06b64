--------------------------- MODULE UpgradeWatcher ---------------------------
(***************************************************************************)
(* The watcher of upgrade-info.json, internal/upgrade/watcher.go, with the *)
(* commands that write and remove the file, internal/cli/upgrade.go.       *)
(*                                                                         *)
(* The file system is shared with another process: os.WriteFile truncates  *)
(* and then writes, and checkFile looks at the file (os.Stat) before it    *)
(* reads it, so the file may change in between.  Modification times are    *)
(* numbered, which assumes that two changes of the file are further apart  *)
(* than the resolution of its time stamps.  Commands run one at a time.    *)
(***************************************************************************)
EXTENDS Naturals, FiniteSets

CONSTANTS
  Plans,      \* contents of the file that the parser accepts
  Name,       \* the name of each plan, and
  Height,     \* its height: plans may also differ in their metadata
  NoPlan,     \* a nil *UpgradeInfo
  Waiters,    \* goroutines that may call WaitForUpgrade
  Stoppers,   \* goroutines that may call Stop
  MaxWrites,  \* bound: modifications of the file
  MaxStarts   \* bound: calls of Start that are not refused

ASSUME WatcherAssumption ==
  /\ DOMAIN Name = Plans
  /\ Height \in [Plans -> Nat \ {0}]
  /\ Plans \cap {NoPlan, "missing", "empty", "garbage", "idle"} = {}
  /\ MaxWrites \in Nat /\ MaxStarts \in Nat

VARIABLES
  file, mtime,          \* the file's content and modification time
  writer,               \* what the command between truncate and write writes
  current, needsUpdate, \* fw.currentInfo, fw.needsUpdate
  initialized, lastMod, \* fw.initialized, fw.lastModTime
  locked,               \* fw.mu is held by checkForUpdate or by Start
  seen,                 \* the modification time that os.Stat has returned
  starting,             \* Start is between os.Stat and the parser
  monitor,              \* the monitor goroutine of each Start
  starts,               \* calls of Start that went through
  stopChan, stopped,    \* fw.stopChan and fw.stoppedChan are closed
  stop,                 \* where each call of Stop is: "unused" is one that
                        \* returned because the watcher was not running
  wait, given,          \* where each WaitForUpgrade is, what it will return
  detected, handed,     \* ghost: updates detected, upgrades returned
  panicked              \* a channel was closed twice

fileVars  == <<file, mtime, writer>>
flagVars  == <<current, needsUpdate, detected>>
checkVars == <<initialized, lastMod, locked, seen, starting, starts>>
stopVars  == <<stopChan, stopped, stop>>
waitVars  == <<wait, given, handed>>
vars      == <<fileVars, flagVars, checkVars, monitor, stopVars, waitVars, panicked>>

Monitors == 1..MaxStarts

TypeOK ==
  /\ file \in Plans \cup {"missing", "empty", "garbage"}
  /\ mtime \in 0..(MaxWrites + 1)
  /\ writer \in Plans \cup {"idle", "garbage"}
  /\ current \in Plans \cup {NoPlan} /\ needsUpdate \in BOOLEAN
  /\ initialized \in BOOLEAN /\ locked \in BOOLEAN /\ starting \in BOOLEAN
  /\ lastMod \in 0..mtime /\ seen \in 0..mtime
  /\ monitor \in [Monitors -> {"none", "select", "lock", "parse", "exited"}]
  /\ starts \in 0..MaxStarts
  /\ stopChan \in BOOLEAN /\ stopped \in BOOLEAN
  /\ stop \in [Stoppers -> {"idle", "close", "waiting", "returned", "unused"}]
  /\ wait \in [Waiters -> {"idle", "poll", "get", "clear"}]
  /\ given \in [Waiters -> Plans \cup {NoPlan}]
  /\ detected \in Nat /\ handed \in Nat
  /\ panicked \in BOOLEAN

FileInit ==
  /\ file \in Plans \cup {"missing", "garbage"}
  /\ mtime = (IF file = "missing" THEN 0 ELSE 1)
  /\ writer = "idle"

WatcherInit ==
  /\ current = NoPlan /\ needsUpdate = FALSE /\ detected = 0
  /\ initialized = FALSE /\ lastMod = 0 /\ seen = 0
  /\ locked = FALSE /\ starting = FALSE /\ starts = 0
  /\ monitor = [m \in Monitors |-> "none"]
  /\ stopChan = FALSE /\ stopped = FALSE
  /\ stop = [c \in Stoppers |-> "idle"]
  /\ panicked = FALSE

WaitInit ==
  /\ wait = [w \in Waiters |-> "idle"] /\ given = [w \in Waiters |-> NoPlan]
  /\ handed = 0

Init == FileInit /\ WatcherInit /\ WaitInit

-----------------------------------------------------------------------------
(* The commands.  A plan can also be written by hand, and be invalid.      *)

KeepsWatcher ==
  UNCHANGED <<flagVars, checkVars, monitor, stopVars, waitVars, panicked>>

Modify(c) == mtime' = mtime + 1 /\ file' = c

ScheduleTruncate(p) ==
  /\ writer = "idle"
  /\ mtime < MaxWrites
  /\ Modify("empty")
  /\ writer' = p
  /\ KeepsWatcher

ScheduleWrite ==
  /\ writer # "idle"
  /\ Modify(writer)
  /\ writer' = "idle"
  /\ KeepsWatcher

\* The command is killed in between.
ScheduleDies ==
  /\ writer # "idle"
  /\ writer' = "idle"
  /\ UNCHANGED <<file, mtime>> /\ KeepsWatcher

\* Cancel refuses a file that it cannot parse.
Cancel ==
  /\ writer = "idle"
  /\ file \in Plans
  /\ file' = "missing"
  /\ UNCHANGED <<mtime, writer>> /\ KeepsWatcher

Commands == (\E p \in Plans \cup {"garbage"} : ScheduleTruncate(p))
            \/ ScheduleWrite \/ ScheduleDies \/ Cancel

-----------------------------------------------------------------------------
(* checkFile: os.Stat, and then the parser.                                *)

\* There is a non-empty file, modified since it was last read.
WorthReading   == file \notin {"missing", "empty"} /\ mtime > lastMod
SamePlan(p, q) == Name[p] = Name[q] /\ Height[p] = Height[q]

KeepsCheck(v) == UNCHANGED <<fileVars, stopVars, waitVars, panicked, v>>

(* Start reads an existing file, and starts a monitor.                     *)

Launch == /\ initialized' = TRUE
          /\ starts' = starts + 1
          /\ monitor' = [monitor EXCEPT ![starts + 1] = "select"]

StartStat ==
  /\ ~ initialized /\ ~ locked /\ starts < MaxStarts
  /\ IF WorthReading
       THEN /\ locked' = TRUE /\ starting' = TRUE /\ seen' = mtime
            /\ UNCHANGED <<initialized, starts, monitor>>
       ELSE Launch /\ UNCHANGED <<locked, starting, seen>>
  /\ KeepsCheck(<<flagVars, lastMod>>)

StartParse ==
  /\ starting
  /\ starting' = FALSE /\ locked' = FALSE
  /\ Launch
  /\ IF file \in Plans
       THEN current' = file /\ lastMod' = seen
       ELSE UNCHANGED <<current, lastMod>>
  /\ KeepsCheck(<<needsUpdate, detected, seen>>)

(* The monitor goroutine.                                                  *)

Monitor(m, from, to) ==
  monitor[m] = from /\ monitor' = [monitor EXCEPT ![m] = to]

\* select takes the tick also when the watcher is being stopped.
Tick(m) ==
  Monitor(m, "select", "lock") /\ KeepsCheck(<<flagVars, checkVars>>)

CheckStat(m) ==
  /\ ~ locked
  /\ IF WorthReading
       THEN Monitor(m, "lock", "parse") /\ locked' = TRUE /\ seen' = mtime
       ELSE Monitor(m, "lock", "select") /\ UNCHANGED <<locked, seen>>
  /\ KeepsCheck(<<flagVars, initialized, lastMod, starting, starts>>)

Detect == current' = file /\ needsUpdate' = TRUE /\ detected' = detected + 1
NewPlan == current = NoPlan \/ ~ SamePlan(file, current)

\* Mutant: only the first plan counts.
CheckForUpdate_FirstOnly(m) ==
  /\ Monitor(m, "parse", "select")
  /\ locked' = FALSE
  /\ IF file \in Plans THEN lastMod' = seen ELSE UNCHANGED lastMod
  /\ IF file \in Plans /\ current = NoPlan THEN Detect ELSE UNCHANGED flagVars
  /\ KeepsCheck(<<initialized, seen, starting, starts>>)

CheckForUpdate(m) ==
  /\ Monitor(m, "parse", "select")
  /\ locked' = FALSE
  /\ IF file \in Plans THEN lastMod' = seen ELSE UNCHANGED lastMod
  /\ IF file \in Plans /\ NewPlan THEN Detect ELSE UNCHANGED flagVars
  /\ KeepsCheck(<<initialized, seen, starting, starts>>)

\* defer close(fw.stoppedChan)
MonitorExit(m) ==
  /\ stopChan
  /\ Monitor(m, "select", "exited")
  /\ stopped' = TRUE
  /\ panicked' = stopped
  /\ UNCHANGED <<fileVars, flagVars, checkVars, stopChan, stop, waitVars>>

-----------------------------------------------------------------------------
(* Stop.                                                                   *)

StopStep(c, from, to) == stop[c] = from /\ stop' = [stop EXCEPT ![c] = to]
KeepsStop == UNCHANGED <<fileVars, flagVars, lastMod, seen, starting, starts,
                         monitor, waitVars>>

StopEnter(c) ==
  /\ ~ locked
  /\ StopStep(c, "idle", IF initialized THEN "close" ELSE "unused")
  /\ initialized' = FALSE
  /\ UNCHANGED <<locked, stopChan, stopped, panicked>> /\ KeepsStop

StopClose(c) ==
  /\ StopStep(c, "close", "waiting")
  /\ stopChan' = TRUE
  /\ panicked' = stopChan
  /\ UNCHANGED <<initialized, locked, stopped>> /\ KeepsStop

StopReturn(c) ==
  /\ stopped
  /\ StopStep(c, "waiting", "returned")
  /\ UNCHANGED <<initialized, locked, stopChan, stopped, panicked>> /\ KeepsStop

-----------------------------------------------------------------------------
(* The readers of the flag: three calls, each with the lock of its own.    *)

NeedsUpdate       == ~ locked /\ needsUpdate
GetCurrentUpgrade == ~ locked                \* returns current
ClearUpdateFlag   == ~ locked /\ needsUpdate' = FALSE

WaitStep(w, from, to) == wait[w] = from /\ wait' = [wait EXCEPT ![w] = to]
KeepsWait == UNCHANGED <<fileVars, current, detected, checkVars, monitor, stopVars,
                         panicked>>

WaitCall(w) ==
  WaitStep(w, "idle", "poll") /\ UNCHANGED <<given, handed, needsUpdate>> /\ KeepsWait

WaitStopped(w) ==
  /\ stopChan
  /\ WaitStep(w, "poll", "idle")
  /\ UNCHANGED <<given, handed, needsUpdate>> /\ KeepsWait

WaitPoll(w) ==
  /\ NeedsUpdate
  /\ WaitStep(w, "poll", "get")
  /\ UNCHANGED <<given, handed, needsUpdate>> /\ KeepsWait

WaitGet(w) ==
  /\ GetCurrentUpgrade
  /\ WaitStep(w, "get", "clear")
  /\ given' = [given EXCEPT ![w] = current]
  /\ UNCHANGED <<handed, needsUpdate>> /\ KeepsWait

\* Mutant: the flag is left set.
WaitClear_LeavesFlag(w) ==
  /\ ~ locked
  /\ WaitStep(w, "clear", "idle")
  /\ handed' = handed + 1
  /\ given' = [given EXCEPT ![w] = NoPlan]
  /\ UNCHANGED needsUpdate /\ KeepsWait

\* ... and returns what it got.
WaitClear(w) ==
  /\ ClearUpdateFlag
  /\ WaitStep(w, "clear", "idle")
  /\ handed' = handed + 1
  /\ given' = [given EXCEPT ![w] = NoPlan]
  /\ KeepsWait

-----------------------------------------------------------------------------

Check(m)      == Tick(m) \/ CheckStat(m) \/ CheckForUpdate(m) \/ MonitorExit(m)
StopGoesOn(c) == StopClose(c) \/ StopReturn(c)
Stop(c)       == StopEnter(c) \/ StopGoesOn(c)
WaitGoesOn(w) == WaitStopped(w) \/ WaitPoll(w) \/ WaitGet(w) \/ WaitClear(w)

\* The watcher and its methods, without the readers of its flag.
WatcherNext ==
  \/ Commands
  \/ ~ panicked /\ (StartStat \/ StartParse)
  \/ ~ panicked /\ \E m \in Monitors : Check(m)
  \/ ~ panicked /\ \E c \in Stoppers : Stop(c)

Next == \/ WatcherNext
        \/ ~ panicked /\ \E w \in Waiters : WaitCall(w) \/ WaitGoesOn(w)

Spec == Init /\ [][Next]_vars

\* Goroutines run, tickers tick, and select is random: a monitor that is to
\* stop sees it, however often a tick is due as well.
WatcherFairness ==
  /\ WF_vars(~ panicked /\ StartParse)
  /\ \A m \in Monitors : /\ WF_vars(~ panicked /\ Check(m))
                          /\ SF_vars(~ panicked /\ MonitorExit(m))
  /\ \A c \in Stoppers : WF_vars(~ panicked /\ StopGoesOn(c))

FairSpec == Spec /\ WatcherFairness

-----------------------------------------------------------------------------
(* Properties.                                                             *)

\* A plan that stays in the file becomes the current one while the watcher
\* runs, whatever the file held before, and however the commands interleave
\* with checkFile's two looks at it.
PlanIsNoticed == \A p \in Plans :
  []<>(file = p /\ initialized => current # NoPlan /\ SamePlan(current, p))

\* One detected update is handed out once: WaitForUpgrade, called over and over
\* again by one goroutine, does not return an upgrade twice.
HandedOnce == handed <= detected

WatcherInv == TypeOK /\ HandedOnce

\* Stop returns, for every caller, also in the middle of a check, and also when
\* calls overlap (a second close of stopChan would be a panic, in which none
\* returns).
StopReturns == \A c \in Stoppers : []<>(stop[c] \notin {"close", "waiting"})

\* Stop returns, and when one that had something to stop has returned, the
\* watcher detects no more.
StopIsFinal ==
  /\ StopReturns
  /\ [][(\E c \in Stoppers : stop[c] = "returned") => UNCHANGED detected]_vars

-----------------------------------------------------------------------------
(* What the comments say and the code does not do.                         *)

\* watcher.go:16, "FileWatcher monitors the upgrade-info.json file for changes":
\* what the file holds for good, metadata included, becomes known.
ChangeIsNoticed == \A p \in Plans :
  file = p /\ initialized ~> file # p \/ ~ initialized \/ current = p

\* watcher.go:43, "Start begins monitoring for upgrades": also after a Stop.
StartMonitors == ~ panicked
=============================================================================
