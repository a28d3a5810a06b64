---------------------------- MODULE SystemProofs ----------------------------
(***************************************************************************)
(* Proofs about UpgradeSystem, for any plans, heights and bounds: a node   *)
(* is stopped exactly at the height of an upgrade, is left running by the  *)
(* orchestrator, no upgrade is tried twice, and Stop is final.             *)
(***************************************************************************)
EXTENDS UpgradeSystem, TLAPS

\* Each goroutine is there from Start on, and Stop has waited for both.
Lifecycle ==
  /\ started \in BOOLEAN
  /\ (watch = "none") <=> ~ started
  /\ (loop = "none") <=> ~ started
  /\ stop = "returned" => watch = "exited" /\ loop = "exited"

\* The channel and the last height received stand for observed heights.
FeedTypes ==
  /\ changes \in Seq(Heights) /\ Len(changes) <= MaxChanges
  /\ channel \in Seq(1..Len(changes))
  /\ got \in 0..Len(changes)

\* What the loop has copied from the channel and from the pending upgrade.
LoopKnows ==
  /\ pending \in Plans \cup {NoPlan} /\ update \in Plans \cup {NoPlan}
  /\ watch = "schedule" => update \in Plans
  /\ loop \in {"snapshot", "claim", "stop", "stopping", "start"} =>
       got > 0 /\ now = changes[got]
  /\ loop \in {"claim", "stop", "stopping", "start"} => plan \in Plans
  /\ loop = "claim" => now >= Height[plan]
  /\ loop \in {"stop", "stopping", "start"} => now = Height[plan]

\* Why the node is not running.
NodeKnown ==
  /\ exits \in Nat /\ startFailed \in BOOLEAN
  /\ restarter # "none" => exits > 0
  /\ exits = 0 /\ ~ startFailed =>
       /\ loop = "stopping" => state = "Stopping"
       /\ loop = "start" => state = "Stopped"
       /\ loop \notin {"stopping", "start"} => state = "Running"

\* An upgrade that may still be tried has not been counted as tried.
Counted ==
  /\ claimed \in Nat /\ scheduled \in Nat
  /\ claimed <= scheduled
  /\ loop = "claim" \/ (pending # NoPlan /\ loop \in {"none", "select", "snapshot"}) =>
       claimed < scheduled

\* The watcher's types, and why its counters stay in their bounds.
FileTypes ==
  /\ file \in Plans \cup {"missing", "empty", "garbage"}
  /\ mtime \in 0..(MaxWrites + 1)
  /\ writer \in Plans \cup {"idle", "garbage"}
  /\ writer # "idle" => mtime <= MaxWrites
  /\ lastMod \in 0..mtime /\ seen \in 0..mtime
FlagTypes ==
  /\ needsUpdate \in BOOLEAN /\ initialized \in BOOLEAN
  /\ locked \in BOOLEAN /\ starting \in BOOLEAN
MonitorTypes ==
  /\ current \in Plans \cup {NoPlan} /\ detected \in Nat
  /\ monitor \in [1..1 -> {"none", "select", "lock", "parse", "exited"}]
  /\ starts \in 0..1
  /\ starting => locked /\ starts = 0
  /\ monitor[1] # "none" => starts > 0
WatcherTypes == halted = FALSE /\ FileTypes /\ FlagTypes /\ MonitorTypes

\* The types of the rest.
LoopTypes ==
  /\ plan \in Plans \cup {NoPlan} /\ now \in Heights \cup {0}
  /\ watch \in {"none", "select", "get", "schedule", "clear", "exited"}
  /\ loop \in {"none", "select", "snapshot", "claim", "stop", "stopping", "start",
               "unflag", "rollback", "forget", "exited"}
  /\ stop \in {"idle", "waiting", "returned", "unused"}
NodeTypes ==
  /\ state \in {"Stopped", "Running", "Stopping", "Error", "Crashed"}
  /\ restarter \in {"none", "reset", "start"}
  /\ exits \in 0..MaxExits /\ direct \in 0..MaxDirect
PlainFlags ==
  /\ cancelled \in BOOLEAN /\ upgrading \in BOOLEAN
  /\ failed \in BOOLEAN /\ onTime \in BOOLEAN

SystemIInv ==
  /\ WatcherTypes /\ Lifecycle /\ FeedTypes /\ LoopKnows /\ NodeKnown /\ Counted
  /\ LoopTypes /\ NodeTypes /\ PlainFlags

\* Nobody waits for the watcher, and nobody stops it.
LEMMA WatcherTyped == WatcherTypes => Watcher!TypeOK
<1>1. ASSUME NEW S PROVE <<>> \in [{} -> S]
  <2>1. <<>> \in Seq(S) /\ Len(<<>>) = 0 /\ 1..0 = {}
    OBVIOUS
  <2>2. QED  BY <2>1
<1>2. /\ <<>> \in [{} -> {"idle", "close", "waiting", "returned", "unused"}]
      /\ <<>> \in [{} -> {"idle", "poll", "get", "clear"}]
      /\ <<>> \in [{} -> Plans \cup {NoPlan}]
  BY <1>1
<1>3. QED
  BY <1>2 DEF WatcherTypes, FileTypes, FlagTypes, MonitorTypes, Watcher!TypeOK, Watcher!Monitors

LEMMA SystemInitial == Init => SystemIInv
<1> SUFFICES ASSUME Init PROVE SystemIInv
  OBVIOUS
<1>1. FeedTypes  BY SystemAssumption DEF Init, Feed!FeedInit, FeedTypes
<1>2. Lifecycle  BY DEF Init, Lifecycle
<1>3. LoopKnows  BY DEF Init, LoopKnows
<1>4. NodeKnown  BY DEF Init, NodeKnown
<1>5. Counted  BY DEF Init, Counted
<1>6. WatcherTypes
  <2> USE DEF Init, Watcher!FileInit, Watcher!WatcherInit, Watcher!Monitors
  <2>1. FileTypes  BY SystemAssumption DEF FileTypes
  <2>2. FlagTypes  BY DEF FlagTypes
  <2>3. MonitorTypes  BY DEF MonitorTypes
  <2>4. QED  BY <2>1, <2>2, <2>3 DEF WatcherTypes
<1>7. LoopTypes /\ NodeTypes  BY SystemAssumption DEF Init, LoopTypes, NodeTypes
<1>8. PlainFlags  BY DEF Init, PlainFlags
<1>9. QED  BY <1>1, <1>2, <1>3, <1>4, <1>5, <1>6, <1>7, <1>8 DEF SystemIInv

-----------------------------------------------------------------------------
(* Lemmas about the height feed.                                           *)

LEMMA SeqWidened ==
  ASSUME NEW S, NEW T, S \subseteq T, NEW q \in Seq(S) PROVE q \in Seq(T)
OBVIOUS

LEMMA ReceiveKeepsFeed ==
  ASSUME FeedTypes, Feed!Receive
  PROVE  /\ FeedTypes'
         /\ got' \in 1..Len(changes) /\ got' = Head(channel)
         /\ changes' = changes
<1>1. Head(channel) \in 1..Len(changes) /\ Tail(channel) \in Seq(1..Len(changes))
  <2>1. channel # <<>> /\ channel \in Seq(1..Len(changes))  BY DEF FeedTypes, Feed!Receive
  <2>2. Len(channel) \in Nat /\ Len(channel) > 0 /\ channel[1] \in 1..Len(changes)
    BY <2>1
  <2>3. QED  BY <2>1, <2>2
<1>2. QED  BY <1>1 DEF FeedTypes, Feed!Receive

LEMMA ObserveKeepsFeed ==
  ASSUME FeedTypes, NEW h \in Heights, Feed!Observe(h)
  PROVE  /\ FeedTypes'
         /\ got' = got
         /\ got > 0 => changes'[got] = changes[got]
<1>1. changes' \in Seq(Heights) /\ Len(changes') = Len(changes) + 1
  BY DEF FeedTypes, Feed!Observe
<1>2. channel \in Seq(1..Len(changes'))
  <2>1. channel \in Seq(1..Len(changes)) /\ Len(changes) \in Nat  BY DEF FeedTypes
  <2>2. QED  BY <1>1, <2>1
<1>3. got \in 0..Len(changes')  BY <1>1 DEF FeedTypes
<1>4. got > 0 => changes'[got] = changes[got]  BY DEF FeedTypes, Feed!Observe
<1>5. Len(changes') <= MaxChanges  BY <1>1, SystemAssumption DEF FeedTypes, Feed!Observe
<1>6. QED  BY <1>1, <1>2, <1>3, <1>4, <1>5 DEF FeedTypes, Feed!Observe

LEMMA PublishKeepsFeed ==
  ASSUME FeedTypes, Feed!Publish
  PROVE  FeedTypes' /\ UNCHANGED <<changes, got>>
<1>1. Len(changes) \in Nat  BY DEF FeedTypes
<1>2. Len(changes) \in 1..Len(changes)
  <2>1. channel # <<>> => channel[Len(channel)] \in 1..Len(changes)  BY DEF FeedTypes
  <2>2. Len(changes) > 0
    BY <1>1, <2>1 DEF FeedTypes, Feed!Publish, Feed!LastSent
  <2>3. QED  BY <1>1, <2>2
<1>3. QED  BY <1>2 DEF FeedTypes, Feed!Publish
-----------------------------------------------------------------------------
(* Every step.                                                             *)

USE DEF vars, watcherVars, feedVars, nodeVars, planVars, loopVars, watchVars, lifeVars

\* Stop, Start and the two calls that the watcher's goroutine makes.
LEMMA WatcherTypesStep == SystemIInv /\ [Next]_vars => WatcherTypes'
<1> SUFFICES ASSUME WatcherTypes, [Next]_vars PROVE WatcherTypes'
  BY DEF SystemIInv
<1> USE SystemAssumption
    DEF WatcherTypes, FileTypes, FlagTypes, MonitorTypes, Watcher!Monitors, Watcher!fileVars,
        Watcher!flagVars, Watcher!checkVars, Watcher!stopVars, Watcher!waitVars,
        Watcher!KeepsCheck
<1>1. CASE Watcher!Commands
  <2> USE <1>1 DEF Watcher!Commands, Watcher!ScheduleTruncate, Watcher!ScheduleWrite,
                   Watcher!ScheduleDies, Watcher!Cancel, Watcher!Modify, Watcher!KeepsWatcher
  <2>1. FileTypes'  OBVIOUS
  <2>2. halted' = FALSE /\ FlagTypes' /\ MonitorTypes'  OBVIOUS
  <2>3. QED  BY <2>1, <2>2
<1>2. CASE Watcher!StartStat
  <2> USE <1>2 DEF Watcher!StartStat, Watcher!Launch, Watcher!WorthReading
  <2>1. FileTypes'  OBVIOUS
  <2>2. halted' = FALSE /\ FlagTypes'  OBVIOUS
  <2>3. MonitorTypes'  OBVIOUS
  <2>4. QED  BY <2>1, <2>2, <2>3
<1>3. CASE Watcher!StartParse
  <2> USE <1>3 DEF Watcher!StartParse, Watcher!Launch
  <2>1. FileTypes'  OBVIOUS
  <2>2. halted' = FALSE /\ FlagTypes'  OBVIOUS
  <2>3. MonitorTypes'  OBVIOUS
  <2>4. QED  BY <2>1, <2>2, <2>3
<1>4. CASE \E m \in Watcher!Monitors : Watcher!Check(m)
  <2> PICK m \in Watcher!Monitors : Watcher!Check(m)
    BY <1>4
  <2> USE DEF Watcher!Monitor
  <2>1. CASE Watcher!Tick(m)  BY <2>1 DEF Watcher!Tick
  <2>2. CASE Watcher!CheckStat(m)
    <3> USE <2>2 DEF Watcher!CheckStat, Watcher!WorthReading
    <3>1. FileTypes'  OBVIOUS
    <3>2. halted' = FALSE /\ FlagTypes'  OBVIOUS
    <3>3. MonitorTypes'  OBVIOUS
    <3>4. QED  BY <3>1, <3>2, <3>3
  <2>3. CASE Watcher!CheckForUpdate(m)
    <3> USE <2>3 DEF Watcher!CheckForUpdate
    <3>1. FileTypes'  OBVIOUS
    <3>2. (file \in Plans /\ Watcher!Detect) \/ UNCHANGED Watcher!flagVars
      OBVIOUS
    <3>3. halted' = FALSE /\ FlagTypes'  BY <3>2 DEF Watcher!Detect
    <3>4. MonitorTypes'  BY <3>2 DEF Watcher!Detect
    <3>5. QED  BY <3>1, <3>3, <3>4
  <2>4. CASE Watcher!MonitorExit(m)  BY <2>4 DEF Watcher!MonitorExit
  <2>5. QED  BY <2>1, <2>2, <2>3, <2>4 DEF Watcher!Check
<1>5. CASE WatchClear
  BY <1>5 DEF WatchClear, Watcher!ClearUpdateFlag
<1>6. CASE UNCHANGED watcherVars
  BY <1>6
<1>7. [Next]_vars => Watcher!WatcherNext \/ WatchClear \/ UNCHANGED watcherVars
  BY DEF Next, Start, StopCancel, StopReturn, StopReturns, ScheduleUpgrade,
         WatchUpgradeConfigs, WatchExit, WatchTick, WatchGet, WatchSchedule,
         MonitorHeights, LoopExit, ReceiveHeight, Snapshot, SnapshotIf, ExecuteUpgrade,
         Claim, ClaimIf, StopRefused, StopNode, NodeStopped, StopFails, StartNew, StartNode,
         Unflag, Rollback, Forget, ForgetIf, KeepsLoop, NodeExits, RestartResets,
         RestartStarts, KeepsNode, Observe, Publish, WatcherStep
<1>8. Watcher!WatcherNext => Watcher!Commands \/ Watcher!StartStat \/ Watcher!StartParse
                            \/ \E m \in Watcher!Monitors : Watcher!Check(m)
  BY DEF Watcher!WatcherNext
<1>9. QED  BY <1>1, <1>2, <1>3, <1>4, <1>5, <1>6, <1>7, <1>8

LEMMA LifecycleStep == SystemIInv /\ [Next]_vars => Lifecycle'
<1> SUFFICES ASSUME SystemIInv, [Next]_vars PROVE Lifecycle'
  OBVIOUS
<1> USE DEF SystemIInv, Lifecycle
<1>1. CASE Start \/ StopCancel \/ StopReturn
  <2>1. CASE Start  BY <2>1 DEF Start
  <2>4. CASE StopCancel  BY <2>4 DEF StopCancel
  <2>2. CASE StopReturn
    <3>1. watch \in {"none", "exited"} /\ loop \in {"none", "exited"}
      BY <2>2 DEF StopReturn, StopReturns
    <3>2. QED  BY <2>2, <3>1 DEF StopReturn, StopReturns
  <2>3. QED  BY <1>1, <2>1, <2>2, <2>4
<1>2. CASE WatchUpgradeConfigs
  BY <1>2 DEF WatchUpgradeConfigs, WatchExit, WatchTick, WatchGet, WatchSchedule, WatchClear,
              Watch, KeepsWatch
<1>3. CASE MonitorHeights
  BY <1>3 DEF MonitorHeights, LoopExit, ReceiveHeight, Snapshot, SnapshotIf, ExecuteUpgrade,
              Claim, ClaimIf, StopRefused, StopNode, NodeStopped, StopFails, StartNew, StartNode,
              Unflag, Rollback, Forget, ForgetIf, Loop, KeepsLoop, LoopOnly
<1>4. CASE (\E p \in Plans : ScheduleUpgrade(p)) \/ NodeExits \/ RestartResets \/ RestartStarts
           \/ (\E h \in Heights : Observe(h)) \/ Publish \/ WatcherStep
  BY <1>4 DEF ScheduleUpgrade, NodeExits, RestartResets, RestartStarts, KeepsNode, Observe,
              Publish, WatcherStep
<1>5. QED  BY <1>1, <1>2, <1>3, <1>4 DEF Next

LEMMA FeedTypesStep == SystemIInv /\ [Next]_vars => FeedTypes'
<1> SUFFICES ASSUME SystemIInv, [Next]_vars PROVE FeedTypes'
  OBVIOUS
<1> USE DEF SystemIInv
<1>1. CASE ReceiveHeight  BY <1>1, ReceiveKeepsFeed DEF ReceiveHeight
<1>2. CASE \E h \in Heights : Observe(h)  BY <1>2, ObserveKeepsFeed DEF Observe
<1>3. CASE Publish  BY <1>3, PublishKeepsFeed DEF Publish
<1>4. CASE UNCHANGED feedVars  BY <1>4 DEF FeedTypes
<1>5. [Next]_vars => ReceiveHeight \/ (\E h \in Heights : Observe(h)) \/ Publish
                     \/ UNCHANGED feedVars
  BY DEF Next, Start, StopCancel, StopReturn, StopReturns, ScheduleUpgrade,
         WatchUpgradeConfigs, WatchExit, WatchTick, WatchGet, WatchSchedule, WatchClear,
         KeepsWatch, MonitorHeights, LoopExit, Snapshot, SnapshotIf, ExecuteUpgrade,
         Claim, ClaimIf, StopRefused, StopNode, NodeStopped, StopFails, StartNew, StartNode,
         Unflag, Rollback, Forget, ForgetIf, LoopOnly, NodeExits, RestartResets,
         RestartStarts, KeepsNode, WatcherStep
<1>6. QED  BY <1>1, <1>2, <1>3, <1>4, <1>5

LEMMA CountedStep == SystemIInv /\ [Next]_vars => Counted'
<1> SUFFICES ASSUME SystemIInv, [Next]_vars PROVE Counted'
  OBVIOUS
<1> USE DEF SystemIInv, Counted
<1>1. CASE Start \/ StopCancel \/ StopReturn
  BY <1>1 DEF Lifecycle, Start, StopCancel, StopReturn, StopReturns
<1>2. CASE WatchUpgradeConfigs
  BY <1>2 DEF WatchUpgradeConfigs, WatchExit, WatchTick, WatchGet, WatchSchedule, WatchClear,
              Watch, KeepsWatch, Schedule
<1>3. CASE MonitorHeights
  BY <1>3 DEF MonitorHeights, LoopExit, ReceiveHeight, Snapshot, SnapshotIf, ExecuteUpgrade,
              Claim, ClaimIf, StopRefused, StopNode, NodeStopped, StopFails, StartNew, StartNode,
              Unflag, Rollback, Forget, ForgetIf, Loop, KeepsLoop, LoopOnly
<1>4. CASE (\E p \in Plans : ScheduleUpgrade(p)) \/ NodeExits \/ RestartResets \/ RestartStarts
           \/ (\E h \in Heights : Observe(h)) \/ Publish \/ WatcherStep
  BY <1>4 DEF ScheduleUpgrade, Schedule, NodeExits, RestartResets, RestartStarts, KeepsNode,
              Observe, Publish, WatcherStep
<1>5. QED  BY <1>1, <1>2, <1>3, <1>4 DEF Next

LEMMA NodeKnownStep == SystemIInv /\ [Next]_vars => NodeKnown'
<1> SUFFICES ASSUME SystemIInv, [Next]_vars PROVE NodeKnown'
  OBVIOUS
<1> USE DEF SystemIInv, NodeKnown, NodeIdle
<1>1. CASE Start \/ StopCancel \/ StopReturn
  BY <1>1 DEF Lifecycle, Start, StopCancel, StopReturn, StopReturns
<1>2. CASE WatchUpgradeConfigs
  BY <1>2 DEF WatchUpgradeConfigs, WatchExit, WatchTick, WatchGet, WatchSchedule, WatchClear,
              KeepsWatch
<1>3. CASE MonitorHeights
  <2>1. CASE LoopExit \/ ReceiveHeight \/ Snapshot \/ Claim \/ Unflag \/ Forget
    BY <2>1 DEF LoopExit, ReceiveHeight, Snapshot, SnapshotIf, Claim, ClaimIf, Unflag,
                Forget, ForgetIf, Loop, KeepsLoop
  <2>2. CASE StopRefused \/ StopNode \/ NodeStopped
    BY <2>2 DEF StopRefused, StopNode, NodeStopped, Node!StopBegins, Node!BecomesStopped,
                Loop, KeepsLoop
  <2>3. CASE StopFails  BY <2>3 DEF StopFails, Loop
  <2>4. CASE StartNew \/ Rollback
    BY <2>4 DEF StartNew, Rollback, StartNode, Node!Starts, Node!StartFails, Loop, KeepsLoop
  <2>5. QED  BY <1>3, <2>1, <2>2, <2>3, <2>4 DEF MonitorHeights, ExecuteUpgrade
<1>4. CASE NodeExits \/ RestartResets \/ RestartStarts
  <2>1. CASE NodeExits  BY <2>1 DEF NodeExits, KeepsNode
  <2>2. CASE RestartResets  BY <2>2 DEF RestartResets, KeepsNode
  <2>3. CASE RestartStarts
    <3>1. exits > 0 /\ UNCHANGED <<exits, loop>> /\ restarter' = "none"
      BY <2>3 DEF RestartStarts, KeepsNode
    <3>2. startFailed' \in BOOLEAN  BY <2>3 DEF RestartStarts
    <3>3. QED  BY <3>1, <3>2
  <2>4. QED  BY <1>4, <2>1, <2>2, <2>3
<1>5. CASE (\E p \in Plans : ScheduleUpgrade(p)) \/ (\E h \in Heights : Observe(h))
           \/ Publish \/ WatcherStep
  BY <1>5 DEF ScheduleUpgrade, Observe, Publish, WatcherStep
<1>6. QED  BY <1>1, <1>2, <1>3, <1>4, <1>5 DEF Next

LEMMA LoopKnowsStep == SystemIInv /\ [Next]_vars => LoopKnows'
<1> SUFFICES ASSUME SystemIInv, [Next]_vars PROVE LoopKnows'
  OBVIOUS
<1> USE SystemAssumption DEF SystemIInv, LoopKnows
<1>1. CASE Start \/ StopCancel \/ StopReturn
  BY <1>1 DEF Lifecycle, Start, StopCancel, StopReturn, StopReturns
<1>2. CASE WatchUpgradeConfigs
  BY <1>2 DEF WatchUpgradeConfigs, WatchExit, WatchTick, WatchGet, WatchSchedule, WatchClear,
              Watch, KeepsWatch, Schedule, WatcherTypes, MonitorTypes
<1>3. CASE ReceiveHeight
  <2>1. got' \in 1..Len(changes) /\ got' = Head(channel) /\ changes' = changes
    BY <1>3, ReceiveKeepsFeed DEF ReceiveHeight
  <2>2. Len(changes) \in Nat  BY DEF FeedTypes
  <2>3. QED  BY <1>3, <2>1, <2>2 DEF ReceiveHeight, Loop, KeepsLoop
<1>4. CASE Snapshot \/ LoopExit \/ Unflag \/ Rollback \/ Forget
  BY <1>4 DEF Snapshot, SnapshotIf, LoopExit, Unflag, Rollback, StartNode, Forget, ForgetIf,
              Loop, KeepsLoop, LoopOnly
<1>5. CASE Claim
  <2>0. loop = "claim"  BY <1>5 DEF Claim, ClaimIf, Loop
  <2>1. Height[plan] \in Nat /\ now \in Nat
    <3>1. got \in DOMAIN changes /\ changes \in Seq(Heights)  BY <2>0 DEF FeedTypes
    <3>2. now \in Heights  BY <2>0, <3>1
    <3>3. QED  BY <2>0, <3>2
  <2>2. QED  BY <1>5, <2>1 DEF Claim, ClaimIf, Loop, KeepsLoop
<1>6. CASE StopRefused \/ StopNode \/ NodeStopped \/ StopFails \/ StartNew
  BY <1>6 DEF StopRefused, StopNode, NodeStopped, StopFails, StartNew, StartNode,
              Loop, KeepsLoop, LoopOnly
<1>7. CASE \E h \in Heights : Observe(h)
  <2>1. got' = got /\ (got > 0 => changes'[got] = changes[got])
    BY <1>7, ObserveKeepsFeed DEF Observe
  <2>2. QED  BY <1>7, <2>1 DEF Observe
<1>8. CASE Publish  BY <1>8, PublishKeepsFeed DEF Publish
<1>9. CASE (\E p \in Plans : ScheduleUpgrade(p)) \/ NodeExits \/ RestartResets
           \/ RestartStarts \/ WatcherStep
  BY <1>9 DEF ScheduleUpgrade, Schedule, NodeExits, RestartResets, RestartStarts, KeepsNode,
              WatcherStep
<1>10. QED
  BY <1>1, <1>2, <1>3, <1>4, <1>5, <1>6, <1>7, <1>8, <1>9
     DEF Next, MonitorHeights, ExecuteUpgrade

LEMMA LoopTypesStep == SystemIInv /\ [Next]_vars => LoopTypes'
<1> SUFFICES ASSUME SystemIInv, [Next]_vars PROVE LoopTypes'
  OBVIOUS
<1> USE DEF LoopTypes
<1>1. LoopTypes /\ LoopKnows  BY DEF SystemIInv
<1>2. CASE Start \/ StopCancel \/ StopReturn
  BY <1>1, <1>2 DEF Start, StopCancel, StopReturn, StopReturns
<1>3. CASE WatchUpgradeConfigs
  BY <1>1, <1>3 DEF WatchUpgradeConfigs, WatchExit, WatchTick, WatchGet, WatchSchedule,
                    WatchClear, Watch, KeepsWatch
<1>4. CASE ReceiveHeight
  <2>1. got' \in 1..Len(changes) /\ got' = Head(channel) /\ changes \in Seq(Heights)
    BY <1>4, ReceiveKeepsFeed DEF ReceiveHeight, SystemIInv, FeedTypes
  <2>2. now' \in Heights  BY <1>4, <2>1 DEF ReceiveHeight
  <2>3. QED  BY <1>1, <1>4, <2>2 DEF ReceiveHeight, Loop, KeepsLoop
<1>5. CASE Snapshot \/ LoopExit \/ Unflag \/ Rollback \/ Forget
  BY <1>1, <1>5 DEF Snapshot, SnapshotIf, LoopExit, Unflag, Rollback, StartNode, Forget,
                    ForgetIf, Loop, KeepsLoop, LoopOnly, LoopKnows
<1>6. CASE ExecuteUpgrade
  BY <1>1, <1>6 DEF ExecuteUpgrade, Claim, ClaimIf, StopRefused, StopNode, NodeStopped,
                    StopFails, StartNew, StartNode, Unflag, Loop, KeepsLoop, LoopOnly
<1>7. CASE (\E p \in Plans : ScheduleUpgrade(p)) \/ NodeExits \/ RestartResets \/ RestartStarts
           \/ (\E h \in Heights : Observe(h)) \/ Publish \/ WatcherStep
  BY <1>1, <1>7 DEF ScheduleUpgrade, NodeExits, RestartResets, RestartStarts, KeepsNode,
                    Observe, Publish, WatcherStep
<1>8. QED  BY <1>1, <1>2, <1>3, <1>4, <1>5, <1>6, <1>7 DEF Next, MonitorHeights

LEMMA NodeTypesStep == SystemIInv /\ [Next]_vars => NodeTypes'
<1> SUFFICES ASSUME NodeTypes, [Next]_vars PROVE NodeTypes'
  BY DEF SystemIInv
<1> USE SystemAssumption DEF NodeTypes, NodeIdle
<1>1. CASE Start \/ StopCancel \/ StopReturn
  BY <1>1 DEF Start, StopCancel, StopReturn, StopReturns
<1>2. CASE WatchUpgradeConfigs
  BY <1>2 DEF WatchUpgradeConfigs, WatchExit, WatchTick, WatchGet, WatchSchedule, WatchClear,
              KeepsWatch
<1>3. CASE MonitorHeights
  BY <1>3 DEF MonitorHeights, LoopExit, ReceiveHeight, Snapshot, SnapshotIf, ExecuteUpgrade,
              Claim, ClaimIf, StopRefused, StopNode, NodeStopped, StopFails, StartNew, StartNode,
              Unflag, Rollback, Forget, ForgetIf, KeepsLoop, Node!StopBegins,
              Node!BecomesStopped, Node!Starts, Node!StartFails
<1>4. CASE NodeExits \/ RestartResets \/ RestartStarts
  BY <1>4 DEF NodeExits, RestartResets, RestartStarts, KeepsNode, Node!NodeExits,
              Node!BecomesStopped, Node!Starts, Node!StartFails
<1>5. CASE (\E p \in Plans : ScheduleUpgrade(p)) \/ (\E h \in Heights : Observe(h))
           \/ Publish \/ WatcherStep
  BY <1>5 DEF ScheduleUpgrade, Observe, Publish, WatcherStep
<1>6. QED  BY <1>1, <1>2, <1>3, <1>4, <1>5 DEF Next

LEMMA PlainFlagsStep == SystemIInv /\ [Next]_vars => PlainFlags'
<1> SUFFICES ASSUME PlainFlags, [Next]_vars PROVE PlainFlags'
  BY DEF SystemIInv
<1> USE DEF PlainFlags
<1>1. CASE Start \/ StopCancel \/ StopReturn
  BY <1>1 DEF Start, StopCancel, StopReturn, StopReturns
<1>2. CASE WatchUpgradeConfigs
  <2>1. CASE WatchExit \/ WatchTick \/ WatchGet \/ WatchClear
    BY <2>1 DEF WatchExit, WatchTick, WatchGet, WatchClear, KeepsWatch
  <2>2. CASE WatchSchedule  BY <2>2 DEF WatchSchedule, Schedule, KeepsWatch
  <2>3. QED  BY <1>2, <2>1, <2>2 DEF WatchUpgradeConfigs
<1>3. CASE MonitorHeights
  <2>1. CASE LoopExit \/ ReceiveHeight \/ Snapshot \/ Unflag \/ Forget
    BY <2>1 DEF LoopExit, ReceiveHeight, Snapshot, SnapshotIf, Unflag, Forget, ForgetIf,
                KeepsLoop
  <2>2. CASE Claim  BY <2>2 DEF Claim, ClaimIf, KeepsLoop
  <2>3. CASE StopRefused \/ StopNode \/ NodeStopped \/ StopFails \/ StartNew \/ Rollback
    BY <2>3 DEF StopRefused, StopNode, NodeStopped, StopFails, StartNew, Rollback, StartNode,
                KeepsLoop, LoopOnly
  <2>4. QED  BY <1>3, <2>1, <2>2, <2>3 DEF MonitorHeights, ExecuteUpgrade
<1>4. CASE \E p \in Plans : ScheduleUpgrade(p)  BY <1>4 DEF ScheduleUpgrade, Schedule
<1>5. CASE NodeExits \/ RestartResets \/ RestartStarts \/ (\E h \in Heights : Observe(h))
           \/ Publish \/ WatcherStep
  BY <1>5 DEF NodeExits, RestartResets, RestartStarts, KeepsNode, Observe, Publish, WatcherStep
<1>6. QED  BY <1>1, <1>2, <1>3, <1>4, <1>5 DEF Next

-----------------------------------------------------------------------------

LEMMA SystemInductive == Spec => []SystemIInv
<1>1. SystemIInv /\ [Next]_vars => SystemIInv'
  <2> HIDE DEF vars
  <2>1. QED
    BY WatcherTypesStep, LifecycleStep, FeedTypesStep, LoopKnowsStep, NodeKnownStep,
       CountedStep, LoopTypesStep, NodeTypesStep, PlainFlagsStep DEF SystemIInv
<1>2. QED  BY SystemInitial, <1>1, PTL DEF Spec

\* SystemInv: types, and one scheduling is tried at most once, however heights,
\* updates of the file and direct calls interleave (executeUpgrade, pendingUpgrade).
THEOREM SystemInvariant == Spec => []SystemInv
<1>1. SystemIInv => SystemInv
  <2> SUFFICES ASSUME SystemIInv PROVE SystemInv
    OBVIOUS
  <2> USE DEF SystemIInv
  <2>1. Watcher!TypeOK /\ ~ halted  BY WatcherTyped DEF WatcherTypes
  <2>2. /\ changes \in Seq(Heights) /\ channel \in Seq(1..MaxChanges)
        /\ got \in 0..MaxChanges
    <3>1. /\ Len(changes) \in Nat /\ Len(changes) <= MaxChanges
          /\ channel \in Seq(1..Len(changes))
      BY DEF FeedTypes
    <3>2. 1..Len(changes) \subseteq 1..MaxChanges  BY <3>1, SystemAssumption
    <3>3. channel \in Seq(1..MaxChanges)  BY <3>1, <3>2, SeqWidened
    <3>4. QED  BY <3>1, <3>3, SystemAssumption DEF FeedTypes
  <2>3. TypeOK
    BY <2>1, <2>2
       DEF TypeOK, LoopTypes, NodeTypes, PlainFlags, Lifecycle, LoopKnows, NodeKnown, Counted
  <2>4. QED  BY <2>3 DEF SystemInv, TriedOnce, Counted
<1>2. QED  BY <1>1, SystemInductive, PTL

\* StopsAtHeight: the node is stopped for an upgrade exactly at its height, also
\* when the pending upgrade is replaced in the middle (monitorHeights).
THEOREM StoppedAtHeight == Spec => []StopsAtHeight
<1>1. SystemIInv => StopsAtHeight
  BY SystemAssumption DEF SystemIInv, LoopKnows, StopsAtHeight
<1>2. QED  BY <1>1, SystemInductive, PTL

\* DownOnlyInUpgrade: the orchestrator leaves a node running that does not exit
\* and can be started, also when it is stopped meanwhile (executeUpgrade).
THEOREM LeftRunning == Spec => []DownOnlyInUpgrade
<1>1. SystemIInv => DownOnlyInUpgrade
  BY DEF SystemIInv, NodeKnown, DownOnlyInUpgrade
<1>2. QED  BY <1>1, SystemInductive, PTL

\* StopIsFinal: Stop has waited for both goroutines, and no Start brings them
\* back (uo.wg.Wait, uo.started).
THEOREM StoppedForGood == Spec => StopIsFinal
<1>1. SystemIInv /\ [Next]_vars =>
        (stop = "returned" => UNCHANGED <<claimed, loop, watch, upgrading>>)
  <2> SUFFICES ASSUME SystemIInv, [Next]_vars, stop = "returned"
               PROVE  UNCHANGED <<claimed, loop, watch, upgrading>>
    OBVIOUS
  <2>1. watch = "exited" /\ loop = "exited" /\ started
    BY DEF SystemIInv, Lifecycle
  <2>2. ~ Start /\ ~ StopCancel /\ ~ StopReturn /\ ~ WatchUpgradeConfigs /\ ~ MonitorHeights
    BY <2>1
       DEF Start, StopCancel, StopReturn, StopReturns, WatchUpgradeConfigs, WatchExit, WatchTick,
           WatchGet, WatchSchedule, WatchClear, Watch, MonitorHeights, LoopExit, ReceiveHeight,
           Snapshot, SnapshotIf, ExecuteUpgrade, Claim, ClaimIf, StopRefused, StopNode,
           NodeStopped, StopFails, StartNew, StartNode, Unflag, Rollback, Forget, ForgetIf, Loop
  <2>3. QED
    BY <2>2 DEF Next, ScheduleUpgrade, NodeExits, RestartResets, RestartStarts, KeepsNode,
                Observe, Publish, WatcherStep
<1>2. QED  BY <1>1, SystemInductive, PTL DEF Spec, StopIsFinal
=============================================================================
