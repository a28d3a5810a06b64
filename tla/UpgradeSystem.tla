--------------------------- MODULE UpgradeSystem ---------------------------
(***************************************************************************)
(* The upgrade orchestrator, internal/orchestrator/orchestrator.go, with   *)
(* what it is connected to: the file watcher (UpgradeWatcher, whole), the  *)
(* height monitor (the abstract HeightFeed) and the node manager (the      *)
(* abstract NodeService).                                                  *)
(*                                                                         *)
(* One goroutine, watch, turns the watcher's updates into the pending      *)
(* upgrade; another one, loop, receives heights and executes it.  A        *)
(* critical section of uo.mu, a call of the watcher or of the node manager *)
(* is one action.  Start subscribes: heights observed earlier never reach  *)
(* the orchestrator and are left out.  switchBinary does nothing.          *)
(***************************************************************************)
EXTENDS Naturals, Sequences

CONSTANTS
  Plans, Name, Height, NoPlan, MaxWrites,  \* see UpgradeWatcher
  Heights, BufferSize, MaxChanges,         \* see HeightFeed
  MaxDirect,      \* bound: calls of ScheduleUpgrade by others
  MaxExits,       \* bound: exits of the node
  StartMayFail    \* whether the node manager may fail to start a node

ASSUME SystemAssumption ==
  /\ Height \in [Plans -> Nat \ {0}] /\ NoPlan \notin Plans
  /\ Heights \subseteq Nat \ {0}
  /\ MaxWrites \in Nat /\ MaxChanges \in Nat
  /\ MaxDirect \in Nat /\ MaxExits \in Nat
  /\ StartMayFail \in BOOLEAN

VARIABLES
  file, mtime, writer, current, needsUpdate, detected, initialized, lastMod,
  locked, seen, starting, monitor, starts, \* the watcher
  halted,                                  \* always FALSE: it is not stopped
  changes, channel, got,                   \* the height feed
  state,                                   \* the node manager
  started, cancelled, stop,  \* uo.started, uo.ctx, and where Stop is
  pending, upgrading,        \* uo.pendingUpgrade, uo.upgrading
  watch, update,   \* watchUpgradeConfigs: its next step, and its upgrade
  loop, plan, now, \* monitorHeights: its next step, pending, currentHeight
  failed,          \* what executeUpgrade is about to return
  restarter,       \* the node manager's goroutine that restarts a crashed node
  exits, direct,   \* so far: exits of the node, ScheduleUpgrade by others
  scheduled, claimed, \* ghost: upgrades accepted, upgrades begun
  startFailed,     \* ghost: the node manager failed to start a node
  onTime           \* ghost: pending was scheduled before its height was seen

watcherVars == <<file, mtime, writer, current, needsUpdate, detected, initialized,
                 lastMod, locked, seen, starting, monitor, starts, halted>>
feedVars == <<changes, channel, got>>
nodeVars == <<state, restarter, exits, startFailed>>
planVars == <<pending, scheduled, onTime>>
loopVars == <<loop, plan, now, failed, upgrading, claimed>>
watchVars == <<watch, update>>
lifeVars == <<started, cancelled, stop>>
vars == <<watcherVars, feedVars, nodeVars, planVars, loopVars, watchVars, lifeVars, direct>>

\* Nobody calls the watcher's WaitForUpgrade, nor stops it.
Watcher == INSTANCE UpgradeWatcher
  WITH Waiters <- {}, Stoppers <- {}, MaxStarts <- 1, stopChan <- halted,
       stopped <- halted, stop <- <<>>, wait <- <<>>, given <- <<>>, handed <- 0,
       panicked <- halted
Feed == INSTANCE HeightFeed
Node == INSTANCE NodeService

TypeOK ==
  /\ Watcher!TypeOK /\ ~ halted
  /\ changes \in Seq(Heights) /\ channel \in Seq(1..MaxChanges)
  /\ got \in 0..MaxChanges
  /\ state \in {"Stopped", "Running", "Stopping", "Error", "Crashed"}
  /\ started \in BOOLEAN /\ cancelled \in BOOLEAN /\ upgrading \in BOOLEAN
  /\ stop \in {"idle", "waiting", "returned", "unused"}
  /\ pending \in Plans \cup {NoPlan} /\ update \in Plans \cup {NoPlan}
  /\ plan \in Plans \cup {NoPlan} /\ now \in Heights \cup {0}
  /\ watch \in {"none", "select", "get", "schedule", "clear", "exited"}
  /\ loop \in {"none", "select", "snapshot", "claim", "stop", "stopping", "start",
               "unflag", "rollback", "forget", "exited"}
  /\ failed \in BOOLEAN /\ startFailed \in BOOLEAN /\ onTime \in BOOLEAN
  /\ restarter \in {"none", "reset", "start"}
  /\ exits \in 0..MaxExits /\ direct \in 0..MaxDirect
  /\ scheduled \in Nat /\ claimed \in Nat

\* The node has been started and the orchestrator has not.
Init ==
  /\ halted = FALSE
  /\ Watcher!FileInit /\ Watcher!WatcherInit /\ Feed!FeedInit
  /\ state = "Running" /\ restarter = "none" /\ exits = 0 /\ startFailed = FALSE
  /\ started = FALSE /\ cancelled = FALSE /\ stop = "idle"
  /\ pending = NoPlan /\ upgrading = FALSE /\ onTime = FALSE
  /\ watch = "none" /\ update = NoPlan
  /\ loop = "none" /\ plan = NoPlan /\ now = 0 /\ failed = FALSE
  /\ direct = 0 /\ scheduled = 0 /\ claimed = 0

-----------------------------------------------------------------------------
(* The public methods.                                                     *)

Start ==
  /\ ~ started
  /\ started' = TRUE
  /\ watch' = "select" /\ loop' = "select"
  /\ UNCHANGED <<watcherVars, feedVars, nodeVars, planVars, plan, now, failed,
                 upgrading, claimed, update, cancelled, stop, direct>>

StopCancel ==
  /\ stop = "idle"
  /\ cancelled' = TRUE /\ stop' = "waiting"
  /\ UNCHANGED <<watcherVars, feedVars, nodeVars, planVars, loopVars, watchVars,
                 started, direct>>

StopReturns(ready) ==
  /\ stop = "waiting"
  /\ ready
  /\ stop' = IF loop = "none" THEN "unused" ELSE "returned"
  /\ UNCHANGED <<watcherVars, feedVars, nodeVars, planVars, loopVars, watchVars,
                 started, cancelled, direct>>

\* Mutant: uo.wg counts one goroutine.
StopReturn_CountsOne == StopReturns({watch, loop} \cap {"none", "exited"} # {})

\* uo.wg.Wait()
StopReturn == StopReturns({watch, loop} \subseteq {"none", "exited"})

\* ScheduleUpgrade(p).
Schedule(p) == /\ pending' = p
               /\ scheduled' = scheduled + 1
               /\ onTime' = (Feed!Observed < Height[p])

ScheduleUpgrade(p) ==
  /\ direct < MaxDirect
  /\ direct' = direct + 1
  /\ Schedule(p)
  /\ UNCHANGED <<watcherVars, feedVars, nodeVars, loopVars, watchVars, lifeVars>>

-----------------------------------------------------------------------------
(* watchUpgradeConfigs.                                                    *)

Watch(from, to) == watch = from /\ watch' = to
KeepsWatch == UNCHANGED <<feedVars, nodeVars, loopVars, lifeVars, direct>>

WatchExit == /\ cancelled
             /\ Watch("select", "exited")
             /\ UNCHANGED <<watcherVars, planVars, update>> /\ KeepsWatch

WatchTick == /\ Watcher!NeedsUpdate
             /\ Watch("select", "get")
             /\ UNCHANGED <<watcherVars, planVars, update>> /\ KeepsWatch

WatchGet == /\ Watcher!GetCurrentUpgrade
            /\ update' = current
            /\ Watch("get", IF current = NoPlan THEN "select" ELSE "schedule")
            /\ UNCHANGED <<watcherVars, planVars>> /\ KeepsWatch

WatchSchedule == /\ Watch("schedule", "clear")
                 /\ Schedule(update)
                 /\ UNCHANGED <<watcherVars, update>> /\ KeepsWatch

WatchClear == /\ Watcher!ClearUpdateFlag
              /\ Watch("clear", "select")
              /\ update' = NoPlan
              /\ UNCHANGED <<file, mtime, writer, current, detected, initialized, lastMod,
                             locked, seen, starting, monitor, starts, halted, planVars>>
              /\ KeepsWatch

-----------------------------------------------------------------------------
(* monitorHeights, with executeUpgrade and rollback.                       *)

Loop(from, to) == loop = from /\ loop' = to
KeepsLoop == UNCHANGED <<watcherVars, watchVars, lifeVars, direct, restarter, exits>>
NodeIdle  == UNCHANGED <<state, startFailed>>

LoopExit == /\ cancelled
            /\ Loop("select", "exited")
            /\ UNCHANGED <<feedVars, planVars, plan, now, failed, upgrading, claimed>>
            /\ NodeIdle /\ KeepsLoop

\* select takes a height also when the orchestrator is being stopped.
ReceiveHeight == /\ Feed!Receive
                 /\ Loop("select", "snapshot")
                 /\ now' = changes[Head(channel)]
                 /\ UNCHANGED <<planVars, plan, failed, upgrading, claimed>>
                 /\ NodeIdle /\ KeepsLoop

\* pending and upgrading are read under uo.mu, and used after it is released.
SnapshotIf(reached) ==
  /\ LET goes == pending # NoPlan /\ ~ upgrading /\ reached
     IN  /\ Loop("snapshot", IF goes THEN "claim" ELSE "select")
         /\ plan' = IF goes THEN pending ELSE NoPlan
         /\ now' = IF goes THEN now ELSE 0
  /\ UNCHANGED <<feedVars, planVars, failed, upgrading, claimed>>
  /\ NodeIdle /\ KeepsLoop

Snapshot == SnapshotIf(pending # NoPlan => now >= Height[pending])

\* executeUpgrade takes the flag, which only this goroutine sets, and validates.
ClaimIf(valid) ==
  /\ ~ upgrading
  /\ upgrading' = TRUE
  /\ claimed' = claimed + 1
  /\ Loop("claim", IF valid THEN "stop" ELSE "unflag")
  /\ failed' = ~ valid
  /\ UNCHANGED <<feedVars, planVars, plan, now>>
  /\ NodeIdle /\ KeepsLoop

\* Mutant: a height beyond the plan's passes the validation.
Claim_AnyHeight == ClaimIf(TRUE)

Claim == ClaimIf(now <= Height[plan])

\* nodeManager.Stop: refused, begun, and ended or failed.
LoopOnly == UNCHANGED <<feedVars, planVars, plan, now, upgrading, claimed>>

StopRefused == /\ state # "Running"
               /\ Loop("stop", "unflag")
               /\ failed' = TRUE
               /\ LoopOnly /\ NodeIdle /\ KeepsLoop

StopNode == /\ Node!StopBegins
            /\ Loop("stop", "stopping")
            /\ UNCHANGED <<failed, startFailed>> /\ LoopOnly /\ KeepsLoop

NodeStopped == /\ Node!BecomesStopped
               /\ Loop("stopping", "start")
               /\ UNCHANGED <<failed, startFailed>> /\ LoopOnly /\ KeepsLoop

\* The node exited by itself before it could be signalled: no process is left
\* to signal, and the state is not restored.
StopFails == /\ exits < MaxExits
             /\ exits' = exits + 1
             /\ Loop("stopping", "unflag")
             /\ failed' = TRUE
             /\ UNCHANGED <<watcherVars, watchVars, lifeVars, direct, restarter>>
             /\ LoopOnly /\ NodeIdle

\* nodeManager.Start(nil), in executeUpgrade and in rollback.
StartNode(from, to) ==
  /\ Loop(from, to)
  /\ \/ Node!Starts /\ failed' = FALSE /\ UNCHANGED startFailed
     \/ /\ StartMayFail /\ Node!StartFails
        /\ failed' = TRUE /\ startFailed' = TRUE
     \/ state # "Stopped" /\ failed' = TRUE /\ NodeIdle
  /\ LoopOnly /\ KeepsLoop

\* Mutant: a cancelled orchestrator does not start the node any more.
StartNew_UnlessCancelled ==
  \/ ~ cancelled /\ StartNode("start", "unflag")
  \/ /\ cancelled /\ Loop("start", "unflag")
     /\ UNCHANGED failed /\ LoopOnly /\ NodeIdle /\ KeepsLoop

StartNew == StartNode("start", "unflag")

\* Mutant: the flag is cleared at the end only, without defer.
Unflag_OnSuccess == /\ Loop("unflag", IF failed THEN "rollback" ELSE "forget")
                    /\ upgrading' = failed
                    /\ UNCHANGED <<feedVars, planVars, plan, now, failed, claimed>>
                    /\ NodeIdle /\ KeepsLoop

\* executeUpgrade returns.
Unflag == /\ Loop("unflag", IF failed THEN "rollback" ELSE "forget")
          /\ upgrading' = FALSE
          /\ UNCHANGED <<feedVars, planVars, plan, now, failed, claimed>>
          /\ NodeIdle /\ KeepsLoop

Rollback == StartNode("rollback", "forget")

ForgetIf(clear) ==
  /\ Loop("forget", "select")
  /\ pending' = IF clear THEN NoPlan ELSE pending
  /\ plan' = NoPlan /\ now' = 0 /\ failed' = FALSE
  /\ UNCHANGED <<feedVars, scheduled, onTime, upgrading, claimed>>
  /\ NodeIdle /\ KeepsLoop

\* Mutant: an upgrade that failed stays pending.
Forget_OnSuccess == ForgetIf(~ failed)

\* Success or failure, and whatever is pending by now.
Forget == ForgetIf(TRUE)

-----------------------------------------------------------------------------
(* The node, and the node manager's own goroutines.                        *)

KeepsNode ==
  UNCHANGED <<watcherVars, feedVars, planVars, loopVars, watchVars, lifeVars, direct>>

NodeExits ==
  /\ state = "Running"
  /\ exits < MaxExits
  /\ exits' = exits + 1
  /\ Node!NodeExits
  /\ restarter' = IF state' = "Crashed" THEN "reset" ELSE restarter
  /\ UNCHANGED startFailed /\ KeepsNode

RestartResets ==
  /\ restarter = "reset"
  /\ restarter' = "start"
  /\ Node!BecomesStopped
  /\ UNCHANGED <<exits, startFailed>> /\ KeepsNode

RestartStarts ==
  /\ restarter = "start"
  /\ restarter' = "none"
  /\ \/ Node!Starts /\ UNCHANGED startFailed
     \/ StartMayFail /\ Node!StartFails /\ startFailed' = TRUE
     \/ state # "Stopped" /\ NodeIdle
  /\ UNCHANGED exits /\ KeepsNode

\* The chain grows, by any number of blocks between two polls.
Observe(h) ==
  /\ started /\ state \in {"Running", "Stopping"}
  /\ h > Feed!Observed
  /\ Feed!Observe(h)
  /\ UNCHANGED <<watcherVars, nodeVars, planVars, loopVars, watchVars, lifeVars, direct>>

Publish ==
  /\ Feed!Publish
  /\ UNCHANGED <<watcherVars, nodeVars, planVars, loopVars, watchVars, lifeVars, direct>>

WatcherStep ==
  /\ Watcher!WatcherNext
  /\ UNCHANGED <<feedVars, nodeVars, planVars, loopVars, watchVars, lifeVars, direct>>

-----------------------------------------------------------------------------

WatchUpgradeConfigs ==
  WatchExit \/ WatchTick \/ WatchGet \/ WatchSchedule \/ WatchClear
ExecuteUpgrade == Claim \/ StopRefused \/ StopNode \/ NodeStopped \/ StopFails
                  \/ StartNew \/ Unflag
MonitorHeights ==
  LoopExit \/ ReceiveHeight \/ Snapshot \/ ExecuteUpgrade \/ Rollback \/ Forget

Next ==
  \/ Start \/ StopCancel \/ StopReturn
  \/ \E p \in Plans : ScheduleUpgrade(p)
  \/ WatchUpgradeConfigs
  \/ MonitorHeights
  \/ NodeExits \/ RestartResets \/ RestartStarts
  \/ \E h \in Heights : Observe(h)
  \/ Publish
  \/ WatcherStep

Spec == Init /\ [][Next]_vars

\* Goroutines run, and the calls of the node manager and the watcher return.
\* Nothing obliges the operator, the node or the chain to do anything.
Fairness ==
  /\ WF_vars(WatchUpgradeConfigs) /\ SF_vars(WatchExit)
  /\ WF_vars(MonitorHeights)      /\ SF_vars(LoopExit)
  /\ WF_vars(StopReturn)
  /\ WF_vars(WatcherStep /\ Watcher!StartParse)
  /\ WF_vars(WatcherStep /\ Watcher!Check(1))

FairSpec == Spec /\ Fairness

-----------------------------------------------------------------------------
(* Properties.                                                             *)

\* A node is stopped for an upgrade only when the height monitor reported, as
\* the latest height received, exactly the height of that upgrade.
StopsAtHeight == loop \in {"stopping", "start"} =>
  /\ plan # NoPlan /\ got > 0
  /\ changes[got] = Height[plan]

\* The orchestrator leaves the node running: unless the node exited or could not
\* be started, it is down only between executeUpgrade's Stop and Start, whatever
\* is scheduled or stopped meanwhile.
DownOnlyInUpgrade ==
  state = "Running" \/ exits > 0 \/ startFailed \/ loop \in {"stopping", "start"}

\* One scheduling is tried at most once: not again with every new block.
TriedOnce == claimed <= scheduled

SystemInv == TypeOK /\ TriedOnce

\* Stop does not return in the middle of an upgrade, nor before the watching
\* goroutine is done: nothing is scheduled or executed afterwards, even if the
\* orchestrator is started again.
StopIsFinal ==
  [][stop = "returned" => UNCHANGED <<claimed, loop, watch, upgrading>>]_vars

\* An upgrade that began comes to an end, whatever the node manager answers.
UpgradeEnds == []<>~ upgrading

\* A pending upgrade whose height has been sent is tried, replaced or lost, but
\* does not stay pending.
ReachedIsHandled == \A p \in Plans :
  pending = p /\ (\E k \in DOMAIN channel : changes[channel[k]] >= Height[p])
    ~> pending # p \/ cancelled

UpgradeProgress == UpgradeEnds /\ ReachedIsHandled

-----------------------------------------------------------------------------
(* What the documentation says and the code does not do.                   *)

\* orchestrator.go:27, "When target height reached, stop node": an upgrade that
\* was scheduled in time is not turned down when its turn comes.
ReachedIsUpgraded == ~ (loop = "unflag" /\ pending = plan /\ onTime /\ state = "Running"
                        /\ exits = 0 /\ failed)

\* orchestrator.go:315, "to ensure the node can continue operating": after the
\* rollback of a failed upgrade the node runs.
RollbackRecovers == loop = "forget" /\ failed => state = "Running"

\* orchestrator.go:161, "it will be replaced with the new one": an upgrade that
\* is pending is only dropped once it has been tried.
NotLost == [][pending # NoPlan /\ pending' = NoPlan => pending = plan]_vars

\* orchestrator.go:179, "schedules upgrades when detected".
DetectedIsScheduled == \A p \in Plans :
  started /\ needsUpdate /\ current = p ~> pending = p \/ current # p \/ cancelled

\* cli/upgrade.go:45, "The upgrade will be triggered automatically": an upgrade
\* that is in the file when wemixvisor starts is scheduled.
FileIsScheduled == \A p \in Plans :
  started /\ initialized /\ file = p ~> pending = p \/ file # p \/ cancelled

\* cli/upgrade.go:203, "Cancel a scheduled upgrade by removing the
\* upgrade-info.json file".
CancelTakesEffect == file = "missing" ~> pending = NoPlan \/ file # "missing"

\* orchestrator.go:355, "Current height hasn't exceeded target height".
FreshHeight == [][StopNode => Feed!Observed <= Height[plan]]_vars
=============================================================================
