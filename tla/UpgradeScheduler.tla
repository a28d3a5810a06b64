-------------------------- MODULE UpgradeScheduler --------------------------
(***************************************************************************)
(* The queue of governance upgrades: internal/governance/scheduler.go, and *)
(* the goroutine of monitor.go that works on it (scheduleUpgrades).        *)
(*                                                                         *)
(* An upgrade is a pointer that the scheduler's maps and queues and the    *)
(* goroutine's copy of the queue share: its Status is written by both, by  *)
(* the goroutine without the scheduler's mutex.  Callers of the exported   *)
(* methods schedule and cancel what they like, and report the end of the   *)
(* upgrade that GetCurrentUpgrade names.  Upgrades are numbered in the     *)
(* order in which they were scheduled.                                     *)
(***************************************************************************)
EXTENDS Naturals, Sequences, SequencesExt

CONSTANTS
  Names,        \* names of upgrades
  NameHeight,   \* the height each of them is due at
  MaxHeight,    \* bound: the height of the chain
  MaxUpgrades,  \* bound: calls of ScheduleUpgrade that are not refused
  MaxCancels    \* bound: calls of CancelUpgrade

Upgrades == 1..MaxUpgrades
NoUpgrade == 0

ASSUME SchedulerAssumption ==
  /\ Names # {} /\ NameHeight \in [Names -> 1..MaxHeight]
  /\ MaxHeight \in Nat /\ MaxUpgrades \in Nat /\ MaxCancels \in Nat

VARIABLES
  upgrades,   \* us.upgrades: the upgrade known under a name
  name,       \* its name
  status,     \* its Status, "none" before it exists
  scheduledQueue,
  completedQueue,  \* how often each upgrade is in us.completedQueue
  currentUpgrade,
  height,     \* the height of the chain
  worker,     \* where processUpgradeQueue is
  seenHeight, \* the height it was told
  copied,     \* what is left of its copy of the queue
  made,       \* upgrades made so far
  cancels,    \* calls of CancelUpgrade so far
  triggered   \* ghost: the upgrades written to upgrade-info.json, in order

queueVars     == <<upgrades, scheduledQueue, completedQueue, currentUpgrade>>
workerVars    == <<worker, seenHeight, copied>>
schedulerVars == <<queueVars, name, status, height, workerVars, made, cancels, triggered>>

Made == 1..made
HeightOf(u) == NameHeight[name[u]]
FinalStates == {"completed", "failed", "cancelled"}

SchedulerTypeOK ==
  /\ upgrades \in [Names -> Upgrades \cup {NoUpgrade}]
  /\ name \in [Upgrades -> Names]
  /\ status \in [Upgrades -> {"none", "scheduled", "in_progress"} \cup FinalStates]
  /\ scheduledQueue \in Seq(Made) /\ completedQueue \in [Upgrades -> Nat]
  /\ currentUpgrade \in Made \cup {NoUpgrade}
  /\ height \in 0..MaxHeight /\ seenHeight \in 0..MaxHeight
  /\ worker \in {"idle", "queue", "loop", "trigger", "update"}
  /\ copied \in Seq(Made)
  /\ made \in 0..MaxUpgrades /\ cancels \in 0..MaxCancels
  /\ triggered \in Seq(Made)

SchedulerInit ==
  /\ upgrades = [n \in Names |-> NoUpgrade]
  /\ name = [u \in Upgrades |-> CHOOSE n \in Names : TRUE]
  /\ status = [u \in Upgrades |-> "none"]
  /\ scheduledQueue = <<>> /\ completedQueue = [u \in Upgrades |-> 0] /\ currentUpgrade = NoUpgrade
  /\ height = 0 /\ seenHeight = 0 /\ worker = "idle" /\ copied = <<>>
  /\ made = 0 /\ cancels = 0 /\ triggered = <<>>

WorkerOnly == UNCHANGED <<queueVars, name, height, made, cancels>>
CallerOnly == UNCHANGED <<workerVars, height, triggered>>

-----------------------------------------------------------------------------
(* The scheduler's methods.                                                *)

\* sortScheduledQueue: u comes after the upgrades due before it and in front of
\* the ones due after it; sort.Slice promises nothing for equal heights.
Sorted(q) == \A i, j \in DOMAIN q : i < j => HeightOf(q[i]) <= HeightOf(q[j])

Enqueue(u, n) == \E i \in 1..Len(scheduledQueue) + 1 :
  /\ \A j \in DOMAIN scheduledQueue :
       IF j < i THEN HeightOf(scheduledQueue[j]) <= NameHeight[n]
                ELSE HeightOf(scheduledQueue[j]) >= NameHeight[n]
  /\ scheduledQueue' = InsertAt(scheduledQueue, i, u)

NewUpgrade(n) ==
  /\ made < MaxUpgrades
  /\ made' = made + 1
  /\ upgrades' = [upgrades EXCEPT ![n] = made']
  /\ name' = [name EXCEPT ![made'] = n]
  /\ status' = [status EXCEPT ![made'] = "scheduled"]
  /\ Enqueue(made', n)
  /\ UNCHANGED <<completedQueue, currentUpgrade, cancels>> /\ CallerOnly

\* Any other call is refused by validateUpgrade: the name is taken.
ScheduleUpgrade(n) == upgrades[n] = NoUpgrade /\ NewUpgrade(n)

\* The first entry of that name leaves the queue.
MoveToCompleted(u) ==
  /\ scheduledQueue' = RemoveFirstMatch(scheduledQueue, LAMBDA v : name[v] = name[u])
  /\ completedQueue' = [completedQueue EXCEPT ![u] = @ + 1]

\* Mutant: the end of an upgrade leaves it the current one.
UpdateStatus_KeepsCurrent(u, s) ==
  LET existing == upgrades[name[u]] IN
  IF existing = NoUpgrade THEN UNCHANGED <<queueVars, status>>
  ELSE /\ status' = [status EXCEPT ![existing] = s]
       /\ IF s = "in_progress"
            THEN currentUpgrade' = existing /\ UNCHANGED <<scheduledQueue, completedQueue>>
            ELSE MoveToCompleted(existing) /\ UNCHANGED currentUpgrade
       /\ UNCHANGED upgrades

\* UpdateStatus, of the upgrade that has this name.
UpdateStatus(u, s) ==
  LET existing == upgrades[name[u]] IN
  IF existing = NoUpgrade THEN UNCHANGED <<queueVars, status>>
  ELSE /\ status' = [status EXCEPT ![existing] = s]
       /\ \/ /\ s = "in_progress"
             /\ currentUpgrade' = existing
             /\ UNCHANGED <<scheduledQueue, completedQueue>>
          \/ /\ s \in FinalStates
             /\ currentUpgrade' = NoUpgrade
             /\ MoveToCompleted(existing)
       /\ UNCHANGED upgrades

\* Whoever carries the current upgrade out tells how it ended.
Report(s) ==
  /\ currentUpgrade # NoUpgrade
  /\ UpdateStatus(currentUpgrade, s)
  /\ UNCHANGED <<name, made, cancels>> /\ CallerOnly

\* Whatever is not in progress can be cancelled, ended or not.
CancelUpgrade(n) ==
  /\ cancels < MaxCancels
  /\ upgrades[n] # NoUpgrade /\ status[upgrades[n]] # "in_progress"
  /\ cancels' = cancels + 1
  /\ status' = [status EXCEPT ![upgrades[n]] = "cancelled"]
  /\ MoveToCompleted(upgrades[n])
  /\ UNCHANGED <<upgrades, currentUpgrade, name, made>> /\ CallerOnly

\* CleanupOld forgets what ended long ago: longer than a round of the worker.
CleanupOld ==
  \E old \in SUBSET {u \in Made : completedQueue[u] > 0 /\ \A i \in DOMAIN copied : copied[i] # u} :
    /\ old # {}
    /\ completedQueue' = [u \in Upgrades |-> IF u \in old THEN 0 ELSE completedQueue[u]]
    /\ upgrades' = [n \in Names |-> IF \E u \in old : name[u] = n THEN NoUpgrade
                                    ELSE upgrades[n]]
    /\ UNCHANGED <<scheduledQueue, currentUpgrade, name, status, made, cancels>>
    /\ CallerOnly

NewBlock ==
  /\ height < MaxHeight
  /\ height' = height + 1
  /\ UNCHANGED <<queueVars, name, status, workerVars, made, cancels, triggered>>

-----------------------------------------------------------------------------
(* processUpgradeQueue, once a minute.                                     *)

\* GetCurrentHeight: a failure ends the round.
GetCurrentHeight ==
  /\ worker = "idle" /\ worker' = "queue"
  /\ seenHeight' = height
  /\ UNCHANGED <<copied, status, triggered>> /\ WorkerOnly

GetQueue ==
  /\ worker = "queue"
  /\ copied' = scheduledQueue
  /\ worker' = IF copied' = <<>> THEN "idle" ELSE "loop"
  /\ UNCHANGED <<seenHeight, status, triggered>> /\ WorkerOnly

NextCopied ==
  /\ copied' = Tail(copied)
  /\ worker' = IF copied' = <<>> THEN "idle" ELSE "loop"

Due(u) == HeightOf(u) <= seenHeight /\ status[u] = "scheduled"

\* The status is read without the scheduler's mutex.
CheckUpgrade ==
  /\ worker = "loop"
  /\ IF Due(Head(copied)) THEN worker' = "trigger" /\ UNCHANGED copied
     ELSE NextCopied
  /\ UNCHANGED <<seenHeight, status, triggered>> /\ WorkerOnly

\* triggerUpgrade writes upgrade-info.json; the status is set, without the
\* mutex again, whatever it has become meanwhile.
TriggerUpgrade ==
  /\ worker = "trigger" /\ worker' = "update"
  /\ triggered' = Append(triggered, Head(copied))
  /\ status' = [status EXCEPT ![Head(copied)] = "in_progress"]
  /\ UNCHANGED <<copied, seenHeight>> /\ WorkerOnly

\* Mutant: a failed upgrade is left as it is, for another try.
TriggerFails_Retry ==
  /\ worker = "trigger"
  /\ NextCopied
  /\ UNCHANGED <<seenHeight, status, triggered>> /\ WorkerOnly

TriggerFails ==
  /\ worker = "trigger" /\ worker' = "update"
  /\ status' = [status EXCEPT ![Head(copied)] = "failed"]
  /\ UNCHANGED <<copied, seenHeight, triggered>> /\ WorkerOnly

\* The scheduler is told, with the status that the shared upgrade has by now.
UpdateTriggered ==
  /\ worker = "update"
  /\ UpdateStatus(Head(copied), status[Head(copied)])
  /\ NextCopied
  /\ UNCHANGED <<seenHeight, name, height, made, cancels, triggered>>

-----------------------------------------------------------------------------

ProcessUpgradeQueue == GetQueue \/ CheckUpgrade \/ TriggerUpgrade \/ TriggerFails
                       \/ UpdateTriggered

SchedulerNext ==
  \/ \E n \in Names : ScheduleUpgrade(n) \/ CancelUpgrade(n)
  \/ \E s \in {"completed", "failed"} : Report(s)
  \/ CleanupOld \/ NewBlock
  \/ GetCurrentHeight \/ ProcessUpgradeQueue

SchedulerSpec == SchedulerInit /\ [][SchedulerNext]_schedulerVars

-----------------------------------------------------------------------------
(* Properties.                                                             *)

\* GetNextUpgrade and IsUpgradeReady look at the head of the queue only: it is
\* in the order of the heights, and it holds no upgrade twice.
QueueInOrder ==
  Sorted(scheduledQueue) /\ IsInjective(scheduledQueue)

\* What is scheduled is in the queue, where the worker finds it, and known by
\* its name, whatever was cancelled, reported or forgotten meanwhile.
ScheduledIsQueued == \A u \in Made : status[u] = "scheduled" =>
  /\ \E i \in DOMAIN scheduledQueue : scheduledQueue[i] = u
  /\ upgrades[name[u]] = u

\* GetCurrentUpgrade hands out an upgrade that is in progress: one that has
\* ended, or was cancelled, is never the current one.
CurrentInProgress ==
  currentUpgrade # NoUpgrade => status[currentUpgrade] = "in_progress"

\* Each upgrade is written to upgrade-info.json once, and not before its height.
TriggeredOnce ==
  /\ IsInjective(triggered)
  /\ \A i \in DOMAIN triggered : HeightOf(triggered[i]) <= height

\* The status of an upgrade is changed without the scheduler's lock; the queue,
\* the names and the current upgrade agree with it all the same.
SchedulerInv ==
  SchedulerTypeOK /\ QueueInOrder /\ ScheduledIsQueued /\ CurrentInProgress /\ TriggeredOnce

\* An upgrade whose height is reached does not stay scheduled.
DueIsTriggered == \A u \in Upgrades :
  []<>(status[u] = "scheduled" => HeightOf(u) > height)

-----------------------------------------------------------------------------
(* What the documentation says and the code does not do.                   *)

\* scheduler.go:231, "cannot cancel upgrade in progress", scheduler.go:219,
\* "CancelUpgrade cancels a scheduled upgrade": a cancelled one is not begun.
CancelledStays ==
  [][\A u \in Made : status[u] = "cancelled" => status'[u] = "cancelled"]_schedulerVars

\* scheduler.go:43, "Only one upgrade at a time".
OneAtATime == \A u, v \in Made :
  status[u] = "in_progress" /\ status[v] = "in_progress" => u = v
=============================================================================
