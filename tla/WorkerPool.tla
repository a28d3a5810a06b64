----------------------------- MODULE WorkerPool -----------------------------
(***************************************************************************)
(* The worker pool, internal/performance/worker.go: callers put tasks into *)
(* a bounded queue, one dispatcher hands them to the workers' channels of  *)
(* one place each.  Start has been called, once; wp.mu is held for one     *)
(* action, by Stop until it returns.  A task ends; when it has, its name   *)
(* may be given to another one, so that tasks are submitted without end.   *)
(***************************************************************************)
EXTENDS Naturals, Sequences, FiniteSets

CONSTANTS
  Tasks,
  MaxWorkers,  \* wp.maxWorkers
  QueueSize    \* the capacity of taskQueue (ten per worker in the code)

Workers == 1..MaxWorkers
NoTask  == "none"

ASSUME WorkerAssumption ==
  /\ NoTask \notin Tasks
  /\ MaxWorkers \in Nat \ {0} /\ QueueSize \in Nat \ {0}

VARIABLES
  submit,      \* where the Submit of each task is
  taskQueue, queueClosed,
  dispatcher,  \* "idle", "assign", "requeue", "gone"
  inHand,      \* the task the dispatcher has taken
  tryNext,     \* the worker it tries next
  taskChan,    \* the channel of each worker
  worker,      \* "idle", "taken", "active", "gone"
  task,        \* the task the worker works on
  poolStop,    \* Stop: "no", "wait", "done"
  poolPanic,   \* a send on a closed channel has ended the program
  executed,    \* ghost: how often the task of each name was executed
  dropped,     \* ghost: accepted tasks the dispatcher has given up
  waitFor,     \* WaitForCompletion: "no", "idle" (all workers were), "returned"
  awaited      \* ghost: the tasks accepted before it was called that have not ended

dispatchVars == <<dispatcher, inHand, tryNext>>
workingVars  == <<worker, task, executed>>
waitVars     == <<waitFor, awaited>>
workerPoolVars == <<submit, taskQueue, queueClosed, dispatchVars, taskChan,
                    workingVars, poolStop, poolPanic, dropped, waitVars>>

WorkerTypeOK ==
  /\ submit \in [Tasks -> {"no", "send", "accepted", "refused"}]
  /\ taskQueue \in Seq(Tasks) /\ Len(taskQueue) <= QueueSize
  /\ queueClosed \in BOOLEAN /\ poolPanic \in BOOLEAN
  /\ dispatcher \in {"idle", "assign", "requeue", "gone"}
  /\ inHand \in Tasks \cup {NoTask} /\ tryNext \in 1..MaxWorkers + 1
  /\ taskChan \in [Workers -> Tasks \cup {NoTask}]
  /\ worker \in [Workers -> {"idle", "taken", "active", "gone"}]
  /\ task \in [Workers -> Tasks \cup {NoTask}]
  /\ poolStop \in {"no", "wait", "done"}
  /\ executed \in [Tasks -> 0..1] /\ dropped \subseteq Tasks
  /\ waitFor \in {"no", "idle", "returned"} /\ awaited \subseteq Tasks

WorkerInit ==
  /\ submit = [t \in Tasks |-> "no"]
  /\ taskQueue = <<>> /\ queueClosed = FALSE
  /\ dispatcher = "idle" /\ inHand = NoTask /\ tryNext = 1
  /\ taskChan = [w \in Workers |-> NoTask]
  /\ worker = [w \in Workers |-> "idle"] /\ task = [w \in Workers |-> NoTask]
  /\ poolStop = "no" /\ poolPanic = FALSE
  /\ executed = [t \in Tasks |-> 0] /\ dropped = {}
  /\ waitFor = "no" /\ awaited = {}

-----------------------------------------------------------------------------
(* Submit.                                                                 *)

SubmitOnly == UNCHANGED <<queueClosed, dispatchVars, taskChan, workingVars, poolStop,
                          dropped, waitVars>>

\* The test of started, under wp.mu.
SubmitBegin(t) ==
  /\ submit[t] = "no" /\ poolStop # "wait"
  /\ submit' = [submit EXCEPT ![t] = IF poolStop = "no" THEN "send" ELSE "refused"]
  /\ UNCHANGED <<taskQueue, poolPanic>> /\ SubmitOnly

SubmitSend(t) ==
  /\ submit[t] = "send" /\ ~ queueClosed /\ Len(taskQueue) < QueueSize
  /\ submit' = [submit EXCEPT ![t] = "accepted"]
  /\ taskQueue' = Append(taskQueue, t)
  /\ UNCHANGED poolPanic /\ SubmitOnly

\* Stop has closed the queue after the test of started.
SubmitPanics(t) ==
  /\ submit[t] = "send" /\ queueClosed
  /\ poolPanic' = TRUE
  /\ UNCHANGED <<submit, taskQueue>> /\ SubmitOnly

\* Five seconds.
SubmitTimeout(t) ==
  /\ submit[t] = "send" /\ ~ queueClosed /\ Len(taskQueue) = QueueSize
  /\ submit' = [submit EXCEPT ![t] = "refused"]
  /\ UNCHANGED <<taskQueue, poolPanic>> /\ SubmitOnly

Ended(t) == submit[t] = "refused" \/ executed[t] = 1 \/ t \in dropped

\* Another task, under the name of one that the pool has done with.
NewTask(t) ==
  /\ Ended(t)
  /\ submit' = [submit EXCEPT ![t] = "no"]
  /\ executed' = [executed EXCEPT ![t] = 0]
  /\ dropped' = dropped \ {t}
  /\ UNCHANGED <<taskQueue, queueClosed, dispatchVars, taskChan, worker, task, poolStop,
                 poolPanic, waitVars>>

-----------------------------------------------------------------------------
(* dispatch.                                                               *)

DispatchOnly == UNCHANGED <<submit, queueClosed, workingVars, poolStop, waitFor>>

Take ==
  /\ dispatcher = "idle" /\ taskQueue # <<>>
  /\ dispatcher' = "assign" /\ inHand' = Head(taskQueue) /\ tryNext' = 1
  /\ taskQueue' = Tail(taskQueue)
  /\ UNCHANGED <<taskChan, dropped, awaited, poolPanic>> /\ DispatchOnly

DispatchExit ==
  /\ dispatcher = "idle" /\ poolStop # "no"
  /\ dispatcher' = "gone"
  /\ UNCHANGED <<inHand, tryNext, taskQueue, taskChan, dropped, awaited, poolPanic>> /\ DispatchOnly

Accepts(w) == worker[w] # "active" /\ taskChan[w] = NoTask

\* One worker after the other: active is looked at, and the channel's place.
Assign ==
  /\ dispatcher = "assign" /\ tryNext <= MaxWorkers
  /\ IF Accepts(tryNext)
       THEN /\ taskChan' = [taskChan EXCEPT ![tryNext] = inHand]
            /\ dispatcher' = "idle" /\ inHand' = NoTask /\ tryNext' = 1
       ELSE /\ tryNext' = tryNext + 1
            /\ dispatcher' = IF tryNext = MaxWorkers THEN "requeue" ELSE "assign"
            /\ UNCHANGED <<taskChan, inHand>>
  /\ UNCHANGED <<taskQueue, dropped, awaited, poolPanic>> /\ DispatchOnly

\* Mutant: the task is forgotten when no worker takes it.
Requeue_Forgets ==
  /\ dispatcher = "requeue" /\ ~ queueClosed
  /\ dispatcher' = "idle" /\ inHand' = NoTask
  /\ UNCHANGED <<tryNext, taskQueue, taskChan, dropped, awaited, poolPanic>> /\ DispatchOnly

\* No worker is idle: back to the end of the queue that only it reads ...
Requeue ==
  /\ dispatcher = "requeue" /\ ~ queueClosed /\ Len(taskQueue) < QueueSize
  /\ dispatcher' = "idle" /\ inHand' = NoTask
  /\ taskQueue' = Append(taskQueue, inHand)
  /\ UNCHANGED <<tryNext, taskChan, dropped, awaited, poolPanic>> /\ DispatchOnly

\* ... or, when that is full for a second, nowhere.
RequeueTimeout ==
  /\ dispatcher = "requeue" /\ ~ queueClosed /\ Len(taskQueue) = QueueSize
  /\ dispatcher' = "idle" /\ inHand' = NoTask
  /\ dropped' = dropped \cup {inHand} /\ awaited' = awaited \ {inHand}
  /\ UNCHANGED <<tryNext, taskQueue, taskChan, poolPanic>> /\ DispatchOnly

RequeuePanics ==
  /\ dispatcher = "requeue" /\ queueClosed
  /\ poolPanic' = TRUE
  /\ UNCHANGED <<dispatchVars, taskQueue, taskChan, dropped, awaited>> /\ DispatchOnly

-----------------------------------------------------------------------------
(* The workers.                                                            *)

WorkOnly == UNCHANGED <<submit, taskQueue, queueClosed, dispatchVars, poolStop,
                        poolPanic, dropped, waitFor>>

Receive(w) ==
  /\ worker[w] = "idle" /\ taskChan[w] # NoTask
  /\ worker' = [worker EXCEPT ![w] = "taken"]
  /\ task' = [task EXCEPT ![w] = taskChan[w]]
  /\ taskChan' = [taskChan EXCEPT ![w] = NoTask]
  /\ UNCHANGED <<executed, awaited>> /\ WorkOnly

SetActive(w) ==
  /\ worker[w] = "taken"
  /\ worker' = [worker EXCEPT ![w] = "active"]
  /\ UNCHANGED <<task, executed, taskChan, awaited>> /\ WorkOnly

\* The task has ended, with an error or a panic perhaps, which is recovered.
Execute(w) ==
  /\ worker[w] = "active"
  /\ worker' = [worker EXCEPT ![w] = "idle"]
  /\ task' = [task EXCEPT ![w] = NoTask]
  /\ executed' = [executed EXCEPT ![task[w]] = @ + 1]
  /\ awaited' = awaited \ {task[w]}
  /\ UNCHANGED taskChan /\ WorkOnly

\* quit is closed; a task in the channel may be left there.
WorkerExit(w) ==
  /\ worker[w] = "idle" /\ poolStop # "no"
  /\ worker' = [worker EXCEPT ![w] = "gone"]
  /\ UNCHANGED <<task, executed, taskChan, awaited>> /\ WorkOnly

-----------------------------------------------------------------------------
(* Stop and WaitForCompletion.                                             *)

StopBegin ==
  /\ poolStop = "no" /\ poolStop' = "wait"
  /\ UNCHANGED <<submit, taskQueue, queueClosed, dispatchVars, taskChan, workingVars,
                 poolPanic, dropped, waitVars>>

\* wg counts the workers, and not the dispatcher.
StopReturn ==
  /\ poolStop = "wait" /\ \A w \in Workers : worker[w] = "gone"
  /\ poolStop' = "done" /\ queueClosed' = TRUE
  /\ UNCHANGED <<submit, taskQueue, dispatchVars, taskChan, workingVars, poolPanic,
                 dropped, waitVars>>

Accepted == {t \in Tasks : submit[t] = "accepted"}

\* GetStats counts the active workers first and the queued tasks then.
CountActive ==
  /\ waitFor = "no" /\ Accepted # {}
  /\ \A w \in Workers : worker[w] # "active"
  /\ waitFor' = "idle" /\ awaited' = {t \in Accepted : ~ Ended(t)}
  /\ UNCHANGED <<submit, taskQueue, queueClosed, dispatchVars, taskChan, workingVars,
                 poolStop, poolPanic, dropped>>

CountQueued ==
  /\ waitFor = "idle"
  /\ \/ taskQueue = <<>> /\ waitFor' = "returned" /\ UNCHANGED awaited
     \/ taskQueue # <<>> /\ waitFor' = "no" /\ awaited' = {}
  /\ UNCHANGED <<submit, taskQueue, queueClosed, dispatchVars, taskChan, workingVars,
                 poolStop, poolPanic, dropped>>

-----------------------------------------------------------------------------

Dispatch == Take \/ DispatchExit \/ Assign \/ Requeue \/ RequeueTimeout \/ RequeuePanics
Work(w)  == Receive(w) \/ SetActive(w) \/ Execute(w) \/ WorkerExit(w)
Submit(t) == SubmitSend(t) \/ SubmitPanics(t) \/ SubmitTimeout(t)

WorkerNext ==
  /\ ~ poolPanic
  /\ \/ \E t \in Tasks : SubmitBegin(t) \/ Submit(t) \/ NewTask(t)
     \/ Dispatch
     \/ \E w \in Workers : Work(w)
     \/ StopBegin \/ StopReturn
     \/ CountActive \/ CountQueued

WorkerSpec == WorkerInit /\ [][WorkerNext]_workerPoolVars

-----------------------------------------------------------------------------
(* Properties.                                                             *)

\* A task that Submit has accepted is in one place: executed once, dropped, in
\* the queue, in the dispatcher's hand, or with one worker; a task that Submit
\* has refused is in none.
Places(t) ==
  executed[t] + Cardinality({t} \cap dropped) + Cardinality({t} \cap {inHand})
    + Cardinality({i \in DOMAIN taskQueue : taskQueue[i] = t})
    + Cardinality({w \in Workers : taskChan[w] = t})
    + Cardinality({w \in Workers : task[w] = t})
InOnePlace == \A t \in Tasks : Places(t) = IF t \in Accepted THEN 1 ELSE 0

PoolInv == WorkerTypeOK /\ InOnePlace

AllEnded == \A t \in Accepted : Ended(t)

\* However many tasks are submitted, a worker takes what the dispatcher has put into
\* its one place of waiting, unless the pool is stopped.
HandedIsTaken == \A w \in Workers : []<>(taskChan[w] = NoTask \/ poolStop # "no" \/ poolPanic)

\* Once nothing more is submitted the pool runs dry, unless it is stopped: what was
\* accepted ends, executed or dropped, however often the dispatcher sends it round.
RunsDry == <>[](\A t \in Tasks : submit[t] # "send") => []<>(AllEnded \/ poolStop # "no" \/ poolPanic)

\* Stop returns, tasks in the workers' channels or not.
PoolStopReturns == []<>(poolStop # "wait" \/ poolPanic)

\* Nobody in the pool waits for ever.
PoolProgress == HandedIsTaken /\ RunsDry /\ PoolStopReturns

-----------------------------------------------------------------------------
(* What the documentation says and the code does not do.                   *)

\* worker.go:313, "WaitForCompletion waits for all queued tasks to complete".
WaitMeansDone ==
  waitFor = "returned" => awaited = {}

\* worker.go:213, "put back in queue": a task put back is overtaken by those that are
\* submitted on and on, each time a worker is free.
AcceptedEnds == \A t \in Tasks :
  []<>(submit[t] = "accepted" => Ended(t) \/ poolStop # "no" \/ poolPanic)
=============================================================================
