--------------------------- MODULE HeightMonitor ---------------------------
(***************************************************************************)
(* The block height monitor, internal/height/monitor.go: one goroutine     *)
(* polls the node and sends every change of the height to the subscribers' *)
(* buffered channels.                                                      *)
(*                                                                         *)
(* A message is the number of the change it announces: changes[i] is the   *)
(* height it carries.  The mutexes mu and subMu are held for one action    *)
(* each, except subMu.RLock, which notifySubscribers holds over its whole  *)
(* loop: Subscribe waits for it, receivers do not.                         *)
(***************************************************************************)
EXTENDS Naturals, Sequences

CONSTANTS
  Subscribers,  \* consumers that may call Subscribe, once each
  HeightStoppers,     \* goroutines that may call Stop
  Heights,      \* heights the provider may answer
  BufferSize,   \* DefaultSubscriberBufferSize
  MaxChanges    \* bound: changes of the height

ASSUME HeightAssumption ==
  /\ Heights \subseteq Nat
  /\ BufferSize \in Nat \ {0}
  /\ MaxChanges \in Nat

VARIABLES
  started, cancelled,  \* hm.started, hm.ctx
  changes,             \* the heights observed; hm.currentHeight is the last
  loop,                \* where monitorLoop is
  next,                \* the subscribers still to be notified of the last change
  queue,               \* the buffered channel of each subscriber
  since,               \* ghost: changes seen when it subscribed, -1 before
  received, dropped,   \* ghost: what became of the changes sent to it
  heightStop           \* where each call of Stop is: "unused" is one that
                       \* returned before the monitor was ever started

chanVars   == <<queue, since, received, dropped>>
heightVars == <<started, cancelled, changes, loop, next, chanVars, heightStop>>

Never          == MaxChanges + 1      \* since, before Subscribe
Subscribed(s)  == since[s] # Never
CurrentHeight  == IF changes = <<>> THEN 0 ELSE changes[Len(changes)]
InQueue(s)     == {queue[s][k] : k \in DOMAIN queue[s]}

HeightTypeOK ==
  /\ started \in BOOLEAN /\ cancelled \in BOOLEAN
  /\ changes \in Seq(Heights) /\ Len(changes) <= MaxChanges
  /\ loop \in {"none", "select", "poll", "lock", "notify", "exited"}
  /\ next \subseteq Subscribers
  /\ queue \in [Subscribers -> Seq(1..MaxChanges)]
  /\ \A s \in Subscribers : Len(queue[s]) <= BufferSize
  /\ since \in [Subscribers -> 0..Never]
  /\ received \in [Subscribers -> SUBSET (1..MaxChanges)]
  /\ dropped \in [Subscribers -> SUBSET (1..MaxChanges)]
  /\ heightStop \in [HeightStoppers -> {"idle", "waiting", "returned", "unused"}]

HeightInit ==
  /\ started = FALSE /\ cancelled = FALSE
  /\ changes = <<>> /\ loop = "none" /\ next = {}
  /\ queue = [s \in Subscribers |-> <<>>]
  /\ since = [s \in Subscribers |-> Never]
  /\ received = [s \in Subscribers |-> {}]
  /\ dropped = [s \in Subscribers |-> {}]
  /\ heightStop = [c \in HeightStoppers |-> "idle"]

-----------------------------------------------------------------------------
(* The public methods.                                                     *)

\* Refused, without effect, once started is set; Stop does not clear it.
Start ==
  /\ ~ started
  /\ started' = TRUE
  /\ loop' = "select"
  /\ UNCHANGED <<cancelled, changes, next, chanVars, heightStop>>

Subscribe(s) ==
  /\ ~ Subscribed(s)
  /\ loop # "notify"                    \* subMu
  /\ since' = [since EXCEPT ![s] = Len(changes)]
  /\ UNCHANGED <<started, cancelled, changes, loop, next, queue, received,
                 dropped, heightStop>>

StopCancel(c) ==
  /\ heightStop[c] = "idle"
  /\ cancelled' = TRUE
  /\ heightStop' = [heightStop EXCEPT ![c] = "waiting"]
  /\ UNCHANGED <<started, changes, loop, next, chanVars>>

\* Mutant: Stop lets the monitor be started again.
HeightStopReturn_Restartable(c) ==
  /\ heightStop[c] = "waiting"
  /\ loop \in {"none", "exited"}
  /\ started' = FALSE
  /\ heightStop' = [heightStop EXCEPT ![c] = IF loop = "none" THEN "unused" ELSE "returned"]
  /\ UNCHANGED <<cancelled, changes, loop, next, chanVars>>

\* hm.wg.Wait()
HeightStopReturn(c) ==
  /\ heightStop[c] = "waiting"
  /\ loop \in {"none", "exited"}
  /\ heightStop' = [heightStop EXCEPT ![c] = IF loop = "none" THEN "unused" ELSE "returned"]
  /\ UNCHANGED <<started, cancelled, changes, loop, next, chanVars>>

-----------------------------------------------------------------------------
(* monitorLoop.                                                            *)

Loop(from, to) == loop = from /\ loop' = to
LoopOnly == UNCHANGED <<started, cancelled, changes, next, chanVars, heightStop>>

LoopExit == cancelled /\ Loop("select", "exited") /\ LoopOnly

\* select picks at random when a tick is pending as well as the cancellation.
PollTick      == Loop("select", "poll") /\ LoopOnly

PollError == Loop("poll", "select") /\ LoopOnly

\* The provider's answer is compared with, and stored in, currentHeight.
PollReturns(h) ==
  \/ /\ h = CurrentHeight
     /\ Loop("poll", "select")
     /\ LoopOnly
  \/ /\ h # CurrentHeight
     /\ Len(changes) < MaxChanges
     /\ changes' = Append(changes, h)
     /\ Loop("poll", "lock")
     /\ UNCHANGED <<started, cancelled, next, chanVars, heightStop>>

NotifyBegin ==
  /\ Loop("lock", "notify")
  /\ next' = {s \in Subscribers : Subscribed(s)}
  /\ UNCHANGED <<started, cancelled, changes, chanVars, heightStop>>

\* Mutant: a full channel makes room by dropping its newest update.
Notify_ReplacesNewest(s) ==
  /\ loop = "notify" /\ s \in next
  /\ next' = next \ {s}
  /\ IF Len(queue[s]) < BufferSize
       THEN queue' = [queue EXCEPT ![s] = Append(@, Len(changes))]
       ELSE queue' = [queue EXCEPT ![s][BufferSize] = Len(changes)]
  /\ UNCHANGED <<started, cancelled, changes, loop, since, received, dropped, heightStop>>

\* Mutant: the update goes in front of the ones not yet read.
Notify_Front(s) ==
  /\ loop = "notify" /\ s \in next
  /\ next' = next \ {s}
  /\ IF Len(queue[s]) < BufferSize
       THEN queue' = [queue EXCEPT ![s] = <<Len(changes)>> \o @] /\ UNCHANGED dropped
       ELSE dropped' = [dropped EXCEPT ![s] = @ \cup {Len(changes)}] /\ UNCHANGED queue
  /\ UNCHANGED <<started, cancelled, changes, loop, since, received, heightStop>>

\* One iteration of notifySubscribers: a non-blocking send.
Notify(s) ==
  /\ loop = "notify" /\ s \in next
  /\ next' = next \ {s}
  /\ IF Len(queue[s]) < BufferSize
       THEN queue' = [queue EXCEPT ![s] = Append(@, Len(changes))] /\ UNCHANGED dropped
       ELSE dropped' = [dropped EXCEPT ![s] = @ \cup {Len(changes)}] /\ UNCHANGED queue
  /\ UNCHANGED <<started, cancelled, changes, loop, since, received, heightStop>>

NotifyEnd == next = {} /\ Loop("notify", "select") /\ LoopOnly

(* The subscriber reads its channel.                                       *)
Receive(s) ==
  /\ queue[s] # <<>>
  /\ received' = [received EXCEPT ![s] = @ \cup {Head(queue[s])}]
  /\ queue' = [queue EXCEPT ![s] = Tail(@)]
  /\ UNCHANGED <<started, cancelled, changes, loop, next, since, dropped, heightStop>>

-----------------------------------------------------------------------------

MonitorLoop == LoopExit \/ PollTick \/ PollError \/ (\E h \in Heights : PollReturns(h))
               \/ NotifyBegin \/ (\E s \in Subscribers : Notify(s)) \/ NotifyEnd

HeightNext ==
  \/ Start
  \/ \E s \in Subscribers : Subscribe(s) \/ Receive(s)
  \/ \E c \in HeightStoppers : StopCancel(c) \/ HeightStopReturn(c)
  \/ MonitorLoop

HeightSpec == HeightInit /\ [][HeightNext]_heightVars

\* The goroutine runs and the provider answers or fails; select is random, so
\* a cancellation that stays pending is taken however often ticks are as well.
HeightFairness ==
  /\ WF_heightVars(MonitorLoop) /\ SF_heightVars(LoopExit)
  /\ \A c \in HeightStoppers : WF_heightVars(HeightStopReturn(c))

HeightFairSpec == HeightSpec /\ HeightFairness

-----------------------------------------------------------------------------
(* Properties.                                                             *)

\* A subscriber receives heights in the order in which they were observed,
\* each at most once, whatever was dropped in between and however its reads
\* interleave with the sends.
InOrder == \A s \in Subscribers :
  /\ \A j, k \in DOMAIN queue[s] : j < k => queue[s][j] < queue[s][k]
  /\ \A i \in received[s], j \in InQueue(s) : i < j

\* No change goes missing without a warning: what was observed after Subscribe
\* is received, buffered, on its way or reported as dropped, and nothing
\* observed before Subscribe is ever sent, except the change being announced.
Accounted == \A s \in Subscribers :
  LET known == received[s] \cup InQueue(s) \cup dropped[s]
      onWay == IF loop = "lock" \/ s \in next THEN {Len(changes)} ELSE {}
  IN  /\ Subscribed(s) => (since[s] + 1)..Len(changes) \subseteq known \cup onWay
      /\ ~ Subscribed(s) => known = {}
      /\ \A i \in known : i >= since[s]

\* What a subscriber gets is in order and complete but for what it is told of.
HeightInv == HeightTypeOK /\ InOrder /\ Accounted

\* What every subscriber sees is a HeightFeed: the abstract channel that the
\* upgrade orchestrator is specified against.
LastReceived(s) ==
  CHOOSE n \in received[s] \cup {0} : \A m \in received[s] : m <= n
Feed(s) == INSTANCE HeightFeed WITH channel <- queue[s], got <- LastReceived(s)
IsHeightFeed ==
  /\ \A s \in Subscribers : Feed(s)!FeedInit
  /\ [][\A s \in Subscribers :
         Feed(s)!FeedNext \/ UNCHANGED <<changes, queue[s], LastReceived(s)>>]_heightVars

\* When Stop of a started monitor has returned, subscribers get nothing more,
\* even if Start is called again.
QuietAfterStop ==
  [][(\E c \in HeightStoppers : heightStop[c] = "returned")
       => /\ UNCHANGED <<changes, dropped>>
          /\ \A s \in Subscribers : Len(queue'[s]) <= Len(queue[s])]_heightVars

\* "It will block until the monitoring goroutine has fully stopped": it does,
\* in the middle of a poll or of a notification too, for every caller.
StopEnds == \A c \in HeightStoppers : []<>(heightStop[c] # "waiting")

\* Stop returns and is final.
HeightStopIsFinal == StopEnds /\ QuietAfterStop

\* monitor.go:127, "If the channel buffer fills up, the oldest update is
\* dropped": after each round the newest update is with every subscriber.
NewestKept == \A s \in Subscribers :
  loop = "select" /\ Subscribed(s) /\ since[s] < Len(changes)
    => Len(changes) \in received[s] \cup InQueue(s)
=============================================================================
