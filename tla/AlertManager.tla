---------------------------- MODULE AlertManager ----------------------------
(***************************************************************************)
(* The alert manager, internal/alerting/manager.go and channels.go, on top *)
(* of the collector whose snapshots it evaluates.  A goroutine per Start   *)
(* evaluates the rules, with a lock for each use of the map of alerts but  *)
(* one and none for what follows it; every notification is sent by a       *)
(* goroutine of its own.  (Of two goroutines, one may look at the map      *)
(* while the other writes; where Go notices that, the program ends.)       *)
(* Cleaning up removes resolved alerts, and a resolved alert is deleted    *)
(* when it is resolved: cleanupAlerts changes nothing.                     *)
(***************************************************************************)
EXTENDS MetricsCollector, SequencesExt

CONSTANTS
  RuleIds,         \* the rules that may be added
  Rule,            \* what each of them says: [name, metric, above, channels]
  Channels,        \* the channels that initChannels has made
  MaxAlertStarts   \* bound: calls of Start

ASSUME AlertAssumption ==
  /\ Rule \in [RuleIds -> [name : STRING, metric : STRING, above : BOOLEAN, channels : SUBSET Channels]]
  /\ MaxAlertStarts \in Nat

Evaluations == 1..MaxAlertStarts
RuleNames   == {Rule[r].name : r \in RuleIds}

VARIABLES
  rules,          \* am.rules
  alerts,         \* the keys of am.alerts
  alertCtx, alertEnded,
  evaluating,     \* per loop: its step, the rules left, the snapshot, the context it waits on
  notifications,  \* the goroutines that are to send one
  emitted,        \* ghost: notifications made so far
  open,           \* ghost: per name, the firings announced minus the ends announced
  heardOf          \* ghost: per channel and name, the last one that arrived

alertVars == <<rules, alerts, alertCtx, alertEnded, evaluating, notifications, emitted,
               open, heardOf>>
pipelineVars == <<measuredVars, collectorVars, alertVars>>

NoEvaluation == [at |-> "none", left |-> <<>>, on |-> NoSnapshot, ctx |-> 0]

AlertInit ==
  /\ CollectorInit
  /\ rules = <<>> /\ alerts = {} /\ alertCtx = 0 /\ alertEnded = {}
  /\ evaluating = [l \in Evaluations |-> NoEvaluation]
  /\ notifications = {} /\ emitted = 0
  /\ open = [n \in RuleNames |-> 0]
  /\ heardOf = [c \in Channels |-> [n \in RuleNames |-> "none"]]

-----------------------------------------------------------------------------

AddRule(r) ==
  /\ r \notin ToSet(rules) /\ rules' = Append(rules, r)
  /\ UNCHANGED <<measuredVars, collectorVars, alerts, alertCtx, alertEnded, evaluating, notifications,
                 emitted, open, heardOf>>

\* The first rule of the name is removed; its alert is left.
RemoveRule(n) ==
  /\ \E i \in DOMAIN rules :
       /\ Rule[rules[i]].name = n /\ \A j \in 1..(i - 1) : Rule[rules[j]].name # n
       /\ rules' = RemoveAt(rules, i)
  /\ UNCHANGED <<measuredVars, collectorVars, alerts, alertCtx, alertEnded, evaluating, notifications,
                 emitted, open, heardOf>>

AlertStart ==
  /\ alertCtx < MaxAlertStarts /\ alertCtx' = alertCtx + 1
  /\ evaluating' = [evaluating EXCEPT ![alertCtx + 1].at = "wait", ![alertCtx + 1].ctx = alertCtx + 1]
  /\ UNCHANGED <<measuredVars, collectorVars, rules, alerts, alertEnded, notifications, emitted,
                 open, heardOf>>

AlertStop ==
  /\ alertCtx > 0 /\ alertEnded' = alertEnded \cup {alertCtx}
  /\ UNCHANGED <<measuredVars, collectorVars, rules, alerts, alertCtx, evaluating, notifications,
                 emitted, open, heardOf>>

\* The loop waits again, on what am.ctx is then.
Waiting == [at |-> "wait", left |-> <<>>, on |-> NoSnapshot, ctx |-> alertCtx]

\* A tick: the rules are copied and the snapshot taken; without one, nothing.
EvaluateRules(l) ==
  /\ evaluating[l].at = "wait"
  /\ evaluating' = [evaluating EXCEPT ![l] =
       IF lastSnapshot = NoSnapshot THEN Waiting
       ELSE [at |-> "rules", left |-> rules, on |-> lastSnapshot, ctx |-> 0]]
  /\ UNCHANGED <<measuredVars, collectorVars, rules, alerts, alertCtx, alertEnded, notifications,
                 emitted, open, heardOf>>

EvaluationDone(l) ==
  /\ evaluating[l].at = "wait" /\ evaluating[l].ctx \in alertEnded
  /\ evaluating' = [evaluating EXCEPT ![l] = NoEvaluation]
  /\ UNCHANGED <<measuredVars, collectorVars, rules, alerts, alertCtx, alertEnded, notifications,
                 emitted, open, heardOf>>

\* getMetricValue knows no node_syncing: the value of what it does not know is 0.
GetMetricValue(m, snapshot) ==
  IF m \in {"cpu_usage", "node_height"} THEN snapshot[m] ELSE 0

\* checkCondition: "> 0" or "== 0".
CheckCondition(r, v) == IF Rule[r].above THEN v > 0 ELSE v = 0

\* Goroutines for the rule's channels that exist, each with the notification.
SendNotifications(r, kind, more) ==
  /\ emitted' = emitted + 1
  /\ open' = [open EXCEPT ![Rule[r].name] = @ + more]
  /\ notifications' = notifications \cup
       {[channel |-> c, name |-> Rule[r].name, kind |-> kind, n |-> emitted] :
          c \in Rule[r].channels \cap Channels}

Rest(e) == [e EXCEPT !.at = "rules", !.left = Tail(@)]

\* Mutant: the alert stays when it is resolved.
Resolve_Stays(l, r) ==
  /\ Rule[r].name \in alerts /\ UNCHANGED alerts
  /\ evaluating' = [evaluating EXCEPT ![l].at = "resolving"]

\* Under the lock: the alert of the rule's name is there, and deleted.
Resolve(l, r) ==
  /\ Rule[r].name \in alerts /\ alerts' = alerts \ {Rule[r].name}
  /\ evaluating' = [evaluating EXCEPT ![l].at = "resolving"]

\* evaluateRule, as far as the lookup in am.alerts, which is made without the
\* lock when the condition holds, and with it when it does not.
EvaluateRule(l) ==
  /\ evaluating[l].at = "rules" /\ evaluating[l].left # <<>>
  /\ LET r == Head(evaluating[l].left)
         holds == CheckCondition(r, GetMetricValue(Rule[r].metric, evaluating[l].on))
     IN  \/ /\ holds /\ Rule[r].name \notin alerts
            /\ evaluating' = [evaluating EXCEPT ![l].at = "fire"]
            /\ UNCHANGED alerts
         \/ ~ holds /\ Resolve(l, r)
         \/ /\ holds <=> Rule[r].name \in alerts
            /\ evaluating' = [evaluating EXCEPT ![l] = Rest(@)]
            /\ UNCHANGED alerts
  /\ UNCHANGED <<measuredVars, collectorVars, rules, alertCtx, alertEnded, notifications, emitted,
                 open, heardOf>>

\* Under the lock again: the new alert is stored, over one that is there by now.
Fire(l) ==
  /\ evaluating[l].at = "fire"
  /\ alerts' = alerts \cup {Rule[Head(evaluating[l].left)].name}
  /\ evaluating' = [evaluating EXCEPT ![l].at = "firing"]
  /\ UNCHANGED <<measuredVars, collectorVars, rules, alertCtx, alertEnded, notifications, emitted,
                 open, heardOf>>

\* What was done is announced, after the lock is given back.
Announce(l) ==
  /\ LET r == Head(evaluating[l].left)
     IN  \/ evaluating[l].at = "firing" /\ SendNotifications(r, "fired", 1)
         \/ evaluating[l].at = "resolving" /\ SendNotifications(r, "resolved", -1)
  /\ evaluating' = [evaluating EXCEPT ![l] = Rest(@)]
  /\ UNCHANGED <<measuredVars, collectorVars, rules, alerts, alertCtx, alertEnded, heardOf>>

RoundOver(l) ==
  /\ evaluating[l].at = "rules" /\ evaluating[l].left = <<>>
  /\ evaluating' = [evaluating EXCEPT ![l] = Waiting]
  /\ UNCHANGED <<measuredVars, collectorVars, rules, alerts, alertCtx, alertEnded, notifications,
                 emitted, open, heardOf>>

\* Send of a channel: the notification arrives, or an error is logged and it
\* is gone.  Nothing orders the goroutines.
ChannelSend(s) ==
  /\ notifications' = notifications \ {s}
  /\ \/ heardOf' = [heardOf EXCEPT ![s.channel][s.name] = s.kind]
     \/ UNCHANGED heardOf
  /\ UNCHANGED <<measuredVars, collectorVars, rules, alerts, alertCtx, alertEnded, evaluating, emitted,
                 open>>

Evaluation(l) == EvaluateRules(l) \/ EvaluateRule(l) \/ Fire(l) \/ Announce(l) \/ RoundOver(l)

AlertNext ==
  \/ CollectorNext /\ UNCHANGED alertVars
  \/ AlertStart \/ AlertStop
  \/ \E r \in RuleIds : AddRule(r)
  \/ \E n \in RuleNames : RemoveRule(n)
  \/ \E l \in Evaluations : Evaluation(l) \/ EvaluationDone(l)
  \/ \E s \in notifications : ChannelSend(s)

AlertSpec == AlertInit /\ [][AlertNext]_pipelineVars

\* The tickers tick, a goroutine that can go on does, and a select that is offered
\* the end of its context again and again takes it.
AlertFairness ==
  /\ \A l \in Collections : /\ WF_pipelineVars(Collection(l) /\ UNCHANGED alertVars)
                            /\ SF_pipelineVars(CollectorDone(l) /\ UNCHANGED alertVars)
  /\ \A l \in Evaluations : WF_pipelineVars(Evaluation(l)) /\ SF_pipelineVars(EvaluationDone(l))
  /\ WF_pipelineVars(\E s \in notifications : ChannelSend(s))

AlertFairSpec == AlertSpec /\ AlertFairness

-----------------------------------------------------------------------------
(* Properties.                                                             *)

AlertTypeOK ==
  /\ CollectorTypeOK
  /\ ToSet(rules) \subseteq RuleIds /\ alerts \subseteq RuleNames
  /\ alertCtx \in 0..MaxAlertStarts /\ alertEnded \subseteq Evaluations
  /\ open \in [RuleNames -> Int]
  /\ \A l \in Evaluations :
       evaluating[l].at \in {"none", "wait", "rules", "fire", "firing", "resolving"}

\* The loops that have stored, or deleted, an alert of the name and are yet to
\* announce it.
Announcing(at, n) ==
  {l \in Evaluations : evaluating[l].at = at /\ Rule[Head(evaluating[l].left)].name = n}

Active(n)  == IF n \in alerts THEN 1 ELSE 0
Balance(n) == open[n] + Cardinality(Announcing("firing", n))
                      - Cardinality(Announcing("resolving", n))

\* However many loops evaluate, rules come and go, and announcements lag behind
\* the map: no firing is followed by two ends, and one whose end is not announced
\* is left for each alert that is active; a single loop leaves no other.
EndsOnce == \A n \in RuleNames :
  Balance(n) >= Active(n) /\ (alertCtx <= 1 => Balance(n) = Active(n))

AlertInv == AlertTypeOK /\ EndsOnce

\* Through both loops: a condition that lasts is alerted, and the alert of one
\* that is over is resolved, as long as collector and manager run and the rule
\* is there; and Stop ends every collecting loop.
AlertsFollowMetrics ==
  /\ \A r \in RuleIds, b \in BOOLEAN :
       <>[](/\ collectorCtx > 0 /\ collectorCtx \notin collectorEnded
            /\ alertCtx > 0 /\ alertCtx \notin alertEnded /\ r \in ToSet(rules)
            /\ Rule[r].metric \notin failing /\ Rule[r].metric \in {"cpu_usage", "node_height"}
            /\ CheckCondition(r, measured[Rule[r].metric]) = b)
         => <>[]((Rule[r].name \in alerts) = b)
  /\ StopEndsCollection

\* Does not hold: "The node has stopped syncing with the network" is alerted of
\* a node that syncs, and never resolved.
NotSyncingIsTrue ==
  \A r \in RuleIds :
    <>[](/\ Rule[r].metric = "node_syncing" /\ measured["node_syncing"] = 1 /\ Rule[r].metric \notin failing
         /\ collectorCtx > 0 /\ collectorCtx \notin collectorEnded
         /\ alertCtx > 0 /\ alertCtx \notin alertEnded /\ r \in ToSet(rules))
      => <>[](Rule[r].name \notin alerts)

\* Does not hold: the alert of a rule that was removed stays active.
ActiveHasRule == <>[](\A r \in RuleIds : r \notin ToSet(rules)) => <>[](alerts = {})

\* Does not hold: a channel is left with an alert that is over, for the news of
\* its end failed, or came first.
ToldTheEnd ==
  \A c \in Channels, n \in RuleNames : heardOf[c][n] = "fired" /\ n \notin alerts
     => \E s \in notifications : s.channel = c /\ s.name = n

\* Does not hold of two loops: both look the alert up before either stores it.
FiredOnce == \A n \in RuleNames : open[n] <= 1

\* Does not hold of two loops: one deletes the alert that the other has stored,
\* and announces its end, before the other announces the alert.
EndAfterFiring == \A n \in RuleNames : open[n] >= 0
=============================================================================
