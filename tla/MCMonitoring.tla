---------------------------- MODULE MCMonitoring ----------------------------
(* Bounded instances for TLC of what watches the node: health checks and      *)
(* status queries, metrics and alerts.  The two sides share nothing, so that   *)
(* each behaviour explores one of them, at one of its sizes.                   *)
EXTENDS NodeMonitoring, AlertManager, TLC

CONSTANTS q1, Watches

\* A healthy node, and one without peers.
Answer(p)  == [endpoint |-> "answers", peers |-> p, sync |-> "no"]
TwoAnswers == {Answer(1), Answer(0)}

\* Rules that are there by default.
DefaultRule(n, m, a) == [name |-> n, metric |-> m, above |-> a, channels |-> {"slack"}]
DefaultRules ==
  ("cpu" :> DefaultRule("high_cpu_usage", "cpu_usage", TRUE))
    @@ ("sync" :> DefaultRule("node_not_syncing", "node_syncing", FALSE))
SomeRules == [r \in RuleIds |-> DefaultRules[r]]

VARIABLE watch
vars == <<monitoringVars, pipelineVars, watch>>

\* The health of a node that starts twice, with one writer of stateMutex at a time,
\* or the status of one that starts once and is queried; two collecting loops, or one whose snapshots are evaluated, by
\* one loop or (with less going on around them) by two.  "pipeline" is the alert
\* manager over two loops of the collector.
Checking   == watch \in {"health", "status"}
Collecting == watch \in {"metrics", "alerts", "loops", "pipeline"}

\* What is explored has the choice of its initial state.
Init ==
  /\ watch \in Watches /\ MonitoringInit /\ AlertInit
  /\ Collecting => NodeHealthy(answer)

MonitoringStep ==
  /\ MonitoringNext
  /\ watch = "health" => UNCHANGED query /\ Cardinality(waiting') <= 1
  /\ watch = "status" => runs' <= 1
  /\ UNCHANGED <<pipelineVars, watch>>

PipelineStep ==
  /\ AlertNext
  /\ watch = "metrics" => UNCHANGED alertVars
  /\ watch \in {"metrics", "loops"} => UNCHANGED failing
  /\ watch \in {"alerts", "loops"} => collectorCtx' <= 1
  /\ watch = "alerts" => alertCtx' <= 1
  /\ watch = "loops" =>
       /\ UNCHANGED <<collectorEnded, heardOf>>
       /\ measured'["network_rx"] = 0 /\ Len(rules') >= Len(rules)
       /\ Cardinality(notifications') <= 1
  /\ UNCHANGED <<monitoringVars, watch>>

Next == \/ Checking /\ MonitoringStep
        \/ Collecting /\ PipelineStep

\* The fairness of each module, for the one that is explored.
HealthFairness ==
  /\ WF_monitoringVars(Checking /\ Manager) /\ WF_monitoringVars(Checking /\ MonitorHealth)
  /\ \A r \in Runs    : WF_monitoringVars(Checking /\ Loop(r))
  /\ \A q \in Queries : WF_monitoringVars(Checking /\ Query(q))

PipelineFairness ==
  /\ \A l \in Collections : WF_pipelineVars(Collecting /\ Collection(l) /\ UNCHANGED alertVars)
  /\ \A l \in Evaluations : /\ WF_pipelineVars(Collecting /\ Evaluation(l))
                            /\ SF_pipelineVars(Collecting /\ EvaluationDone(l))
  /\ WF_pipelineVars(Collecting /\ \E s \in notifications : ChannelSend(s))

\* The end of a context, or the closing of a channel, is noticed by the loop
\* that selects on it.  One of the two is explored, so that strong fairness of
\* either loop is that of its own.
DoneFairness ==
  \A l \in Collections :
    SF_vars(\/ Collecting /\ CollectorDone(l) /\ UNCHANGED <<alertVars, monitoringVars, watch>>
            \/ Checking /\ l \in Runs /\ LoopEnds(l) /\ UNCHANGED <<pipelineVars, watch>>)

FairSpec == Init /\ [][Next]_vars /\ HealthFairness /\ PipelineFairness /\ DoneFairness
=============================================================================
