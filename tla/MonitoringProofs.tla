-------------------------- MODULE MonitoringProofs --------------------------
(***************************************************************************)
(* Theorems about the monitoring side: the node's monitor with its health  *)
(* checks (NodeMonitoring) and the alerts (AlertManager), each for any of  *)
(* its constants.                                                          *)
(***************************************************************************)
EXTENDS NodeMonitoring, AlertManager, FiniteSetTheorems, TLAPS

-----------------------------------------------------------------------------


MonitoringIInv ==
  /\ MonitoringTypeOK /\ NoHealthPanic
  /\ manager \in {"start", "startMonitoring"} => runs < MaxRuns
  /\ cancelled => stopped
  /\ ~ statusClosed

LEMMA MonitoringInitial == MonitoringInit => MonitoringIInv
<1> SUFFICES ASSUME MonitoringInit PROVE MonitoringIInv
  OBVIOUS
<1> USE DEF MonitoringInit
<1>1. NoLoop \in [at : 0..Wait, ok : BOOLEAN]
  <2>1. 0 \in 0..Wait  BY DEF Wait
  <2>2. QED  BY <2>1 DEF NoLoop
<1>2. checkLoop \in [Runs -> [at : 0..Wait, ok : BOOLEAN]]
  BY <1>1
<1>3. runs \in 0..MaxRuns
  BY MonitoringAssumption
<1>4. {lastStatus, statusCh, heard} \subseteq Verdicts \cup {NoStatus}
  OBVIOUS
<1>5. MonitoringTypeOK
  BY <1>2, <1>3, <1>4 DEF MonitoringTypeOK
<1>6. QED  BY <1>5 DEF MonitoringIInv, NoHealthPanic

LEMMA ManagerSteps ==
  ASSUME MonitoringIInv,
         \/ NodeAnswers \/ NodeExits \/ CallStart \/ CallStop \/ CallRestart \/ Manager
  PROVE  MonitoringIInv'
<1> USE MonitoringAssumption
    DEF MonitoringIInv, MonitoringTypeOK, NoHealthPanic, Verdicts, NoStatus, Runs,
        lockVars, healthVars, Ask, Locked
<1>1. CASE NodeAnswers      BY <1>1 DEF NodeAnswers
<1>2. CASE NodeExits        BY <1>2 DEF NodeExits
<1>3. CASE CallStart        BY <1>3 DEF CallStart, NodeCall
<1>4. CASE CallStop         BY <1>4 DEF CallStop, NodeCall
<1>5. CASE CallRestart      BY <1>5 DEF CallRestart, NodeCall
<1>6. CASE StartSection     BY <1>6 DEF StartSection
<1>7. CASE StartMonitoring
  <2>1. runs + 1 \in Runs /\ 1 \in 0..Wait
    BY <1>7 DEF StartMonitoring, Wait
  <2>2. QED  BY <1>7, <2>1 DEF StartMonitoring
<1>8. CASE StopSection      BY <1>8 DEF StopSection
<1>9. CASE HealthStop       BY <1>9 DEF HealthStop
<1>10. CASE CleanupSection  BY <1>10 DEF CleanupSection
<1>11. CASE MonitorSection  BY <1>11 DEF MonitorSection
<1>12. QED
  BY <1>1, <1>2, <1>3, <1>4, <1>5, <1>6, <1>7, <1>8, <1>9, <1>10, <1>11 DEF Manager

LEMMA QuerySteps ==
  ASSUME MonitoringIInv, NEW q \in Queries, GetStatus(q) \/ Query(q)
  PROVE  MonitoringIInv'
<1>1. query' \in [Queries -> {"idle", "outer", "inner"}]
      /\ UNCHANGED <<answer, nodeState, runs, manager, waiting, healthVars>>
  BY DEF MonitoringIInv, MonitoringTypeOK, RLock, GetStatus, Query, GetVersion, StatusReturns
<1>2. QED  BY <1>1 DEF MonitoringIInv, MonitoringTypeOK, NoHealthPanic, healthVars

LEMMA LoopSteps ==
  ASSUME MonitoringIInv, NEW r \in Runs, Loop(r) \/ LoopEnds(r) \/ MonitorHealth
  PROVE  MonitoringIInv'
<1> USE DEF MonitoringIInv, MonitoringTypeOK, NoHealthPanic, Verdicts, Verdict, NoStatus,
            lockVars, Wait
<1>1. CASE ExecuteCheck(r)
  <2>1. checkLoop[r].at + 1 \in 0..Wait
    BY <1>1 DEF ExecuteCheck, Checks
  <2>2. (checkLoop[r].ok /\ CheckPasses(Checks[checkLoop[r].at], answer)) \in BOOLEAN
    OBVIOUS
  <2>3. checkLoop' \in [Runs -> [at : 0..Wait, ok : BOOLEAN]]
    BY <1>1, <2>1, <2>2 DEF ExecuteCheck
  <2>4. QED  BY <1>1, <2>3 DEF ExecuteCheck
<1>2. CASE UpdateStatus(r)
  BY <1>2 DEF UpdateStatus, Send
<1>3. CASE SendStatusUpdate(r)
  BY <1>3 DEF SendStatusUpdate
<1>4. CASE Tick(r)
  BY <1>4 DEF Tick
<1>5. CASE LoopEnds(r)
  BY <1>5 DEF LoopEnds, NoLoop
<1>6. CASE MonitorHealth
  BY <1>6 DEF MonitorHealth
<1>7. QED  BY <1>1, <1>2, <1>3, <1>4, <1>5, <1>6 DEF Loop

LEMMA MonitoringStep == MonitoringIInv /\ [MonitoringNext]_monitoringVars => MonitoringIInv'
<1> SUFFICES ASSUME MonitoringIInv, [MonitoringNext]_monitoringVars PROVE MonitoringIInv'
  OBVIOUS
<1>1. CASE MonitorHealth
  BY <1>1 DEF MonitorHealth, MonitoringIInv, MonitoringTypeOK, NoHealthPanic, Verdicts, lockVars
<1>2. CASE MonitoringNext /\ ~ MonitorHealth
  BY <1>2, ManagerSteps, QuerySteps, LoopSteps DEF MonitoringNext
<1>3. CASE UNCHANGED monitoringVars
  BY <1>3 DEF monitoringVars, lockVars, healthVars, MonitoringIInv, MonitoringTypeOK, NoHealthPanic
<1>4. QED  BY <1>1, <1>2, <1>3

LEMMA MonitoringInductive == MonitoringSpec => []MonitoringIInv
<1>1. QED  BY MonitoringInitial, MonitoringStep, PTL DEF MonitoringSpec

\* MonitoringInv: however many loops earlier runs of the node have left, none
\* closes the status channel twice or sends on it when closed (health.go).
THEOREM MonitoringInvariant == MonitoringSpec => []MonitoringInv
<1>1. MonitoringIInv => MonitoringInv  BY DEF MonitoringIInv, MonitoringInv
<1>2. QED  BY <1>1, MonitoringInductive, PTL

-----------------------------------------------------------------------------


Snapshots   == [Metrics -> Int]
Collecting  == [at  : {"none", "system", "application", "store", "wait"},
                got : Snapshots, ctx : Nat]
Evaluating  == [at   : {"none", "wait", "rules", "fire", "firing", "resolving"},
                left : Seq(RuleIds), on : Snapshots, ctx : Nat]

CollectorTypes ==
  /\ measured \in [Metrics -> Nat] /\ failing \subseteq Metrics /\ changes \in 0..MaxChanges
  /\ \A m \in Metrics \ {"network_rx"} : measured[m] \in {0, 1}
  /\ collectorCtx \in 0..MaxCollectorStarts /\ collectorEnded \subseteq Collections
  /\ collecting \in [Collections -> Collecting]
  /\ lastSnapshot \in Snapshots

LoopTypes ==
  /\ rules \in Seq(RuleIds) /\ alerts \subseteq RuleNames
  /\ alertCtx \in 0..MaxAlertStarts /\ alertEnded \subseteq Evaluations
  /\ evaluating \in [Evaluations -> Evaluating]
  /\ open \in [RuleNames -> Int]

\* The rule that a loop is at, and its name.
HasRule(l) == evaluating[l].left # <<>>
Named(l)   == Rule[Head(evaluating[l].left)].name

\* A loop that is to store or to announce has a rule left, the loops are those
\* that Start has made, and a single one finds what it has looked up.
LoopOrder ==
  /\ \A l \in Evaluations : evaluating[l].at \in {"fire", "firing", "resolving"} => HasRule(l)
  /\ \A l \in Evaluations : l > alertCtx => evaluating[l].at = "none"
  /\ alertCtx <= 1 =>
       \A l \in Evaluations : evaluating[l].at = "fire" => Named(l) \notin alerts

AlertIInv == CollectorTypes /\ LoopTypes /\ LoopOrder /\ EndsOnce

LEMMA Constants ==
  /\ NoSnapshot \in Snapshots /\ MaxChanges \in Nat
  /\ MaxCollectorStarts \in Nat /\ MaxAlertStarts \in Nat
  /\ \A r \in RuleIds : Rule[r].name \in RuleNames
BY CollectorAssumption, AlertAssumption DEF NoSnapshot, Snapshots, RuleNames

LEMMA PendingType ==
  ASSUME NEW at, NEW n
  PROVE  IsFiniteSet(Announcing(at, n)) /\ Cardinality(Announcing(at, n)) \in Nat
<1>1. IsFiniteSet(Evaluations)
  BY Constants, FS_Interval DEF Evaluations
<1>2. IsFiniteSet(Announcing(at, n))
  BY <1>1, FS_Subset DEF Announcing
<1>3. QED  BY <1>2, FS_CardinalityType

LEMMA AlertInitial == AlertInit => AlertIInv
<1> SUFFICES ASSUME AlertInit PROVE AlertIInv
  OBVIOUS
<1> USE Constants DEF AlertInit, CollectorInit
<1>1. CollectorTypes
  <2>1. measured \in [Metrics -> Nat] /\ \A m \in Metrics : measured[m] = 0
    OBVIOUS
  <2>2. collecting \in [Collections -> Collecting]
    BY DEF NoCollection, Collecting
  <2>3. QED  BY <2>1, <2>2 DEF CollectorTypes
<1>2. evaluating \in [Evaluations -> Evaluating] /\ \A l \in Evaluations : evaluating[l].at = "none"
  <2>1. NoEvaluation \in Evaluating /\ NoEvaluation.at = "none"
    BY DEF NoEvaluation, Evaluating
  <2>2. QED  BY <2>1
<1>3. LoopTypes
  BY <1>2 DEF LoopTypes
<1>4. LoopOrder
  BY <1>2 DEF LoopOrder
<1>5. EndsOnce
  <2>1. ASSUME NEW n \in RuleNames
        PROVE  Announcing("firing", n) = {} /\ Announcing("resolving", n) = {}
    BY <1>2 DEF Announcing
  <2>2. Cardinality({}) = 0
    BY FS_EmptySet
  <2>3. ASSUME NEW n \in RuleNames
        PROVE  Balance(n) = 0 /\ Active(n) = 0
    <3>1. Cardinality(Announcing("firing", n)) = 0 /\ Cardinality(Announcing("resolving", n)) = 0
      BY <2>1, <2>2
    <3>2. open[n] = 0 /\ n \notin alerts
      BY <2>3
    <3>3. QED  BY <3>1, <3>2 DEF Balance, Active
  <2>4. QED  BY <2>3 DEF EndsOnce
<1>6. QED  BY <1>1, <1>3, <1>4, <1>5 DEF AlertIInv

-----------------------------------------------------------------------------
(* The collector, and the manager's public methods.                        *)

LEMMA CollectorStep ==
  ASSUME CollectorTypes, CollectorNext
  PROVE  CollectorTypes'
<1> USE Constants
<1>1. CASE Changes
  <2>1. PICK m \in Looked : \/ measured' = Changed(m) /\ UNCHANGED failing
                            \/ failing' = SymDiff(failing, {m}) /\ UNCHANGED measured
    BY <1>1 DEF Changes
  <2>2. m \in Metrics
    BY DEF Looked
  <2>3. failing' \subseteq Metrics
    BY <2>1, <2>2 DEF CollectorTypes, SymDiff
  <2>4. measured' \in [Metrics -> Nat]
        /\ \A k \in Metrics \ {"network_rx"} : measured'[k] \in {0, 1}
    <3>1. measured \in [Metrics -> Nat] /\ \A k \in Metrics \ {"network_rx"} : measured[k] \in {0, 1}
      BY DEF CollectorTypes
    <3>2. CASE UNCHANGED measured
      BY <3>1, <3>2
    <3>3. CASE measured' = Changed(m) /\ m = "network_rx"
      <4>1. measured' = [measured EXCEPT ![m] = measured[m] + 1]
        BY <3>3 DEF Changed
      <4>2. measured[m] + 1 \in Nat
        BY <2>2, <3>1
      <4>3. QED  BY <2>2, <3>1, <3>3, <4>1, <4>2
    <3>4. CASE measured' = Changed(m) /\ m # "network_rx"
      <4>1. 1 - measured[m] \in {0, 1}
        BY <2>2, <3>1, <3>4
      <4>2. measured' = [measured EXCEPT ![m] = 1 - measured[m]]
        BY <3>4 DEF Changed
      <4>3. QED  BY <2>2, <3>1, <4>1, <4>2
    <3>5. QED  BY <2>1, <3>2, <3>3, <3>4
  <2>5. changes' \in 0..MaxChanges /\ UNCHANGED <<collectorCtx, collectorEnded, collecting, lastSnapshot>>
    BY <1>1 DEF Changes, CollectorTypes, collectorVars
  <2>6. QED  BY <2>3, <2>4, <2>5 DEF CollectorTypes
<1>2. CASE CollectorStart \/ CollectorStop
  <2>1. UNCHANGED <<measured, failing, changes, lastSnapshot>>
    BY <1>2 DEF CollectorStart, CollectorStop, measuredVars
  <2>2. collectorCtx' \in 0..MaxCollectorStarts /\ collectorEnded' \subseteq Collections
    BY <1>2 DEF CollectorStart, CollectorStop, CollectorTypes, Collections
  <2>3. collecting' \in [Collections -> Collecting]
    <3>1. collecting \in [Collections -> Collecting]
      BY DEF CollectorTypes
    <3>2. CASE collecting' = [collecting EXCEPT ![collectorCtx + 1].at = "system"]
      BY ONLY <3>1, <3>2 DEF Collecting
    <3>3. QED  BY <1>2, <3>1, <3>2 DEF CollectorStart, CollectorStop
  <2>4. QED  BY <2>1, <2>2, <2>3 DEF CollectorTypes
<1>3. ASSUME NEW l \in Collections, Collection(l) \/ CollectorDone(l)
      PROVE  CollectorTypes'
  <2>1. /\ collecting \in [Collections -> Collecting] /\ measured \in [Metrics -> Nat]
        /\ lastSnapshot \in Snapshots /\ collectorCtx \in Nat
    BY DEF CollectorTypes
  <2>2. lastSnapshot' \in Snapshots
    BY <1>3, <2>1 DEF Collection, CollectSystem, CollectApplication, StoreSnapshot, CollectorTick,
                      CollectorDone, Collecting
  <2>3. \A m \in Metrics : Probe(m) \in Int
    BY <2>1 DEF Probe
  <2>4. collecting' \in [Collections -> Collecting]
    <3> USE DEF Collecting
    <3>1. CASE CollectSystem(l)
      <4>1. [m \in Metrics |-> IF SectionOf(m) = "system" THEN Probe(m) ELSE 0] \in Snapshots
        BY <2>3 DEF Snapshots
      <4>2. QED  BY <2>1, <3>1, <4>1 DEF CollectSystem
    <3>2. CASE CollectApplication(l)
      <4>1. [m \in Metrics |-> IF SectionOf(m) = "application" THEN Probe(m)
                                ELSE collecting[l].got[m]] \in Snapshots
        BY <2>1, <2>3 DEF Snapshots
      <4>2. QED  BY <2>1, <3>2, <4>1 DEF CollectApplication
    <3>3. CASE StoreSnapshot(l)  BY <2>1, <3>3 DEF StoreSnapshot
    <3>4. CASE CollectorTick(l)  BY <2>1, <3>4 DEF CollectorTick
    <3>5. CASE CollectorDone(l)  BY <2>1, <3>5 DEF CollectorDone, NoCollection
    <3>6. QED  BY <1>3, <3>1, <3>2, <3>3, <3>4, <3>5 DEF Collection
  <2>5. UNCHANGED <<measured, failing, changes, collectorCtx, collectorEnded>>
    BY <1>3 DEF Collection, CollectSystem, CollectApplication, StoreSnapshot, CollectorTick,
                CollectorDone, measuredVars
  <2>6. QED  BY <2>2, <2>4, <2>5 DEF CollectorTypes
<1>4. QED  BY <1>1, <1>2, <1>3 DEF CollectorNext

\* What the evaluating loops have is left as it is.
LEMMA LoopsUnchanged ==
  ASSUME LoopOrder, EndsOnce, UNCHANGED <<alerts, alertCtx, evaluating, open>>
  PROVE  LoopOrder' /\ EndsOnce'
<1>1. LoopOrder'
  BY DEF LoopOrder, HasRule, Named
<1>2. \A n \in RuleNames : Balance(n)' = Balance(n) /\ Active(n)' = Active(n)
  BY DEF Balance, Active, Announcing
<1>3. QED  BY <1>1, <1>2 DEF EndsOnce

LEMMA ManagerStep ==
  ASSUME LoopTypes, LoopOrder, EndsOnce,
         \/ AlertStop \/ (\E r \in RuleIds : AddRule(r))
         \/ (\E n \in RuleNames : RemoveRule(n)) \/ (\E s \in notifications : ChannelSend(s))
  PROVE  LoopTypes' /\ LoopOrder' /\ EndsOnce' /\ UNCHANGED <<measuredVars, collectorVars>>
<1> USE Constants
<1>1. rules' \in Seq(RuleIds)
  <2>1. rules \in Seq(RuleIds)
    BY DEF LoopTypes
  <2>2. ASSUME NEW n \in RuleNames, RemoveRule(n)
        PROVE  rules' \in Seq(RuleIds)
    <3>1. PICK i \in DOMAIN rules : rules' = RemoveAt(rules, i)
      BY <2>2 DEF RemoveRule
    <3>2. i \in 1..Len(rules) /\ Len(rules) \in Nat
      BY <2>1
    <3>3. SubSeq(rules, 1, i - 1) \in Seq(RuleIds) /\ SubSeq(rules, i + 1, Len(rules)) \in Seq(RuleIds)
      BY <2>1, <3>2
    <3>4. QED  BY <3>1, <3>3 DEF RemoveAt
  <2>3. ASSUME NEW r \in RuleIds, AddRule(r)
        PROVE  rules' \in Seq(RuleIds)
    BY <2>1, <2>3 DEF AddRule
  <2>4. QED  BY <2>1, <2>2, <2>3 DEF AlertStop, ChannelSend
<1>2. UNCHANGED <<measuredVars, collectorVars, alerts, alertCtx, evaluating, open>>
  BY DEF AlertStop, AddRule, RemoveRule, ChannelSend
<1>3. alertEnded' \subseteq Evaluations
  <2>1. CASE AlertStop
    BY <2>1 DEF AlertStop, LoopTypes, Evaluations
  <2>2. CASE UNCHANGED alertEnded
    BY <2>2 DEF LoopTypes
  <2>3. QED  BY <2>1, <2>2 DEF AddRule, RemoveRule, ChannelSend
<1>4. LoopOrder' /\ EndsOnce'
  BY <1>2, LoopsUnchanged
<1>5. QED  BY <1>1, <1>2, <1>3, <1>4 DEF LoopTypes

-----------------------------------------------------------------------------
(* A step of one loop, and what it does to what is to be announced.        *)

\* Loop l goes on to e: of those at a step, it becomes one, is one no more, or
\* neither.
LEMMA PendingStep ==
  ASSUME NEW l \in Evaluations, NEW e, NEW at, NEW n, evaluating'[l] = e,
         \A k \in Evaluations \ {l} : evaluating'[k] = evaluating[k]
  PROVE  Cardinality(Announcing(at, n))' = Cardinality(Announcing(at, n))
           + (IF e.at = at /\ Rule[Head(e.left)].name = n THEN 1 ELSE 0)
           - (IF evaluating[l].at = at /\ Named(l) = n THEN 1 ELSE 0)
<1> DEFINE was == evaluating[l].at = at /\ Named(l) = n
           is  == e.at = at /\ Rule[Head(e.left)].name = n
           P   == Announcing(at, n)
<1>1. IsFiniteSet(P) /\ Cardinality(P) \in Nat
  BY PendingType
<1>2. (l \in P) <=> was
  BY DEF Announcing, Named
<1>3. P' = IF is THEN P \cup {l} ELSE P \ {l}
  BY DEF Announcing
<1>4. Cardinality(P \cup {l}) = IF l \in P THEN Cardinality(P) ELSE Cardinality(P) + 1
  BY <1>1, FS_AddElement
<1>5. Cardinality(P \ {l}) = IF l \in P THEN Cardinality(P) - 1 ELSE Cardinality(P)
  BY <1>1, FS_RemoveElement
<1> HIDE DEF was, is, P
<1>6. Cardinality(P)' = Cardinality(P) + (IF is THEN 1 ELSE 0) - (IF was THEN 1 ELSE 0)
  BY <1>1, <1>2, <1>3, <1>4, <1>5
<1>7. QED  BY <1>6 DEF was, is, P

\* A step that neither begins nor ends an announcement.
LEMMA QuietStep ==
  ASSUME LoopTypes, LoopOrder, EndsOnce, NEW l \in Evaluations, NEW e \in Evaluating,
         evaluating' = [evaluating EXCEPT ![l] = e],
         evaluating[l].at \notin {"firing", "resolving"}, e.at \notin {"firing", "resolving"},
         e.at = "fire" => e.left # <<>> /\ Rule[Head(e.left)].name \notin alerts,
         l <= alertCtx' \/ e.at = "none",
         alertCtx' \in {alertCtx, alertCtx + 1}, UNCHANGED <<alerts, open>>
  PROVE  LoopOrder' /\ EndsOnce'
<1>1. evaluating \in [Evaluations -> Evaluating] /\ alertCtx \in Nat /\ Evaluations \subseteq Nat
  BY Constants DEF LoopTypes, Evaluations
<1>2. evaluating'[l] = e /\ \A k \in Evaluations \ {l} : evaluating'[k] = evaluating[k]
  BY <1>1
<1>3. LoopOrder'
  BY <1>1, <1>2 DEF LoopOrder, HasRule, Named
<1>4. ASSUME NEW n \in RuleNames
      PROVE  Balance(n)' = Balance(n) /\ Active(n)' = Active(n)
  <2>1. ASSUME NEW at \in {"firing", "resolving"}
        PROVE  Announcing(at, n)' = Announcing(at, n)
    BY <1>1, <1>2 DEF Announcing
  <2>2. /\ Announcing("firing", n)' = Announcing("firing", n)
        /\ Announcing("resolving", n)' = Announcing("resolving", n)
    BY <2>1
  <2>3. QED  BY <2>2 DEF Balance, Active
<1>5. alertCtx' <= 1 => alertCtx <= 1
  BY <1>1
<1>6. ASSUME NEW n \in RuleNames
      PROVE  Balance(n)' >= Active(n)' /\ (alertCtx' <= 1 => Balance(n)' = Active(n)')
  <2>1. Balance(n) >= Active(n) /\ (alertCtx <= 1 => Balance(n) = Active(n))
    BY DEF EndsOnce
  <2>2. QED  BY <1>4, <1>5, <2>1
<1>7. QED  BY <1>3, <1>6 DEF EndsOnce

LEMMA StartStep ==
  ASSUME LoopTypes, LoopOrder, EndsOnce, AlertStart
  PROVE  LoopTypes' /\ LoopOrder' /\ EndsOnce' /\ UNCHANGED <<measuredVars, collectorVars>>
<1> USE Constants
<1> DEFINE l == alertCtx + 1
           e == [evaluating[l] EXCEPT !.at = "wait", !.ctx = l]
<1>1. l \in Evaluations /\ l \in Nat /\ alertCtx \in Nat /\ evaluating \in [Evaluations -> Evaluating]
  BY DEF AlertStart, LoopTypes, Evaluations
<1>2. evaluating' = [evaluating EXCEPT ![l] = e]
  BY <1>1 DEF AlertStart
<1>3. e \in Evaluating /\ e.at = "wait"
  BY <1>1 DEF Evaluating
<1>4. alertCtx' = l /\ UNCHANGED <<measuredVars, collectorVars, rules, alerts, alertEnded, open>>
  BY DEF AlertStart
<1>5. evaluating[l].at = "none"
  BY <1>1 DEF LoopOrder
<1>6. LoopOrder' /\ EndsOnce'
  <2> HIDE DEF e
  <2>1. l <= alertCtx' /\ alertCtx' \in {alertCtx, alertCtx + 1}
    BY <1>1, <1>4
  <2>2. evaluating[l].at \notin {"firing", "resolving"} /\ e.at \notin {"firing", "resolving", "fire"}
    BY <1>3, <1>5
  <2> HIDE DEF l
  <2>3. QED  BY <1>1, <1>2, <1>3, <1>4, <2>1, <2>2, QuietStep
<1>7. LoopTypes'
  <2>1. alertCtx' \in 0..MaxAlertStarts
    BY <1>1, <1>4 DEF Evaluations
  <2>2. evaluating' \in [Evaluations -> Evaluating]
    BY <1>1, <1>2, <1>3
  <2>3. QED  BY <1>4, <2>1, <2>2 DEF LoopTypes
<1>8. QED  BY <1>4, <1>6, <1>7

-----------------------------------------------------------------------------
(* Evaluation.                                                             *)

LEMMA RoundStep ==
  ASSUME LoopTypes, LoopOrder, EndsOnce, NEW l \in Evaluations,
         EvaluateRules(l) \/ RoundOver(l) \/ EvaluationDone(l),
         lastSnapshot \in Snapshots
  PROVE  LoopTypes' /\ LoopOrder' /\ EndsOnce'
<1> USE Constants
<1> DEFINE F == [at |-> "rules", left |-> rules, on |-> lastSnapshot, ctx |-> 0]
<1>1. evaluating \in [Evaluations -> Evaluating] /\ alertCtx \in Nat /\ rules \in Seq(RuleIds)
      /\ l \in Nat
  BY DEF LoopTypes, Evaluations
<1>2. <<>> \in Seq(RuleIds)
  OBVIOUS
<1>3. /\ F \in Evaluating /\ F.at = "rules" /\ Waiting \in Evaluating /\ Waiting.at = "wait"
      /\ NoEvaluation \in Evaluating /\ NoEvaluation.at = "none"
  BY <1>1, <1>2 DEF Waiting, NoEvaluation, Evaluating
<1>4. \E e \in {F, Waiting, NoEvaluation} : evaluating' = [evaluating EXCEPT ![l] = e]
  BY DEF EvaluateRules, RoundOver, EvaluationDone
<1> HIDE DEF F
<1>5. PICK e \in Evaluating : /\ evaluating' = [evaluating EXCEPT ![l] = e]
                              /\ e.at \in {"rules", "wait", "none"}
  BY <1>3, <1>4
<1>6. evaluating[l].at \in {"wait", "rules"} /\ UNCHANGED <<rules, alerts, alertCtx, alertEnded, open>>
  BY DEF EvaluateRules, RoundOver, EvaluationDone
<1>7. l <= alertCtx
  BY <1>1, <1>6 DEF LoopOrder
<1>8. LoopOrder' /\ EndsOnce'
  BY <1>5, <1>6, <1>7, QuietStep
<1>9. LoopTypes'
  BY <1>1, <1>5, <1>6 DEF LoopTypes
<1>10. QED  BY <1>8, <1>9

LEMMA EvaluateStep ==
  ASSUME LoopTypes, LoopOrder, EndsOnce, NEW l \in Evaluations,
         EvaluateRule(l) \/ Fire(l) \/ Announce(l)
  PROVE  LoopTypes' /\ LoopOrder' /\ EndsOnce'
<1> USE Constants
<1>1. /\ evaluating \in [Evaluations -> Evaluating] /\ alertCtx \in Nat /\ l \in Nat
      /\ alerts \subseteq RuleNames /\ open \in [RuleNames -> Int]
  BY DEF LoopTypes, Evaluations
<1>2. UNCHANGED <<rules, alertCtx, alertEnded>>
  BY DEF EvaluateRule, Fire, Announce
<1>3. HasRule(l) /\ evaluating[l].left \in Seq(RuleIds)
  BY <1>1 DEF EvaluateRule, Fire, Announce, LoopOrder, HasRule, Evaluating
<1>4. PICK r \in RuleIds : r = Head(evaluating[l].left)
  BY <1>3 DEF HasRule
<1> DEFINE n == Rule[r].name
<1>5. n \in RuleNames /\ Named(l) = n
  BY <1>4 DEF Named
<1>6. l <= alertCtx
  BY <1>1 DEF LoopOrder, EvaluateRule, Fire, Announce
<1> DEFINE At(a) == [evaluating[l] EXCEPT !.at = a]
<1>7. ASSUME NEW a \in {"fire", "firing", "resolving"}
      PROVE  At(a) \in Evaluating /\ At(a).at = a /\ At(a).left = evaluating[l].left
  BY <1>1 DEF Evaluating
<1>8. Rest(evaluating[l]) \in Evaluating /\ Rest(evaluating[l]).at = "rules"
  <2>1. Tail(evaluating[l].left) \in Seq(RuleIds)
    BY <1>3 DEF HasRule
  <2>2. QED  BY <1>1, <2>1 DEF Rest, Evaluating
\* Step a to step b of loop l, with what this does to the count.
<1> DEFINE Moves(a, b, map, more) ==
             /\ evaluating[l].at = a /\ alerts' = map
             /\ open' = [open EXCEPT ![n] = @ + more]
             /\ \E e \in Evaluating : /\ evaluating' = [evaluating EXCEPT ![l] = e] /\ e.at = b
                                      /\ b # "rules" => e.left = evaluating[l].left
<1>9. ASSUME NEW a \in {"rules", "fire", "firing", "resolving"},
             NEW b \in {"rules", "firing", "resolving"},
             NEW map, NEW more \in {-1, 0, 1}, Moves(a, b, map, more),
             \/ a = "rules" /\ b = "resolving" /\ more = 0 /\ n \in alerts /\ map = alerts \ {n}
             \/ a = "fire" /\ b = "firing" /\ more = 0 /\ map = alerts \cup {n}
             \/ a = "firing" /\ b = "rules" /\ more = 1 /\ map = alerts
             \/ a = "resolving" /\ b = "rules" /\ more = -1 /\ map = alerts
      PROVE  LoopTypes' /\ LoopOrder' /\ EndsOnce'
  <2>1. PICK e \in Evaluating : /\ evaluating' = [evaluating EXCEPT ![l] = e] /\ e.at = b
                                /\ b # "rules" => e.left = evaluating[l].left
    BY <1>9
  <2>2. evaluating'[l] = e /\ \A k \in Evaluations \ {l} : evaluating'[k] = evaluating[k]
    BY <1>1, <2>1
  <2>3. alerts' \subseteq RuleNames /\ open' \in [RuleNames -> Int]
    BY <1>1, <1>5, <1>9
  <2>4. LoopTypes'
    BY <1>1, <1>2, <2>1, <2>3 DEF LoopTypes
  <2>5. LoopOrder'
    <3>1. \A k \in Evaluations :
            evaluating'[k].at \in {"fire", "firing", "resolving"} => evaluating'[k].left # <<>>
      <4>1. e.at \in {"fire", "firing", "resolving"} => e.left # <<>>
        BY <1>3, <2>1 DEF HasRule
      <4>2. QED  BY <2>2, <4>1 DEF LoopOrder, HasRule
    <3>2. \A k \in Evaluations : k > alertCtx => evaluating'[k].at = "none"
      BY <1>1, <1>6, <2>2 DEF LoopOrder, Evaluations
    <3>3. ASSUME alertCtx <= 1, NEW k \in Evaluations
          PROVE  evaluating'[k].at # "fire"
      <4>1. k # l => k > alertCtx
        BY <1>1, <1>6, <3>3 DEF Evaluations
      <4>2. QED  BY <1>9, <2>1, <2>2, <3>2, <4>1
    <3>4. QED  BY <1>2, <3>1, <3>2, <3>3 DEF LoopOrder, HasRule
  <2>6. ASSUME NEW k \in RuleNames
        PROVE  /\ Balance(k)' >= Active(k)'
               /\ alertCtx <= 1 => Balance(k)' = Active(k)'
    <3> DEFINE F == Cardinality(Announcing("firing", k))
               R == Cardinality(Announcing("resolving", k))
    <3>1. F \in Nat /\ R \in Nat /\ open[k] \in Int
      BY <1>1, PendingType
    <3>2. open[k] + F - R >= Active(k) /\ (alertCtx <= 1 => open[k] + F - R = Active(k))
      BY DEF EndsOnce, Balance
    <3>3. open'[k] = open[k] + (IF k = n THEN more ELSE 0)
      BY <1>1, <1>9, <3>1
    <3>4. b # "rules" => Rule[Head(e.left)].name = n
      BY <1>4, <2>1
    <3>5. ASSUME NEW at \in {"firing", "resolving"}
          PROVE  Cardinality(Announcing(at, k))' = Cardinality(Announcing(at, k))
                   + (IF b = at /\ k = n THEN 1 ELSE 0) - (IF a = at /\ k = n THEN 1 ELSE 0)
      <4>1. (e.at = at /\ Rule[Head(e.left)].name = k) <=> (b = at /\ k = n)
        BY <1>9, <2>1, <3>4
      <4>2. (evaluating[l].at = at /\ Named(l) = k) <=> (a = at /\ k = n)
        BY <1>5, <1>9
      <4>3. Cardinality(Announcing(at, k))' = Cardinality(Announcing(at, k))
              + (IF e.at = at /\ Rule[Head(e.left)].name = k THEN 1 ELSE 0)
              - (IF evaluating[l].at = at /\ Named(l) = k THEN 1 ELSE 0)
        BY <2>2, PendingStep
      <4> HIDE DEF n
      <4>4. QED  BY <4>1, <4>2, <4>3
    <3>6. /\ F' = F + (IF b = "firing" /\ k = n THEN 1 ELSE 0)
                   - (IF a = "firing" /\ k = n THEN 1 ELSE 0)
          /\ R' = R + (IF b = "resolving" /\ k = n THEN 1 ELSE 0)
                   - (IF a = "resolving" /\ k = n THEN 1 ELSE 0)
      BY <3>5
    <3>7. a = "fire" /\ alertCtx <= 1 => n \notin alerts
      BY <1>5, <1>9 DEF LoopOrder
    <3>8. /\ Balance(k)' = open'[k] + F' - R'
          /\ Active(k) = (IF k \in alerts THEN 1 ELSE 0) /\ Active(k)' = (IF k \in alerts' THEN 1 ELSE 0)
      BY DEF Balance, Active
    <3>9. alerts' = map
      BY <1>9
    <3> HIDE DEF F, R, n
    <3>10. CASE k # n
      BY <1>9, <3>1, <3>2, <3>3, <3>6, <3>8, <3>9, <3>10
    <3>11. CASE k = n
      BY <1>9, <3>1, <3>2, <3>3, <3>6, <3>7, <3>8, <3>9, <3>11
    <3>12. QED  BY <3>10, <3>11
  <2>7. EndsOnce'
    BY <1>2, <2>6 DEF EndsOnce
  <2>8. QED  BY <2>4, <2>5, <2>7
<1> HIDE DEF At, Moves
<1>10. ASSUME open' = open
       PROVE  open' = [open EXCEPT ![n] = @ + 0]
  BY <1>1, <1>5, <1>10
<1>11. CASE EvaluateRule(l)
  <2>1. evaluating[l].at = "rules" /\ open' = open
    BY <1>11 DEF EvaluateRule
  <2>2. CASE Resolve(l, r)
    <3>1. Moves("rules", "resolving", alerts \ {n}, 0)
      BY <1>7, <1>10, <2>1, <2>2 DEF Resolve, Moves, At
    <3>2. QED  BY <1>9, <2>2, <3>1 DEF Resolve
  <2>3. CASE /\ n \notin alerts /\ evaluating' = [evaluating EXCEPT ![l] = At("fire")]
             /\ UNCHANGED alerts
    <3>1. LoopOrder' /\ EndsOnce'
      BY <1>2, <1>3, <1>4, <1>6, <1>7, <2>1, <2>3, QuietStep DEF HasRule
    <3>2. LoopTypes'
      BY <1>1, <1>2, <1>7, <2>1, <2>3 DEF LoopTypes
    <3>3. QED  BY <3>1, <3>2
  <2>4. CASE evaluating' = [evaluating EXCEPT ![l] = Rest(evaluating[l])] /\ UNCHANGED alerts
    <3>1. LoopOrder' /\ EndsOnce'
      BY <1>2, <1>6, <1>8, <2>1, <2>4, QuietStep
    <3>2. LoopTypes'
      BY <1>1, <1>2, <1>8, <2>1, <2>4 DEF LoopTypes
    <3>3. QED  BY <3>1, <3>2
  <2>5. QED  BY <1>4, <1>11, <2>2, <2>3, <2>4 DEF EvaluateRule, At
<1>12. CASE Fire(l)
  <2>1. Moves("fire", "firing", alerts \cup {n}, 0)
    BY <1>4, <1>7, <1>10, <1>12 DEF Fire, Moves, At
  <2>2. QED  BY <1>9, <2>1
<1>13. CASE Announce(l)
  <2>1. evaluating' = [evaluating EXCEPT ![l] = Rest(evaluating[l])] /\ alerts' = alerts
    BY <1>13 DEF Announce
  <2>2. \/ Moves("firing", "rules", alerts, 1)
        \/ Moves("resolving", "rules", alerts, -1)
    BY <1>4, <1>8, <1>13, <2>1 DEF Announce, SendNotifications, Moves
  <2>3. QED  BY <1>9, <2>2
<1>14. QED  BY <1>11, <1>12, <1>13

-----------------------------------------------------------------------------
(* The theorem.                                                            *)

LEMMA AlertStep == AlertIInv /\ [AlertNext]_pipelineVars => AlertIInv'
<1> SUFFICES ASSUME AlertIInv, [AlertNext]_pipelineVars PROVE AlertIInv'
  OBVIOUS
<1> USE DEF AlertIInv
<1>1. CASE CollectorNext /\ UNCHANGED alertVars
  BY <1>1, CollectorStep, LoopsUnchanged DEF alertVars, LoopTypes
<1>2. CASE UNCHANGED <<measuredVars, collectorVars>> /\ LoopTypes' /\ LoopOrder' /\ EndsOnce'
  BY <1>2 DEF measuredVars, collectorVars, CollectorTypes
<1>3. ASSUME NEW l \in Evaluations, Evaluation(l) \/ EvaluationDone(l)
      PROVE  AlertIInv'
  <2>1. lastSnapshot \in Snapshots /\ UNCHANGED <<measuredVars, collectorVars>>
    BY <1>3 DEF CollectorTypes, Evaluation, EvaluationDone, EvaluateRules, EvaluateRule, Fire,
                Announce, RoundOver
  <2>2. LoopTypes' /\ LoopOrder' /\ EndsOnce'
    BY <1>3, <2>1, RoundStep, EvaluateStep DEF Evaluation
  <2>3. QED  BY <1>2, <2>1, <2>2
<1>4. CASE UNCHANGED pipelineVars
  BY <1>4, LoopsUnchanged DEF pipelineVars, measuredVars, collectorVars, alertVars, CollectorTypes,
                              LoopTypes
<1>5. QED  BY <1>1, <1>2, <1>3, <1>4, ManagerStep, StartStep DEF AlertNext

\* AlertInv: with any number of evaluating loops, none of which holds the lock
\* from the lookup to the announcement, no alert is announced as over more often
\* than one was stored, and each that is active has a firing of its own, announced
\* or yet to be (evaluateRule).
THEOREM AlertInvariant == AlertSpec => []AlertInv
<1>1. AlertIInv => AlertInv
  <2> SUFFICES ASSUME AlertIInv PROVE AlertInv
    OBVIOUS
  <2>1. CollectorTypeOK
    BY DEF AlertIInv, CollectorTypes, CollectorTypeOK, Collecting
  <2>2. ToSet(rules) \subseteq RuleIds
    BY DEF AlertIInv, LoopTypes, ToSet
  <2>3. AlertTypeOK
    BY <2>1, <2>2 DEF AlertIInv, LoopTypes, AlertTypeOK, Evaluating
  <2>4. QED  BY <2>3 DEF AlertIInv, AlertInv
<1>2. QED  BY <1>1, AlertInitial, AlertStep, PTL DEF AlertSpec

=============================================================================
