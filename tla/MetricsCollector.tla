-------------------------- MODULE MetricsCollector --------------------------
(***************************************************************************)
(* The metrics collector, internal/metrics/collector.go, and the readiness *)
(* endpoint of exporter.go.                                                *)
(*                                                                         *)
(* Start leaves a goroutine that collects a snapshot per tick; the node    *)
(* manager calls it for every run of the node, and Stop only when the node *)
(* is stopped: after a crash two loops collect.  Start replaces c.ctx, and *)
(* a loop looks at the field again each time it waits.                     *)
(***************************************************************************)
EXTENDS Integers, Sequences, FiniteSetsExt

CONSTANTS
  Sections,            \* the parts of a snapshot that the config enables
  MaxCollectorStarts,  \* bound: calls of Start
  MaxChanges           \* bound: changes of what is measured; the counter is not
                       \* followed beyond it

ASSUME CollectorAssumption ==
  /\ Sections \subseteq {"system", "application"}
  /\ MaxCollectorStarts \in Nat /\ MaxChanges \in Nat

Metrics       == {"cpu_usage", "network_rx", "node_height", "node_syncing"}
SectionOf(m)  == IF m \in {"cpu_usage", "network_rx"} THEN "system" ELSE "application"
NoSnapshot    == [m \in Metrics |-> -1]
Collections   == 1..MaxCollectorStarts

VARIABLES
  measured,       \* external: what there is to measure
  failing,        \* external: the metrics whose probe or callback fails
  changes,
  collectorCtx,   \* c.ctx: the number of the Start that made it
  collectorEnded, \* the contexts cancelled
  collecting,     \* per loop: its step, what it has so far, the context it waits on
  lastSnapshot,
  rxCounter       \* the Prometheus counter networkRxBytes

measuredVars  == <<measured, failing, changes>>
collectorVars == <<collectorCtx, collectorEnded, collecting, lastSnapshot, rxCounter>>

NoCollection == [at |-> "none", got |-> NoSnapshot, ctx |-> 0]

CollectorInit ==
  /\ measured = [m \in Metrics |-> 0] /\ failing = {} /\ changes = 0
  /\ collectorCtx = 0 /\ collectorEnded = {}
  /\ collecting = [l \in Collections |-> NoCollection]
  /\ lastSnapshot = NoSnapshot /\ rxCounter = 0

\* External: the host and the node, as far as they are looked at.  Received
\* bytes are counted since boot.
Looked == {m \in Metrics : SectionOf(m) \in Sections}
Changed(m) == [measured EXCEPT ![m] = IF m = "network_rx" THEN @ + 1 ELSE 1 - @]

Changes ==
  /\ changes < MaxChanges /\ changes' = changes + 1
  /\ \E m \in Looked :
       \/ measured' = Changed(m) /\ UNCHANGED failing
       \/ failing' = SymDiff(failing, {m}) /\ UNCHANGED measured
  /\ UNCHANGED collectorVars

-----------------------------------------------------------------------------

CollectorStart ==
  /\ collectorCtx < MaxCollectorStarts
  /\ collectorCtx' = collectorCtx + 1
  /\ collecting' = [collecting EXCEPT ![collectorCtx + 1].at = "system"]
  /\ UNCHANGED <<measuredVars, collectorEnded, lastSnapshot, rxCounter>>

\* Stop cancels the context that is in the field, and waits for nothing.
CollectorStop ==
  /\ collectorCtx > 0 /\ collectorEnded' = collectorEnded \cup {collectorCtx}
  /\ UNCHANGED <<measuredVars, collectorCtx, collecting, lastSnapshot, rxCounter>>

\* What a probe or a callback gives; one that fails leaves a zero.
Probe(m) == IF m \in Looked \ failing THEN measured[m] ELSE 0

\* collect: the system metrics.  The counter adds what the host has counted.
CollectSystem(l) ==
  /\ collecting[l].at = "system"
  /\ collecting' = [collecting EXCEPT ![l].at = "application",
                      ![l].got = [m \in Metrics |-> IF SectionOf(m) = "system" THEN Probe(m) ELSE 0]]
  /\ rxCounter' = IF rxCounter <= MaxChanges THEN rxCounter + Probe("network_rx") ELSE rxCounter
  /\ UNCHANGED <<measuredVars, collectorCtx, collectorEnded, lastSnapshot>>

\* collect: what the callbacks say of the node.
CollectApplication(l) ==
  /\ collecting[l].at = "application"
  /\ collecting' = [collecting EXCEPT ![l].at = "store",
                      ![l].got = [m \in Metrics |->
                        IF SectionOf(m) = "application" THEN Probe(m) ELSE @[m]]]
  /\ UNCHANGED <<measuredVars, collectorCtx, collectorEnded, lastSnapshot, rxCounter>>

\* Mutant: the loop keeps to the context it was started with.
StoreSnapshot_OwnContext(l) ==
  /\ collecting[l].at = "store" /\ lastSnapshot' = collecting[l].got
  /\ collecting' = [collecting EXCEPT ![l] = [at |-> "wait", got |-> NoSnapshot, ctx |-> l]]
  /\ UNCHANGED <<measuredVars, collectorCtx, collectorEnded, rxCounter>>

\* The snapshot is stored, and collectionLoop waits on what c.ctx is now.
StoreSnapshot(l) ==
  /\ collecting[l].at = "store" /\ lastSnapshot' = collecting[l].got
  /\ collecting' = [collecting EXCEPT ![l] = [at |-> "wait", got |-> NoSnapshot, ctx |-> collectorCtx]]
  /\ UNCHANGED <<measuredVars, collectorCtx, collectorEnded, rxCounter>>

CollectorTick(l) ==
  /\ collecting[l].at = "wait"
  /\ collecting' = [collecting EXCEPT ![l].at = "system"]
  /\ UNCHANGED <<measuredVars, collectorCtx, collectorEnded, lastSnapshot, rxCounter>>

CollectorDone(l) ==
  /\ collecting[l].at = "wait" /\ collecting[l].ctx \in collectorEnded
  /\ collecting' = [collecting EXCEPT ![l] = NoCollection]
  /\ UNCHANGED <<measuredVars, collectorCtx, collectorEnded, lastSnapshot, rxCounter>>

Collection(l) ==
  CollectSystem(l) \/ CollectApplication(l) \/ StoreSnapshot(l) \/ CollectorTick(l)

CollectorNext ==
  \/ Changes \/ CollectorStart \/ CollectorStop
  \/ \E l \in Collections : Collection(l) \/ CollectorDone(l)

-----------------------------------------------------------------------------
(* Properties.                                                             *)

CollectorTypeOK ==
  /\ measured \in [Metrics -> Nat] /\ failing \subseteq Metrics /\ changes \in 0..MaxChanges
  /\ collectorCtx \in 0..MaxCollectorStarts /\ collectorEnded \subseteq Collections
  /\ \A l \in Collections : collecting[l].at \in {"none", "system", "application", "store", "wait"}

\* Stop ends every loop, also those whose own context Start has replaced.
StopEndsCollection ==
  <>[](collectorCtx \in collectorEnded)
    => <>[](\A l \in Collections : collecting[l].at = "none")

\* Does not hold: every round adds the host's total to the counter, whose help
\* text says it is the total.
CounterIsTotal == rxCounter <= measured["network_rx"]
=============================================================================
