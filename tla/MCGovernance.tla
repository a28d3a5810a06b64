---------------------------- MODULE MCGovernance ----------------------------
(* Bounded instances for TLC of what brings upgrades to the node: the       *)
(* monitor and the scheduler of internal/governance, its notifier, the      *)
(* coordinator of batch plans and the downloader of binaries.  The monitor  *)
(* never hands the scheduler anything (PassedIsScheduled), and the five     *)
(* share nothing else, so that each behaviour explores one part and leaves  *)
(* the others alone.                                                        *)
EXTENDS GovernanceMonitor, UpgradeScheduler, Notifier, UpgradeCoordinator, BinaryDownload

CONSTANTS n1, n2, h1, h2, u1, u2, Parts

\* One upgrade per height.
TwoHeights == (n1 :> 1) @@ (n2 :> 2)

\* Two handlers of one type.
OneType == (h1 :> "log") @@ (h2 :> "log")

\* A plan out of order; and what CreatePlan accepts too.
Info(n, h)  == [name |-> n, height |-> h]
OnePlan     == {<<Info("b", 5), Info("a", 2)>>}
OddPlans    == OnePlan \cup {<<>>, <<Info("a", 1), Info("a", 2)>>}

VARIABLE part
vars == <<govVars, schedulerVars, notifierVars, coordVars, downloadVars, part>>

\* The part that is explored has the choice of its initial state.
Init ==
  /\ part \in Parts
  /\ GovInit /\ SchedulerInit /\ NotifierInit /\ CoordInit /\ DownloadInit
  /\ syncing => part = "coordinator"
  /\ (\E u \in Binaries : bin[u] # "absent") => part = "download"

Next ==
  /\ part' = part
  /\ \/ part = "monitor"     /\ GovNext
        /\ UNCHANGED <<schedulerVars, notifierVars, coordVars, downloadVars>>
     \/ part = "scheduler"   /\ SchedulerNext
        /\ UNCHANGED <<govVars, notifierVars, coordVars, downloadVars>>
     \/ part = "notifier"    /\ NotifierNext
        /\ UNCHANGED <<govVars, schedulerVars, coordVars, downloadVars>>
     \/ part = "coordinator" /\ CoordNext
        /\ UNCHANGED <<govVars, schedulerVars, notifierVars, downloadVars>>
     \/ part = "download"    /\ DownloadNext
        /\ UNCHANGED <<govVars, schedulerVars, notifierVars, coordVars>>

\* Requests end, tickers tick, and what was asked for again and again is
\* answered some time; a cancelled context is seen in the end.
Monitoring == part = "monitor"
GovFairness ==
  /\ \A f \in Fetchers : WF_govVars(Monitoring /\ Fetch(f))
  /\ WF_govVars(Monitoring /\ GetActive) /\ WF_govVars(Monitoring /\ CheckVotingProgress)
  /\ \A p \in Proposals : SF_govVars(Monitoring /\ GetProposal(p))
  /\ WF_govVars(Monitoring /\ StopCancel) /\ WF_govVars(Monitoring /\ StopReturn)

\* The goroutine runs, once a minute, and the node answers some time.
Scheduling == part = "scheduler"
SchedulerFairness ==
  /\ WF_schedulerVars(Scheduling /\ GetCurrentHeight)
  /\ WF_schedulerVars(Scheduling /\ ProcessUpgradeQueue)

\* The coordinator and its goroutine run; a state that is offered is taken.
Coordinating == part = "coordinator"
CoordinatorFairness ==
  /\ WF_coordVars(Coordinating /\ CheckReadiness)
  /\ WF_coordVars(Coordinating /\ PollHeight) /\ WF_coordVars(Coordinating /\ Receive)

\* A cancelled context is taken some time by whoever selects on it.  A behaviour
\* has one part, so that strong fairness of either is that of its own.
GovRest   == UNCHANGED <<schedulerVars, notifierVars, coordVars, downloadVars, part>>
CoordRest == UNCHANGED <<govVars, schedulerVars, notifierVars, downloadVars, part>>
CancelFairness ==
  /\ SF_vars(\/ Monitoring /\ FetcherExits /\ GovRest
             \/ Coordinating /\ PollEnds /\ CoordRest)
  /\ SF_vars(\/ Monitoring /\ VotingExits /\ GovRest
             \/ Coordinating /\ CoordinateEnds /\ CoordRest)

\* Every request of the downloader has a timeout.
DownloadFairness == WF_downloadVars(part = "download" /\ Download)

\* Coordination and downloads come to an end, and in the right way.
UpgradesPrepared == CoordProgress /\ EnsureEnds

FairSpec ==
  /\ Init /\ [][Next]_vars
  /\ GovFairness /\ SchedulerFairness /\ CoordinatorFairness /\ CancelFairness /\ DownloadFairness
=============================================================================
