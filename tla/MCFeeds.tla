------------------------------ MODULE MCFeeds ------------------------------
(* Bounded instances for TLC of what feeds the program: heights and plans   *)
(* for the orchestrator, and the configuration file.  They share nothing,   *)
(* so that each behaviour explores one and leaves the others alone.  No     *)
(* symmetry: liveness is checked too.                                       *)
EXTENDS HeightMonitor, UpgradeWatcher, ConfigManager, TLC

CONSTANTS s1, s2, w1, t1, t2, p1, p2, Feeds,
          MaxInputs   \* bound: calls, edits and binds of the configuration together

\* Two upgrades at one height, or one upgrade with two checksums.
TwoNames  == (p1 :> "v1") @@ (p2 :> "v2")
OneName   == (p1 :> "v1") @@ (p2 :> "v1")
OneHeight == (p1 :> 2) @@ (p2 :> 2)

VARIABLE feed
feedVars == <<heightVars, vars, confVars, feed>>

\* The watcher starts with any file; the others do not see it.
FeedsInit == /\ feed \in Feeds /\ HeightInit /\ Init /\ ConfInit
             /\ file # "missing" => feed = "watcher"

FeedsNext ==
  /\ feed' = feed
  /\ \/ feed = "height"  /\ HeightNext /\ UNCHANGED <<vars, confVars>>
     \/ feed = "watcher" /\ Next       /\ UNCHANGED <<heightVars, confVars>>
     \/ feed = "config"  /\ ConfNext /\ confCalls' + edits' + binds' <= MaxInputs
        /\ UNCHANGED <<heightVars, vars>>

\* The fairness of each module, for the one that is explored.  Strong fairness
\* of either is that of the one which the behaviour can take.
HeightRuns  == feed = "height"
WatcherRuns == feed = "watcher" /\ ~ panicked
ConfigRuns  == feed = "config"
LoopEnds(m) ==
  /\ feed' = feed /\ UNCHANGED confVars
  /\ \/ HeightRuns /\ LoopExit /\ UNCHANGED vars
     \/ WatcherRuns /\ MonitorExit(m) /\ UNCHANGED heightVars
FeedsFairness ==
  /\ WF_heightVars(HeightRuns /\ MonitorLoop)
  /\ \A c \in HeightStoppers : WF_heightVars(HeightRuns /\ HeightStopReturn(c))
  /\ WF_vars(WatcherRuns /\ StartParse)
  /\ \A m \in Monitors : WF_vars(WatcherRuns /\ Check(m))
  /\ \A c \in Stoppers : WF_vars(WatcherRuns /\ StopGoesOn(c))
  /\ \A m \in Monitors : SF_feedVars(LoopEnds(m))
  /\ WF_confVars(ConfigRuns /\ StartWatching)
  /\ WF_confVars(ConfigRuns /\ WatchEvent) /\ WF_confVars(ConfigRuns /\ HandleConfigChange)

\* Every Stop, of the height monitor or of the watcher, returns and is final.
StopsAreFinal == HeightStopIsFinal /\ StopIsFinal

FeedsSpec == FeedsInit /\ [][FeedsNext]_feedVars /\ FeedsFairness
=============================================================================
