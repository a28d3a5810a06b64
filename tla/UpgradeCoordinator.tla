------------------------- MODULE UpgradeCoordinator -------------------------
(***************************************************************************)
(* Batch upgrades: the plans of internal/batch/batch.go, and the WBFT      *)
(* coordinator (internal/wbft/coordinator.go, client.go) that follows the  *)
(* chain and writes upgrade-info.json for the next upgrade of its plan.    *)
(* The client's goroutine polls the consensus state and hands over what    *)
(* has changed, on an unbuffered channel.  Of a state only the height is   *)
(* kept.                                                                   *)
(***************************************************************************)
EXTENDS Integers, FiniteSets, SequencesExt

CONSTANTS
  Requests,         \* the lists of upgrades [name, height] that CreatePlan is given
  Window,           \* 10: blocks before an upgrade at which it is prepared
  WriteFails,       \* the file may fail to be written
  MaxBlock,         \* bound: the height of the chain
  MaxStep,          \* bound: blocks between two looks at the chain
  MaxCoordinations  \* bound: calls of MonitorAndCoordinate

ASSUME CoordinatorAssumption ==
  /\ \A r \in Requests : r \in Seq([name : STRING, height : Int])
  /\ Window \in Nat \ {0} /\ WriteFails \in BOOLEAN
  /\ MaxBlock \in Nat /\ MaxStep \in Nat /\ MaxCoordinations \in Nat

NoInfo == [name |-> "", height |-> 0]
NoPlan    == <<>>
NoHeight  == -1

VARIABLES
  block, syncing,  \* external: the height of the node, and whether it catches up
  planFiles,       \* the plans saved
  heightFiles,     \* what ExecutePlan wrote: upgrades in directories of their heights
  activePlan,
  coordinating,    \* MonitorAndCoordinate: "idle", "ready", "receive"
  plan,            \* its plan
  coordinations,
  polling,         \* MonitorConsensus: "none", "tick", "send"
  polled,          \* the state about to be sent
  lastState,
  coordCancelled,  \* ctx
  infoFile,        \* upgrade-info.json
  writtenBy,       \* ghost: the coordination that wrote it
  watched,         \* ghost: the upgrades that a watcher of the file has read
  reported         \* triggerUpgrade was called

blockVars == <<block, syncing>>
fileVars  == <<planFiles, heightFiles, activePlan>>
pollVars  == <<polling, polled, lastState>>
infoVars  == <<infoFile, writtenBy, watched>>
coordVars == <<blockVars, fileVars, coordinating, plan, coordinations, pollVars, coordCancelled,
               infoVars, reported>>

CoordInit ==
  /\ block = 0 /\ syncing \in BOOLEAN
  /\ planFiles = {} /\ heightFiles = {} /\ activePlan = NoPlan
  /\ coordinating = "idle" /\ plan = NoPlan /\ coordinations = 0
  /\ polling = "none" /\ polled = NoHeight /\ lastState = NoHeight /\ coordCancelled = FALSE
  /\ infoFile = NoInfo /\ writtenBy = 0 /\ watched = {} /\ reported = FALSE

-----------------------------------------------------------------------------
(* Plans.                                                                  *)

Increasing(p) == \A i \in 2..Len(p) : p[i].height > p[i - 1].height

\* The list in the order of the heights: one order, or none if two are equal,
\* and then CreatePlan refuses whatever sort.Slice makes of it.
SortedByHeight(r) == {p \in [DOMAIN r -> ToSet(r)] : ToSet(p) = ToSet(r) /\ Increasing(p)}

\* What CreatePlan accepts, once it has sorted the list.
Acceptable(p) == \A i \in DOMAIN p : p[i].name # "" /\ p[i].height > 0

\* ValidatePlan.
ValidPlan(p) == /\ p # <<>> /\ Increasing(p)
                /\ \A i, j \in DOMAIN p : p[i].name = p[j].name => i = j

\* Mutant: an upgrade is still next when its height is reached.
GetNextUpgrade_AtHeight(p, h) ==
  IF \E i \in DOMAIN p : p[i].height >= h
  THEN p[CHOOSE i \in DOMAIN p : p[i].height >= h /\ \A j \in 1..(i - 1) : p[j].height < h]
  ELSE NoInfo

\* The first upgrade of the list that is above the height.
GetNextUpgrade(p, h) ==
  IF \E i \in DOMAIN p : p[i].height > h
  THEN p[CHOOSE i \in DOMAIN p : p[i].height > h /\ \A j \in 1..(i - 1) : p[j].height <= h]
  ELSE NoInfo

\* GetPlanStatus.
Completed(p, h)    == Cardinality({i \in DOMAIN p : p[i].height <= h})
ActiveUpgrade(p, h) == GetNextUpgrade(p, h).name

\* CreatePlan and SavePlan.
CreatePlan(r) ==
  /\ \E p \in SortedByHeight(r) : Acceptable(p) /\ planFiles' = planFiles \cup {p}
  /\ UNCHANGED <<blockVars, heightFiles, activePlan, coordinating, plan, coordinations, pollVars,
                 coordCancelled, infoVars, reported>>

RemovePlan(p) ==
  /\ p \in planFiles /\ planFiles' = planFiles \ {p}
  /\ UNCHANGED <<blockVars, heightFiles, activePlan, coordinating, plan, coordinations, pollVars,
                 coordCancelled, infoVars, reported>>

\* ExecutePlan: a file per height, for the upgrades up to the first that fails.
ExecutePlan(p) ==
  /\ p \in planFiles /\ ValidPlan(p)
  /\ \E k \in 0..Len(p) :
       heightFiles' = {f \in heightFiles : \A i \in 1..k : f.height # p[i].height}
                        \cup {p[i] : i \in 1..k}
  /\ UNCHANGED <<blockVars, planFiles, activePlan, coordinating, plan, coordinations, pollVars,
                 coordCancelled, infoVars, reported>>

\* The coordinator's LoadPlan refuses what ValidatePlan refuses.
LoadPlan(p) ==
  /\ p \in planFiles /\ ValidPlan(p) /\ activePlan' = p
  /\ UNCHANGED <<blockVars, planFiles, heightFiles, coordinating, plan, coordinations, pollVars,
                 coordCancelled, infoVars, reported>>

-----------------------------------------------------------------------------
(* MonitorAndCoordinate.                                                   *)

\* The plan is taken under the lock; a plan loaded later is for the next call.
Coordinate ==
  /\ coordinating = "idle" /\ activePlan # NoPlan /\ coordinations < MaxCoordinations
  /\ polling = "none"
  /\ plan' = activePlan /\ coordinating' = "ready" /\ coordinations' = coordinations + 1
  /\ coordCancelled' = FALSE
  /\ UNCHANGED <<blockVars, fileVars, pollVars, infoVars, reported>>

\* CheckReadiness and the first height: the call fails when the node catches up
\* or does not answer; else MonitorConsensus is started.
CheckReadiness ==
  /\ coordinating = "ready"
  /\ \/ ~ syncing /\ coordinating' = "receive" /\ polling' = "tick" /\ lastState' = NoHeight
     \/ coordinating' = "idle" /\ UNCHANGED <<polling, lastState>>
  /\ UNCHANGED <<blockVars, fileVars, plan, coordinations, polled, coordCancelled, infoVars, reported>>

\* The goroutine polls: what differs from what was last taken is sent, for its
\* height, or for its round or step; a call that fails is skipped.
Polled ==
  /\ polling = "tick" /\ polling' = "send" /\ polled' = block
  /\ UNCHANGED <<blockVars, fileVars, coordinating, plan, coordinations, lastState, coordCancelled,
                 infoVars, reported>>

PollHeight == block # lastState /\ Polled
PollRound  == block = lastState /\ Polled

\* Mutant: at exactly Window blocks.
Within_Exactly(u, h) == u.height - h = Window

Within(u, h) == u.height - h <= Window /\ u.height - h > 0

\* prepareUpgrade writes the file; the write may fail, and is not repeated
\* before the state has changed.
PrepareUpgrade(u) ==
  \/ infoFile' = u /\ writtenBy' = coordinations
  \/ WriteFails /\ UNCHANGED <<infoFile, writtenBy>>

\* The coordinator takes the state.  No upgrade is left: it is done.  The test
\* for the height comes after GetNextUpgrade, which returns only what is above.
Receive ==
  /\ polling = "send" /\ coordinating = "receive"
  /\ polling' = "tick" /\ lastState' = polled
  /\ LET next == GetNextUpgrade(plan, polled)
     IN  IF next = NoInfo
         THEN coordinating' = "idle" /\ UNCHANGED <<infoFile, writtenBy, reported>>
         ELSE /\ IF Within(next, polled) THEN PrepareUpgrade(next)
                 ELSE UNCHANGED <<infoFile, writtenBy>>
              /\ reported' = (reported \/ polled >= next.height)
              /\ UNCHANGED coordinating
  /\ UNCHANGED <<blockVars, fileVars, plan, coordinations, polled, coordCancelled, watched>>

\* The context is done: the goroutine ends wherever it waits, and the
\* coordinator at its next choice; a nil from the closed channel is skipped.
Cancel ==
  /\ coordinating # "idle" \/ polling # "none"
  /\ ~ coordCancelled /\ coordCancelled' = TRUE
  /\ UNCHANGED <<blockVars, fileVars, coordinating, plan, coordinations, pollVars, infoVars, reported>>

PollEnds ==
  /\ polling # "none" /\ coordCancelled /\ polling' = "none"
  /\ UNCHANGED <<blockVars, fileVars, coordinating, plan, coordinations, polled, lastState,
                 coordCancelled, infoVars, reported>>

CoordinateEnds ==
  /\ coordinating = "receive" /\ coordCancelled /\ coordinating' = "idle"
  /\ UNCHANGED <<blockVars, fileVars, plan, coordinations, pollVars, coordCancelled, infoVars, reported>>

\* External: blocks, and the process manager's watcher.
ChainGrows ==
  /\ \E n \in 1..MaxStep : block + n <= MaxBlock /\ block' = block + n
  /\ syncing' \in BOOLEAN
  /\ UNCHANGED <<fileVars, coordinating, plan, coordinations, pollVars, coordCancelled, infoVars,
                 reported>>

WatcherReads ==
  /\ infoFile # NoInfo /\ watched' = watched \cup {infoFile}
  /\ UNCHANGED <<blockVars, fileVars, coordinating, plan, coordinations, pollVars, coordCancelled,
                 infoFile, writtenBy, reported>>

Coordinator == CheckReadiness \/ PollHeight \/ PollRound \/ Receive

CoordNext ==
  \/ \E r \in Requests : CreatePlan(r)
  \/ \E p \in planFiles : RemovePlan(p) \/ ExecutePlan(p) \/ LoadPlan(p)
  \/ Coordinate \/ Coordinator \/ Cancel \/ PollEnds \/ CoordinateEnds
  \/ ChainGrows \/ WatcherReads

CoordSpec == CoordInit /\ [][CoordNext]_coordVars
CoordFairness ==
  /\ WF_coordVars(CheckReadiness) /\ WF_coordVars(PollHeight) /\ WF_coordVars(Receive)
  /\ SF_coordVars(PollEnds) /\ SF_coordVars(CoordinateEnds)
CoordFairSpec == CoordSpec /\ CoordFairness

-----------------------------------------------------------------------------
(* Properties.                                                             *)

CoordTypeOK ==
  /\ block \in 0..MaxBlock /\ polled \in NoHeight..MaxBlock /\ lastState \in NoHeight..MaxBlock
  /\ coordinating \in {"idle", "ready", "receive"} /\ polling \in {"none", "tick", "send"}
  /\ coordinations \in 0..MaxCoordinations /\ writtenBy \in 0..coordinations
  /\ reported \in BOOLEAN

UpgradesOf(p) == {p[i] : i \in DOMAIN p}
\* The upgrades above h that no other is below.
DueIn(p, h) == {u \in UpgradesOf(p) : u.height > h /\ \A v \in UpgradesOf(p) : v.height > h => u.height <= v.height}

\* What is next by the order of the list is what is due by the heights, and the
\* status counts every upgrade once: the plan was sorted, saved, loaded and
\* validated on the way.
NextIsDue ==
  \A h \in 0..MaxBlock :
    /\ {GetNextUpgrade(plan, h)} = IF DueIn(plan, h) = {} THEN {NoInfo} ELSE DueIn(plan, h)
    /\ ActiveUpgrade(plan, h) = "" <=> Completed(plan, h) = Len(plan)

\* The watcher is told of no upgrade more than Window blocks ahead of the chain.
NotEarly == infoFile.height <= block + Window

CoordInv == CoordTypeOK /\ NextIsDue /\ NotEarly

\* While one coordination goes on, an announced upgrade is replaced only by a
\* later one, and only when the chain has reached it.
AnnouncedStays ==
  [][infoFile # NoInfo /\ infoFile' # infoFile /\ writtenBy' = writtenBy
       => infoFile.height <= block /\ infoFile'.height > infoFile.height]_coordVars

\* The upgrade that is due is announced, if the chain stays long enough within
\* its window for a poll, however states and blocks overtake each other.
DueIsAnnounced ==
  \A u \in UNION {UpgradesOf(r) : r \in Requests} :
    <>[](/\ coordinating = "receive" /\ ~ coordCancelled
         /\ u \in DueIn(plan, block) /\ u.height - block <= Window)
      => <>[](infoFile = u)

\* Who is cancelled ends.
CancelEnds == []<>(coordCancelled => polling = "none" /\ coordinating # "receive")

CoordProgress == AnnouncedStays /\ DueIsAnnounced /\ CancelEnds

\* Does not hold: no height is at once above the present one and reached.
UpgradeIsTriggered ==
  \A u \in UNION {UpgradesOf(r) : r \in Requests} :
    <>[](coordinating = "receive" /\ block >= u.height /\ u \in UpgradesOf(plan)) => <>reported

\* Does not hold: a chain that takes more than Window blocks between two polls,
\* or a file that fails to be written, and the upgrade is never announced.
NoneMissed ==
  [][\A u \in DueIn(plan, lastState) : lastState' # lastState /\ lastState \in 0..lastState'
       /\ lastState' >= u.height /\ coordinations' = coordinations => infoFile = u]_coordVars

\* Does not hold: the file of an upgrade is overwritten with the next one's
\* before the watcher has looked.
ReadBeforeReplaced == [][infoFile' = infoFile \/ infoFile \in watched \cup {NoInfo}]_coordVars

\* Does not hold: CreatePlan saves plans without upgrades, or with two of one
\* name, and LoadPlan refuses them.
CreatedIsLoadable == \A p \in planFiles : ValidPlan(p)

\* Does not hold: the goroutine that polls waits for a receiver that has returned.
PollingEnds == <>[](coordinating = "idle") => <>[](polling = "none")
=============================================================================
