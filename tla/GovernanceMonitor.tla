------------------------- MODULE GovernanceMonitor -------------------------
(***************************************************************************)
(* The governance monitor's view of the proposals:                         *)
(* internal/governance/monitor.go with proposals.go.  One goroutine        *)
(* fetches the lists of proposals, another asks for each active one, and   *)
(* ForceSync of the API fetches the lists as well.  Every request reads    *)
(* the chain (external) at a time of its own and may fail; its answer is   *)
(* applied later, under the tracker's mutex.                               *)
(*                                                                         *)
(* The third goroutine works on the queue of UpgradeScheduler.  Proposals  *)
(* of other types are left out: they are tracked in the same way, and      *)
(* neither announced nor scheduled.                                        *)
(***************************************************************************)
EXTENDS Naturals, Sequences

CONSTANTS
  Proposals,  \* the upgrade proposals
  Outcomes,   \* how votes may end
  Syncers,    \* API goroutines that call ForceSync
  MaxSyncs    \* bound: calls of ForceSync

ActiveStatuses == {"submitted", "voting"}
FinalStatuses  == {"passed", "rejected", "failed", "expired"}
Statuses       == ActiveStatuses \cup FinalStatuses

\* The lists that FetchLatest asks for, one after the other.
FetchOrder == <<"submitted", "voting", "passed", "rejected">>

Fetchers == {"monitorProposals"} \cup Syncers

ASSUME GovernanceAssumption ==
  /\ Outcomes \subseteq FinalStatuses
  /\ "monitorProposals" \notin Syncers
  /\ MaxSyncs \in Nat

VARIABLES
  chain,              \* the status of each proposal on the chain
  tracked,            \* pt.proposals: the status of the copy, "none" if there is none
  active, completed,  \* the keys of pt.activeProposals and pt.completedProposals
  fetcher,            \* where each FetchLatest is, or "gone"
  fetchNo, fetched,   \* the list it asks for next, and the statuses it got
  voting,             \* where monitorVoting is
  todo, seen,         \* what its GetActive returned, and the copies' statuses
  answer,             \* the proposal that GetProposal returned, and its status
  syncs,              \* calls of ForceSync so far
  stopping,           \* Stop: "no", "lock", "wait", "done"
  announced,          \* ghost: calls of NotifyNewProposal
  scheduled           \* the proposals given to ScheduleUpgrade

trackerVars == <<tracked, active, completed>>
fetchVars   == <<fetcher, fetchNo, fetched, syncs>>
voteVars    == <<voting, todo, seen, answer>>
ghostVars   == <<announced, scheduled>>
govVars     == <<chain, trackerVars, fetchVars, voteVars, stopping, ghostVars>>

NoAnswer == <<"none", "none">>

GovTypeOK ==
  /\ chain \in [Proposals -> Statuses \cup {"none"}]
  /\ tracked \in [Proposals -> Statuses \cup {"none"}]
  /\ active \subseteq Proposals /\ completed \subseteq Proposals
  /\ fetcher \in [Fetchers -> {"idle", "fetch", "gone"}]
  /\ fetchNo \in [Fetchers -> 1..Len(FetchOrder) + 1]
  /\ fetched \in [Fetchers -> [Proposals -> Statuses \cup {"none"}]]
  /\ voting \in {"idle", "ask", "apply", "gone"}
  /\ todo \subseteq Proposals
  /\ seen \in [Proposals -> Statuses \cup {"none"}]
  /\ answer \in {NoAnswer} \cup (Proposals \X (Statuses \cup {"none"}))
  /\ syncs \in 0..MaxSyncs
  /\ stopping \in {"no", "lock", "wait", "done"}
  /\ announced \in [Proposals -> Nat]
  /\ scheduled \subseteq Proposals

Nothing == [p \in Proposals |-> "none"]

\* Start has made the components and the goroutines.
GovInit ==
  /\ chain = Nothing
  /\ tracked = Nothing /\ active = {} /\ completed = {}
  /\ fetcher = [f \in Fetchers |-> "idle"]
  /\ fetchNo = [f \in Fetchers |-> 1]
  /\ fetched = [f \in Fetchers |-> Nothing]
  /\ voting = "idle" /\ todo = {} /\ seen = Nothing /\ answer = NoAnswer
  /\ syncs = 0 /\ stopping = "no"
  /\ announced = [p \in Proposals |-> 0] /\ scheduled = {}

Cancelled == stopping \in {"wait", "done"}

-----------------------------------------------------------------------------
(* The chain.                                                              *)

OnChain(p, from, to) ==
  /\ chain[p] = from
  /\ chain' = [chain EXCEPT ![p] = to]
  /\ UNCHANGED <<trackerVars, fetchVars, voteVars, stopping, ghostVars>>

ChainStep(p) ==
  \/ OnChain(p, "none", "submitted")
  \/ OnChain(p, "submitted", "voting")
  \/ \E s \in Outcomes : OnChain(p, "voting", s)

-----------------------------------------------------------------------------
(* The tracker's critical sections.                                        *)

\* The copies in dom are replaced by new ones: proposals and categories.
Update(dom, new) ==
  /\ tracked' = [p \in Proposals |-> IF p \in dom THEN new[p] ELSE tracked[p]]
  /\ active' = (active \ dom) \cup {p \in dom : new[p] \in ActiveStatuses}
  /\ completed' = (completed \ dom) \cup {p \in dom : new[p] \in FinalStatuses}

-----------------------------------------------------------------------------
(* FetchLatest, for monitorProposals and for ForceSync.                    *)

BeginFetch(f) ==
  /\ fetcher[f] = "idle"
  /\ fetcher' = [fetcher EXCEPT ![f] = "fetch"]
  /\ UNCHANGED <<chain, trackerVars, fetchNo, fetched, voteVars, stopping, ghostVars>>

\* A tick may win against the cancelled context.
CheckNewProposals == BeginFetch("monitorProposals") /\ UNCHANGED syncs

\* ForceSync holds m.mu for reading all the while.
ForceSync(f) ==
  /\ stopping \in {"no", "done"} /\ syncs < MaxSyncs
  /\ BeginFetch(f) /\ syncs' = syncs + 1

NextList(f) ==
  /\ fetcher[f] = "fetch" /\ fetchNo[f] <= Len(FetchOrder)
  /\ fetchNo' = [fetchNo EXCEPT ![f] = @ + 1]
  /\ UNCHANGED <<chain, trackerVars, fetcher, syncs, voteVars, stopping, ghostVars>>

ListArrives(f) ==
  /\ NextList(f)
  /\ fetched' = [fetched EXCEPT ![f] = [p \in Proposals |->
                   IF chain[p] = FetchOrder[fetchNo[f]] THEN chain[p] ELSE @[p]]]

ListFails(f) == NextList(f) /\ UNCHANGED fetched

Listed(f) == {p \in Proposals : fetched[f][p] # "none"}

Applied(f, news) ==
  /\ fetcher[f] = "fetch" /\ fetchNo[f] > Len(FetchOrder)
  /\ fetcher' = [fetcher EXCEPT ![f] = "idle"]
  /\ fetchNo' = [fetchNo EXCEPT ![f] = 1]
  /\ fetched' = [fetched EXCEPT ![f] = Nothing]
  /\ announced' = IF f \in Syncers THEN announced
                  ELSE [p \in Proposals |-> announced[p] + IF p \in news THEN 1 ELSE 0]
  /\ UNCHANGED <<chain, syncs, voteVars, stopping, scheduled>>

\* Mutant: a proposal is new unless it is being followed.
ApplyFetched_NewIfNotActive(f) ==
  /\ Applied(f, Listed(f) \ active)
  /\ Update(Listed(f), fetched[f])

\* The lists are applied in one critical section, the last entry of a proposal
\* after the others.  checkNewProposals then announces the new ones; Sync drops
\* its result.
ApplyFetched(f) ==
  /\ Applied(f, {p \in Listed(f) : tracked[p] = "none"})
  /\ Update(Listed(f), fetched[f])

-----------------------------------------------------------------------------
(* checkVotingProgress.                                                    *)

VotingOnly == UNCHANGED <<chain, fetchVars, stopping, announced>>

GetActive ==
  /\ voting = "idle" /\ active # {}
  /\ voting' = "ask"
  /\ todo' = active
  /\ seen' = [p \in Proposals |-> IF p \in active THEN tracked[p] ELSE "none"]
  /\ UNCHANGED <<answer, trackerVars, scheduled>> /\ VotingOnly

\* UpdateVotingStatus(p): GetProposal answers.
GetProposal(p) ==
  /\ voting = "ask" /\ p \in todo
  /\ voting' = "apply"
  /\ answer' = <<p, chain[p]>>
  /\ UNCHANGED <<todo, seen, trackerVars, scheduled>> /\ VotingOnly

Skipped(p) ==
  /\ voting = "ask" /\ p \in todo
  /\ todo' = todo \ {p}
  /\ seen' = [seen EXCEPT ![p] = "none"]
  /\ voting' = IF todo' = {} THEN "idle" ELSE "ask"
  /\ UNCHANGED <<answer, scheduled>> /\ VotingOnly

\* Mutant: a proposal that cannot be asked for is not followed any more.
GetProposalFails_Drops(p) ==
  Skipped(p) /\ active' = active \ {p} /\ UNCHANGED <<tracked, completed>>

\* GetProposal fails: the next one.
GetProposalFails(p) == Skipped(p) /\ UNCHANGED trackerVars

\* The critical section, and the test of the copy that GetActive returned.
UpdateVotingStatus ==
  /\ voting = "apply"
  /\ LET p == answer[1] IN
       /\ Update({p}, [q \in {p} |-> answer[2]])
       /\ scheduled' = IF seen[p] = "passed" THEN scheduled \cup {p} ELSE scheduled
       /\ todo' = todo \ {p} /\ seen' = [seen EXCEPT ![p] = "none"]
  /\ voting' = IF todo' = {} THEN "idle" ELSE "ask"
  /\ answer' = NoAnswer
  /\ VotingOnly

-----------------------------------------------------------------------------
(* Stop: m.mu, the cancelled context, and wg.Wait under the lock.          *)

StopOnly == UNCHANGED <<chain, trackerVars, fetchNo, fetched, syncs, todo, seen,
                        answer, ghostVars>>

StopBegin ==
  /\ stopping = "no" /\ stopping' = "lock"
  /\ UNCHANGED <<fetcher, voting>> /\ StopOnly

StopCancel ==
  /\ stopping = "lock" /\ \A f \in Syncers : fetcher[f] = "idle"
  /\ stopping' = "wait"
  /\ UNCHANGED <<fetcher, voting>> /\ StopOnly

FetcherExits ==
  /\ Cancelled /\ fetcher["monitorProposals"] = "idle"
  /\ fetcher' = [fetcher EXCEPT !["monitorProposals"] = "gone"]
  /\ UNCHANGED <<voting, stopping>> /\ StopOnly

VotingExits ==
  /\ Cancelled /\ voting = "idle"
  /\ voting' = "gone"
  /\ UNCHANGED <<fetcher, stopping>> /\ StopOnly

\* Mutant: Stop does not wait for the goroutine that asks for votes.
StopReturn_Early ==
  /\ stopping = "wait" /\ fetcher["monitorProposals"] = "gone"
  /\ stopping' = "done"
  /\ UNCHANGED <<fetcher, voting>> /\ StopOnly

StopReturn ==
  /\ stopping = "wait"
  /\ fetcher["monitorProposals"] = "gone" /\ voting = "gone"
  /\ stopping' = "done"
  /\ UNCHANGED <<fetcher, voting>> /\ StopOnly

-----------------------------------------------------------------------------

Fetch(f) == ListArrives(f) \/ ListFails(f) \/ ApplyFetched(f)
CheckVotingProgress == (\E p \in Proposals : GetProposal(p) \/ GetProposalFails(p))
                       \/ UpdateVotingStatus

GovNext ==
  \/ \E p \in Proposals : ChainStep(p)
  \/ CheckNewProposals \/ \E f \in Syncers : ForceSync(f)
  \/ \E f \in Fetchers : Fetch(f)
  \/ GetActive \/ CheckVotingProgress
  \/ StopBegin \/ StopCancel \/ FetcherExits \/ VotingExits \/ StopReturn

GovSpec == GovInit /\ [][GovNext]_govVars

-----------------------------------------------------------------------------
(* Properties.                                                             *)

\* GetProposals and the voting goroutine look at the categories, the rest at
\* the copies: the two agree, whatever fetches and votes were interleaved.
Categorised ==
  /\ active = {p \in Proposals : tracked[p] \in ActiveStatuses}
  /\ completed = {p \in Proposals : tracked[p] \in FinalStatuses}

\* However often lists overlap with a ForceSync and repeat what is known,
\* operators are told of a new upgrade proposal once.
AnnouncedOnce == \A p \in Proposals : announced[p] <= 1

\* Overlapping fetches and votes neither tear the tracker nor repeat themselves.
TrackerInv == GovTypeOK /\ Categorised /\ AnnouncedOnce

\* An answer may be applied after a newer one, so that a proposal comes back to
\* life; but once its vote has ended, a proposal that is followed is seen to
\* have ended, for good, the outcomes that FetchLatest never asks for included.
Settles == \A p \in Proposals :
  <>[](\/ Cancelled
       \/ tracked[p] # "none" /\ chain[p] \in FinalStatuses => tracked[p] = chain[p])

\* After Stop the goroutines change nothing and announce nothing; what changes
\* is ForceSync's doing.
QuietAfterStop ==
  [][stopping = "done" =>
       /\ UNCHANGED <<announced, scheduled>>
       /\ (\A f \in Syncers : fetcher[f] = "idle") => UNCHANGED trackerVars]_govVars

\* Stop returns, though it holds m.mu while it waits for the goroutines and for
\* the ForceSync before it.
MonitorStops == []<>(stopping \notin {"lock", "wait"})

\* Stop returns and is final.
StopIsFinal == MonitorStops /\ QuietAfterStop

-----------------------------------------------------------------------------
(* What the documentation says and the code does not do.                   *)

\* docs/governance.md:58, "Manages software upgrade scheduling based on passed
\* proposals": a passed proposal is scheduled.
PassedIsScheduled == \A p \in Proposals :
  tracked[p] = "passed" ~> (p \in scheduled \/ stopping # "no")
=============================================================================
