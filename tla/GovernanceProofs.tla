-------------------------- MODULE GovernanceProofs --------------------------
(***************************************************************************)
(* Theorems about the governance side: the proposals that are tracked      *)
(* (GovernanceMonitor), the queue of upgrades (UpgradeScheduler), the      *)
(* notifications (Notifier), the plans (UpgradeCoordinator) and what is    *)
(* downloaded for them (BinaryDownload), each for any of its constants.    *)
(***************************************************************************)
EXTENDS GovernanceMonitor, UpgradeScheduler, Notifier, UpgradeCoordinator,
        BinaryDownload, FiniteSetTheorems, SequenceTheorems, WellFoundedInduction, TLAPS

-----------------------------------------------------------------------------
(***************************************************************************)
(* The binary downloader, for any binaries, retries, calls and faults,     *)
(* with and without UnsafeSkipChecksum: DownloadInv, and that what is      *)
(* installed stays.                                                        *)
(*                                                                         *)
(* A call that has ensured a binary looks at it no more, and what does not *)
(* verify is removed before the call goes on or returns: an unverified     *)
(* file is there only between rename and verification.                     *)
(***************************************************************************)

Downloading == {"checksum", "request", "copy", "rename", "chmod", "verify"}

\* Nothing but the server has failed so far.
Clean == ~ SkipChecksum /\ mishaps \cap {"crash", "chmod"} = {}

Types ==
  /\ DownloadTypeOK
  /\ prepare \in Seq(Binaries) /\ at \in {"idle", "stat"} \cup Downloading
  /\ ensured \subseteq Binaries

\* What is at UpgradeBin, and why what is ensured is verified.
Binary ==
  /\ \A u \in Binaries : tmp[u] # "installed"
  /\ ~ SkipChecksum => checked
  /\ Clean =>
       /\ Verified(ensured)
       /\ at \in Downloading => Upgrade \notin ensured
       /\ \A u \in Binaries :
            \/ bin[u] \in {"absent", "good", "installed"}
            \/ at \in {"chmod", "verify"} /\ u = Upgrade
  /\ "operator" \notin mishaps /\ at \in Downloading => bin[Upgrade] # "installed"

\* A temporary file is that of the download under way.
Temporary ==
  "crash" \in mishaps \/ \A u \in Binaries :
    tmp[u] = "absent" \/ (u = Upgrade /\ at \in {"request", "copy", "rename"})

DownloadIInv == Types /\ Binary /\ Temporary

-----------------------------------------------------------------------------

\* The upgrade in hand is one, and the plan goes on behind it.
LEMMA InHand ==
  ASSUME Types, at # "idle"
  PROVE  /\ Upgrade \in Binaries /\ Tail(prepare) \in Seq(Binaries)
         /\ Len(prepare) = 1 <=> Tail(prepare) = <<>>
<1>1. prepare \in Seq(Binaries) /\ prepare # <<>>
  BY DEF Types, DownloadTypeOK
<1>2. Len(prepare) \in Nat \ {0} /\ Head(prepare) \in Binaries
      /\ Tail(prepare) \in Seq(Binaries) /\ Len(Tail(prepare)) = Len(prepare) - 1
  BY <1>1
<1>3. Len(Tail(prepare)) = 0 <=> Tail(prepare) = <<>>
  BY <1>2
<1>4. QED  BY <1>2, <1>3 DEF Upgrade

LEMMA DownloadInitial == DownloadInit => DownloadIInv
BY DownloadAssumption
   DEF DownloadInit, DownloadIInv, Types, DownloadTypeOK, Binary, Temporary, Clean, Verified,
       Downloading, Files

LEMMA PrepareStep ==
  ASSUME DownloadIInv, Prepare
  PROVE  DownloadIInv'
<1> USE DEF Prepare, diskVars
<1>1. PICK us \in {<<u>> : u \in Binaries} \cup {<<u, v>> : u \in Binaries, v \in Binaries} :
        prepare' = us
  OBVIOUS
<1>2. prepare' \in Seq(Binaries) /\ prepare' # <<>>
  <2>1. CASE \E u \in Binaries : us = <<u>>
    BY <1>1, <2>1
  <2>2. CASE \E u, v \in Binaries : us = <<u, v>>
    BY <1>1, <2>2
  <2>3. QED  BY <2>1, <2>2
<1>3. Types'
  BY <1>2 DEF DownloadIInv, Types, DownloadTypeOK
<1>4. Binary' /\ Temporary'
  BY DEF DownloadIInv, Types, Binary, Temporary, Clean, Verified, Downloading
<1>5. QED  BY <1>3, <1>4 DEF DownloadIInv

\* EnsureUpgradeBinary returns nil with a verified binary in place.
LEMMA EnsuredStep ==
  ASSUME DownloadIInv, at # "idle", Ensured,
         UNCHANGED <<bin, tmp, checked, attempt, checksum, mishaps>>,
         Clean => bin[Upgrade] \in {"good", "installed"},
         at \notin {"request", "copy", "rename"}
  PROVE  DownloadIInv'
<1> USE InHand DEF Ensured
<1>1. Types'
  BY DEF DownloadIInv, Types, DownloadTypeOK
<1>2. Binary'
  BY DEF DownloadIInv, Types, Binary, Clean, Verified, Downloading
<1>3. Temporary'
  BY DEF DownloadIInv, Types, Temporary
<1>4. QED  BY <1>1, <1>2, <1>3 DEF DownloadIInv

\* DownloadAndVerify fails: no temporary file is left, and an unverified binary
\* only when chmod failed.
LEMMA FailureStep ==
  ASSUME DownloadIInv, at # "idle",
         (Refused /\ UNCHANGED <<checked, attempt>>) \/ (at \in Downloading /\ VerifyFailed),
         checksum' = checksum, mishaps \subseteq mishaps', mishaps' \subseteq Faults,
         "operator" \in mishaps' => "operator" \in mishaps,
         bin' = bin \/ bin' = [bin EXCEPT ![Upgrade] = "absent"],
         tmp' = tmp \/ tmp' = [tmp EXCEPT ![Upgrade] = "absent"],
         at \in {"request", "copy", "rename"} => tmp' = [tmp EXCEPT ![Upgrade] = "absent"],
         Clean' /\ at \in {"chmod", "verify"} => bin' = [bin EXCEPT ![Upgrade] = "absent"],
         at \in Downloading \/ bin' = bin
  PROVE  DownloadIInv'
<1> USE InHand
<1>0. \/ at' = "idle" /\ prepare' = <<>> /\ UNCHANGED <<ensured, checked, attempt>>
      \/ /\ SkipChecksum /\ at \in Downloading /\ at' = "request" /\ checked' = FALSE
         /\ attempt' = 0 /\ UNCHANGED <<prepare, ensured>>
  BY DEF Refused, VerifyFailed
<1>1. Types'
  <2>1. bin' \in [Binaries -> Files] /\ tmp' \in [Binaries -> Files]
    BY DEF DownloadIInv, Types, DownloadTypeOK, Files
  <2>2. attempt' \in 0..(MaxRetries - 1)
    BY <1>0, DownloadAssumption DEF DownloadIInv, Types, DownloadTypeOK
  <2>3. prepare' \in Seq(Binaries) /\ (prepare' = <<>> <=> at' = "idle")
    <3>1. prepare \in Seq(Binaries) /\ prepare # <<>>
      BY DEF DownloadIInv, Types, DownloadTypeOK
    <3>2. <<>> \in Seq(Binaries)
      OBVIOUS
    <3>3. QED  BY <1>0, <3>1, <3>2
  <2>4. QED  BY <1>0, <2>1, <2>2, <2>3 DEF DownloadIInv, Types, DownloadTypeOK, Downloading
<1>2. ASSUME NEW u \in Binaries
      PROVE  tmp'[u] # "installed" /\ (bin'[u] = bin[u] \/ (u = Upgrade /\ bin'[u] = "absent"))
  <2>1. tmp[u] # "installed" /\ tmp \in [Binaries -> Files] /\ bin \in [Binaries -> Files]
    BY DEF DownloadIInv, Types, DownloadTypeOK, Binary
  <2>2. CASE u = Upgrade   BY <2>1, <2>2
  <2>3. CASE u # Upgrade  BY <2>1, <2>3
  <2>4. QED  BY <2>2, <2>3
<1>3. CASE at' = "idle"
  <2>1. checked' = checked /\ ensured' = ensured /\ (Clean' => Clean)
    BY <1>0, <1>3 DEF Clean
  <2>2. ASSUME Clean'
        PROVE  /\ Verified(ensured)'
               /\ \A u \in Binaries : bin'[u] \in {"absent", "good", "installed"}
    <3>1. bin' = bin \/ Upgrade \notin ensured
      <4>1. CASE at \in Downloading
        BY <2>1, <2>2, <4>1 DEF DownloadIInv, Binary
      <4>2. CASE bin' = bin
        BY <4>2
      <4>3. QED  BY <4>1, <4>2
    <3>2. QED  BY <1>2, <2>1, <2>2, <3>1 DEF DownloadIInv, Types, DownloadTypeOK, Binary, Verified
  <2>3. Binary'
    BY <1>2, <1>3, <2>1, <2>2 DEF DownloadIInv, Binary, Downloading
  <2>4. Temporary'
    BY <1>3 DEF DownloadIInv, Types, DownloadTypeOK, Temporary
  <2>5. QED  BY <1>1, <2>3, <2>4 DEF DownloadIInv
<1>4. CASE at' = "request"
  BY <1>0, <1>1, <1>2, <1>4 DEF DownloadIInv, Types, DownloadTypeOK, Binary, Temporary, Clean,
       Downloading, Upgrade
<1>5. QED  BY <1>0, <1>3, <1>4

-----------------------------------------------------------------------------
(* The steps of a download.                                                *)

LEMMA StatStep ==
  ASSUME DownloadIInv, EnsureUpgradeBinary
  PROVE  DownloadIInv'
<1> USE DEF EnsureUpgradeBinary, diskVars
<1>1. CASE bin[Upgrade] # "absent" /\ Ensured /\ UNCHANGED <<checked, attempt>>
  <2>1. Clean => bin[Upgrade] \in {"good", "installed"}
    BY <1>1, InHand DEF DownloadIInv, Binary
  <2>2. QED  BY <1>1, <2>1, EnsuredStep
<1>2. CASE bin[Upgrade] = "absent" /\ Refused /\ UNCHANGED <<checked, attempt>>
  BY <1>2, FailureStep DEF DownloadIInv, Types, DownloadTypeOK, Downloading
<1>3. CASE /\ bin[Upgrade] = "absent" /\ AllowDownload
           /\ at' = "checksum" /\ checked' = TRUE /\ attempt' = 0 /\ UNCHANGED <<prepare, ensured>>
  <2>1. Types'
    BY <1>3, DownloadAssumption DEF DownloadIInv, Types, DownloadTypeOK, Downloading
  <2>2. Clean => Upgrade \notin ensured
    BY <1>3, InHand DEF DownloadIInv, Binary, Verified
  <2>3. Binary' /\ Temporary'
    BY <1>3, <2>2 DEF DownloadIInv, Binary, Temporary, Clean, Verified, Downloading, Upgrade
  <2>4. QED  BY <2>1, <2>3 DEF DownloadIInv
<1>4. QED  BY <1>1, <1>2, <1>3

LEMMA FetchStep ==
  ASSUME DownloadIInv, FetchChecksum
  PROVE  DownloadIInv'
<1> USE DEF FetchChecksum, diskVars
<1>1. CASE checksum' \in {"good", "odd"} /\ at' = "request" /\ UNCHANGED <<prepare, ensured, checked, attempt>>
  BY <1>1 DEF DownloadIInv, Types, DownloadTypeOK, Binary, Temporary, Clean, Verified, Downloading, Upgrade
<1>2. CASE VerifyFailed /\ UNCHANGED checksum
  BY <1>2, FailureStep DEF DownloadIInv, Types, DownloadTypeOK, Downloading
<1>3. QED  BY <1>1, <1>2

LEMMA AttemptStep ==
  ASSUME DownloadIInv, at \in {"request", "copy"}, AttemptFails,
         UNCHANGED <<bin, checksum, prepares, mishaps>>
  PROVE  DownloadIInv'
<1>1. CASE attempt + 1 < MaxRetries
  BY <1>1, DownloadAssumption
     DEF AttemptFails, DownloadIInv, Types, DownloadTypeOK, Binary, Temporary, Clean, Verified,
         Downloading, Upgrade
<1>2. CASE ~ (attempt + 1 < MaxRetries)
  BY <1>2, FailureStep DEF AttemptFails, DownloadIInv, Types, DownloadTypeOK, Downloading
<1>3. QED  BY <1>1, <1>2

\* The temporary file is written.
LEMMA WriteStep ==
  ASSUME DownloadIInv, at \in {"request", "copy"}, NEW f \in {"partial", "good", "corrupt"},
         tmp' = [tmp EXCEPT ![Upgrade] = f], at' \in {"copy", "rename"},
         UNCHANGED <<bin, prepare, ensured, checked, attempt, checksum, mishaps>>
  PROVE  DownloadIInv'
<1>1. Types'
  BY DEF DownloadIInv, Types, DownloadTypeOK, Files, Downloading
<1>2. Binary' /\ Temporary'
  BY InHand DEF DownloadIInv, Types, DownloadTypeOK, Binary, Temporary, Clean, Verified,
                Downloading, Upgrade
<1>3. QED  BY <1>1, <1>2 DEF DownloadIInv

LEMMA TransferStep ==
  ASSUME DownloadIInv, Request \/ Copy
  PROVE  DownloadIInv'
BY AttemptStep, WriteStep DEF Request, Copy

LEMMA RenameStep ==
  ASSUME DownloadIInv, Rename
  PROVE  DownloadIInv'
<1> USE DEF Rename
<1>1. CASE /\ bin' = [bin EXCEPT ![Upgrade] = tmp[Upgrade]] /\ at' = "chmod"
           /\ UNCHANGED <<prepare, ensured, checked, attempt>>
  <2>1. Upgrade \in Binaries /\ Upgrade' = Upgrade
    BY <1>1, InHand DEF DownloadIInv, Upgrade
  <2>2. Types'
    BY <1>1, <2>1 DEF DownloadIInv, Types, DownloadTypeOK, Files, Downloading
  <2>3. Binary'
    BY <1>1, <2>1 DEF DownloadIInv, Types, DownloadTypeOK, Binary, Clean, Verified, Downloading
  <2>4. Temporary'
    BY <1>1, <2>1 DEF DownloadIInv, Types, DownloadTypeOK, Temporary
  <2>5. QED  BY <2>2, <2>3, <2>4 DEF DownloadIInv
<1>2. CASE VerifyFailed /\ UNCHANGED bin
  BY <1>2, FailureStep DEF DownloadIInv, Types, DownloadTypeOK, Downloading
<1>3. QED  BY <1>1, <1>2

LEMMA ChmodStep ==
  ASSUME DownloadIInv, Chmod
  PROVE  DownloadIInv'
<1> USE DEF Chmod, diskVars
<1>1. CASE checked /\ at' = "verify" /\ UNCHANGED <<prepare, ensured, checked, attempt, mishaps>>
  BY <1>1 DEF DownloadIInv, Types, DownloadTypeOK, Binary, Temporary, Clean, Verified,
              Downloading, Upgrade
<1>2. CASE ~ checked /\ Ensured /\ UNCHANGED <<checked, attempt, mishaps>>
  BY <1>2, EnsuredStep DEF DownloadIInv, Binary, Clean
<1>3. CASE Happens("chmod") /\ VerifyFailed
  <2>1. mishaps \subseteq mishaps' /\ mishaps' \subseteq Faults /\ ~ Clean'
        /\ ("operator" \in mishaps' => "operator" \in mishaps)
    BY <1>3 DEF Happens, DownloadIInv, Types, DownloadTypeOK, Clean
  <2>2. QED  BY <1>3, <2>1, FailureStep DEF Downloading
<1>4. QED  BY <1>1, <1>2, <1>3

LEMMA VerifyStep ==
  ASSUME DownloadIInv, VerifyChecksum
  PROVE  DownloadIInv'
<1> USE DEF VerifyChecksum
<1>1. CASE bin[Upgrade] = "good" /\ checksum = "good"
  BY <1>1, EnsuredStep
<1>2. CASE ~ (bin[Upgrade] = "good" /\ checksum = "good")
  BY <1>2, FailureStep DEF DownloadIInv, Types, DownloadTypeOK, Downloading
<1>3. QED  BY <1>1, <1>2

LEMMA FaultStep ==
  ASSUME DownloadIInv, Crash \/ \E u \in Binaries : OperatorInstalls(u)
  PROVE  DownloadIInv'
<1>1. CASE Crash
  BY <1>1 DEF Crash, Happens, diskVars, DownloadIInv, Types, DownloadTypeOK, Binary, Temporary,
              Clean, Downloading
<1>2. ASSUME NEW u \in Binaries, OperatorInstalls(u)
      PROVE  DownloadIInv'
  <2> USE <1>2 DEF OperatorInstalls, Happens
  <2>1. Types' /\ Temporary'
    BY DEF DownloadIInv, Types, DownloadTypeOK, Temporary, Files, Upgrade
  <2>2. Binary'
    BY DEF DownloadIInv, Types, DownloadTypeOK, Binary, Clean, Verified, Upgrade
  <2>3. QED  BY <2>1, <2>2 DEF DownloadIInv
<1>3. QED  BY <1>1, <1>2

-----------------------------------------------------------------------------
(* The theorems.                                                           *)

LEMMA DownloadStep == DownloadIInv /\ [DownloadNext]_downloadVars => DownloadIInv'
<1> SUFFICES ASSUME DownloadIInv, [DownloadNext]_downloadVars PROVE DownloadIInv'
  OBVIOUS
<1>1. CASE DownloadNext
  BY <1>1, PrepareStep, StatStep, FetchStep, TransferStep, RenameStep, ChmodStep, VerifyStep,
     FaultStep DEF DownloadNext, Download
<1>2. CASE UNCHANGED downloadVars
  BY <1>2 DEF downloadVars, diskVars, DownloadIInv, Types, DownloadTypeOK, Binary, Temporary,
              Clean, Verified, Upgrade
<1>3. QED  BY <1>1, <1>2

LEMMA DownloadInductive == DownloadSpec => []DownloadIInv
<1>1. QED  BY DownloadInitial, DownloadStep, PTL DEF DownloadSpec

\* DownloadInv: a call that succeeds has left verified binaries, whatever failed
\* on the way, and no temporary file outlives a call (EnsureUpgradeBinary).
THEOREM DownloadInvariant == DownloadSpec => []DownloadInv
<1>1. DownloadIInv => DownloadInv
  BY DEF DownloadIInv, Types, Binary, Temporary, DownloadInv, EnsuredIsVerified, NoDebris, Clean
<1>2. QED  BY <1>1, DownloadInductive, PTL

\* InstalledStays: no step replaces or removes a binary that was installed before
\* the call (EnsureUpgradeBinary looks first, DownloadBinary renames later).
THEOREM InstalledIsKept == DownloadSpec => InstalledStays
<1>1. ASSUME DownloadIInv, [DownloadNext]_downloadVars, NEW u \in Binaries,
             bin[u] = "installed", "operator" \notin mishaps
      PROVE  bin'[u] = "installed"
  <2>1. CASE Rename \/ VerifyChecksum
    <3>1. u # Upgrade
      BY <1>1, <2>1 DEF DownloadIInv, Binary, Downloading, Rename, VerifyChecksum
    <3>2. QED
      BY <1>1, <2>1, <3>1 DEF DownloadIInv, Types, DownloadTypeOK, Rename, VerifyChecksum
  <2>2. CASE \E v \in Binaries : OperatorInstalls(v)
    BY <1>1, <2>2 DEF OperatorInstalls, DownloadIInv, Types, DownloadTypeOK
  <2>3. CASE UNCHANGED bin
    BY <1>1, <2>3
  <2>4. QED
    BY <1>1, <2>1, <2>2, <2>3
       DEF DownloadNext, Download, Prepare, EnsureUpgradeBinary, FetchChecksum, Request, Copy,
           Chmod, Crash, diskVars, downloadVars
<1>2. DownloadIInv /\ [DownloadNext]_downloadVars =>
        [\A u \in Binaries : bin[u] = "installed" /\ "operator" \notin mishaps
                                => bin'[u] = "installed"]_downloadVars
  BY <1>1
<1>3. QED  BY <1>2, DownloadInductive, PTL DEF InstalledStays, DownloadSpec

-----------------------------------------------------------------------------
(***************************************************************************)
(* The governance monitor, for any proposals and bounds: TrackerInv, and   *)
(* that only a ForceSync changes the tracker once Stop has returned.       *)
(*                                                                         *)
(* All that is tracked, fetched or answered is on the chain, where a       *)
(* proposal stays, and what was announced is tracked.                      *)
(***************************************************************************)

\* What the monitor has heard of is on the chain, where a proposal stays; so that
\* a copy is never replaced by that of a proposal the chain does not have.
Heard ==
  /\ \A p \in Proposals : tracked[p] # "none" \/ p \in todo => chain[p] # "none"
  /\ \A f \in Fetchers, p \in Proposals : fetched[f][p] # "none" => chain[p] # "none"
  /\ voting = "apply" =>
       answer[1] \in Proposals /\ answer[2] \in Statuses /\ chain[answer[1]] # "none"

\* What has been announced is tracked, and what is tracked is not new again.
AnnouncedIsTracked ==
  \A p \in Proposals : announced[p] <= 1 /\ (announced[p] # 0 => tracked[p] # "none")

Stopped == stopping = "done" => fetcher["monitorProposals"] = "gone" /\ voting = "gone"

TrackerIInv == GovTypeOK /\ Categorised /\ Heard /\ AnnouncedIsTracked /\ Stopped

LEMMA FetchOrderFacts == Len(FetchOrder) = 4 /\ \A i \in 1..4 : FetchOrder[i] \in Statuses
BY DEF FetchOrder, Statuses, ActiveStatuses, FinalStatuses

LEMMA StatusFacts ==
  "none" \notin Statuses /\ ActiveStatuses \cap FinalStatuses = {}
BY DEF Statuses, ActiveStatuses, FinalStatuses

LEMMA TrackerInitial == GovInit => TrackerIInv
<1> SUFFICES ASSUME GovInit PROVE TrackerIInv
  OBVIOUS
<1> USE GovernanceAssumption, FetchOrderFacts DEF GovInit, Nothing
<1>1. GovTypeOK
  BY DEF GovTypeOK
<1>2. Categorised
  BY DEF Categorised, ActiveStatuses, FinalStatuses
<1>3. Heard /\ AnnouncedIsTracked /\ Stopped
  BY DEF Heard, AnnouncedIsTracked, Stopped
<1>4. QED  BY <1>1, <1>2, <1>3 DEF TrackerIInv

\* A critical section of the tracker keeps proposals and categories together.
LEMMA UpdateFacts ==
  ASSUME TrackerIInv, NEW dom \in SUBSET Proposals, NEW new,
         \A p \in dom : new[p] \in Statuses, Update(dom, new)
  PROVE  /\ tracked' \in [Proposals -> Statuses \cup {"none"}]
         /\ active' \subseteq Proposals /\ completed' \subseteq Proposals
         /\ Categorised'
         /\ \A p \in Proposals : tracked'[p] = IF p \in dom THEN new[p] ELSE tracked[p]
         /\ \A p \in Proposals : tracked[p] # "none" => tracked'[p] # "none"
<1> USE DEF TrackerIInv, GovTypeOK, Update
<1>1. \A p \in Proposals : tracked'[p] = IF p \in dom THEN new[p] ELSE tracked[p]
  OBVIOUS
<1>2. tracked' \in [Proposals -> Statuses \cup {"none"}]
  OBVIOUS
<1>3. active' \subseteq Proposals /\ completed' \subseteq Proposals
  OBVIOUS
<1>4. Categorised'
  BY <1>1 DEF Categorised
<1>5. QED  BY <1>1, <1>2, <1>3, <1>4, StatusFacts

LEMMA ChainSteps == 
  ASSUME TrackerIInv, NEW p \in Proposals, ChainStep(p)
  PROVE  TrackerIInv'
<1>1. PICK s \in Statuses : chain' = [chain EXCEPT ![p] = s]
  BY GovernanceAssumption DEF ChainStep, OnChain, Statuses, ActiveStatuses, FinalStatuses
<1>2. UNCHANGED <<trackerVars, fetchVars, voteVars, stopping, ghostVars>>
  BY DEF ChainStep, OnChain
<1> USE DEF trackerVars, fetchVars, voteVars, ghostVars, TrackerIInv
<1>3. GovTypeOK'
  BY <1>1, <1>2 DEF GovTypeOK
<1>4. Heard'
  BY <1>1, <1>2, StatusFacts DEF Heard, GovTypeOK
<1>5. Categorised' /\ AnnouncedIsTracked' /\ Stopped'
  BY <1>2 DEF Categorised, AnnouncedIsTracked, Stopped
<1>6. QED  BY <1>3, <1>4, <1>5

LEMMA BeginSteps ==
  ASSUME TrackerIInv, CheckNewProposals \/ \E f \in Syncers : ForceSync(f)
  PROVE  TrackerIInv'
<1>1. PICK f \in Fetchers : BeginFetch(f) /\ syncs' \in 0..MaxSyncs
  <2>1. syncs \in 0..MaxSyncs /\ MaxSyncs \in Nat
    BY GovernanceAssumption DEF TrackerIInv, GovTypeOK
  <2>2. CASE CheckNewProposals
    BY <2>1, <2>2 DEF CheckNewProposals, Fetchers
  <2>3. ASSUME NEW f \in Syncers, ForceSync(f)
        PROVE  f \in Fetchers /\ BeginFetch(f) /\ syncs' \in 0..MaxSyncs
    BY <2>1, <2>3 DEF ForceSync, Fetchers
  <2>4. QED  BY <2>2, <2>3
<1> USE DEF trackerVars, voteVars, ghostVars, TrackerIInv
<1>2. UNCHANGED <<chain, tracked, active, completed, fetchNo, fetched, voting, todo, seen, answer,
                  stopping, announced, scheduled>>
  BY <1>1 DEF BeginFetch
<1>3. GovTypeOK'
  <2>1. fetcher' \in [Fetchers -> {"idle", "fetch", "gone"}]
    BY <1>1 DEF GovTypeOK, BeginFetch
  <2>2. QED  BY <1>1, <1>2, <2>1 DEF GovTypeOK
<1>4. Stopped'
  BY <1>1, <1>2 DEF Stopped, BeginFetch, GovTypeOK
<1>5. Heard' /\ Categorised' /\ AnnouncedIsTracked'
  BY <1>2 DEF Heard, Categorised, AnnouncedIsTracked
<1>6. QED  BY <1>3, <1>4, <1>5

LEMMA ListSteps ==
  ASSUME TrackerIInv, NEW f \in Fetchers, ListArrives(f) \/ ListFails(f)
  PROVE  TrackerIInv'
<1> USE DEF trackerVars, voteVars, ghostVars, TrackerIInv
<1>1. /\ UNCHANGED <<chain, tracked, active, completed, fetcher, syncs, voting, todo, seen, answer,
                     stopping, announced, scheduled>>
      /\ fetchNo' \in [Fetchers -> 1..Len(FetchOrder) + 1]
  BY FetchOrderFacts DEF ListArrives, ListFails, NextList, GovTypeOK
<1>2. /\ fetched' \in [Fetchers -> [Proposals -> Statuses \cup {"none"}]]
      /\ \A g \in Fetchers, p \in Proposals : fetched'[g][p] # "none" => chain[p] # "none"
  <2>1. CASE ListFails(f)
    BY <2>1 DEF ListFails, GovTypeOK, Heard
  <2>2. CASE ListArrives(f)
    <3>1. fetchNo[f] \in 1..4
      BY <2>2, FetchOrderFacts DEF ListArrives, NextList, GovTypeOK
    <3>2. FetchOrder[fetchNo[f]] \in Statuses /\ "none" \notin Statuses
      BY <3>1, FetchOrderFacts, StatusFacts
    <3>3. QED  BY <2>2, <3>2 DEF ListArrives, GovTypeOK, Heard
  <2>3. QED  BY <2>1, <2>2
<1>3. GovTypeOK'
  BY <1>1, <1>2 DEF GovTypeOK
<1>4. Heard'
  BY <1>1, <1>2 DEF Heard
<1>5. Categorised' /\ AnnouncedIsTracked' /\ Stopped'
  BY <1>1 DEF Categorised, AnnouncedIsTracked, Stopped
<1>6. QED  BY <1>3, <1>4, <1>5

LEMMA ApplySteps ==
  ASSUME TrackerIInv, NEW f \in Fetchers, ApplyFetched(f)
  PROVE  TrackerIInv'
<1> DEFINE news == {p \in Listed(f) : tracked[p] = "none"}
<1> USE DEF voteVars, TrackerIInv
<1>1. /\ UNCHANGED <<chain, syncs, voting, todo, seen, answer, stopping, scheduled>>
      /\ fetcher[f] = "fetch" /\ fetcher' = [fetcher EXCEPT ![f] = "idle"]
      /\ fetchNo' = [fetchNo EXCEPT ![f] = 1] /\ fetched' = [fetched EXCEPT ![f] = Nothing]
      /\ Update(Listed(f), fetched[f])
  BY DEF ApplyFetched, Applied
<1>2. Listed(f) \subseteq Proposals /\ \A p \in Listed(f) : fetched[f][p] \in Statuses
  BY DEF Listed, GovTypeOK
<1>3. /\ tracked' \in [Proposals -> Statuses \cup {"none"}]
      /\ active' \subseteq Proposals /\ completed' \subseteq Proposals
      /\ Categorised'
      /\ \A p \in Proposals : tracked'[p] = IF p \in Listed(f) THEN fetched[f][p] ELSE tracked[p]
      /\ \A p \in Proposals : tracked[p] # "none" => tracked'[p] # "none"
  BY <1>1, <1>2, UpdateFacts
<1>4. /\ announced' \in [Proposals -> Nat]
      /\ \A p \in Proposals : announced'[p] \in {announced[p], announced[p] + IF p \in news THEN 1 ELSE 0}
  <2>1. announced \in [Proposals -> Nat]
    BY DEF GovTypeOK
  <2>2. \/ announced' = announced
        \/ announced' = [p \in Proposals |-> announced[p] + IF p \in news THEN 1 ELSE 0]
    BY DEF ApplyFetched, Applied
  <2>3. QED  BY <2>1, <2>2
<1>5. AnnouncedIsTracked'
  <2>1. ASSUME NEW p \in Proposals
        PROVE  announced'[p] <= 1 /\ (announced'[p] # 0 => tracked'[p] # "none")
    <3>1. announced[p] \in Nat /\ announced[p] <= 1 /\ (announced[p] # 0 => tracked[p] # "none")
      BY DEF AnnouncedIsTracked, GovTypeOK
    <3>2. CASE p \in news
      <4>1. tracked[p] = "none" /\ tracked'[p] # "none"
        BY <3>2, <1>2, <1>3, StatusFacts
      <4>2. QED  BY <3>1, <4>1, <1>4
    <3>3. CASE p \notin news
      <4>1. announced'[p] = announced[p]
        BY <3>1, <3>3, <1>4
      <4>2. QED  BY <3>1, <4>1, <1>3
    <3>4. QED  BY <3>2, <3>3
  <2>2. QED  BY <2>1 DEF AnnouncedIsTracked
<1>6. /\ fetched' \in [Fetchers -> [Proposals -> Statuses \cup {"none"}]]
      /\ \A g \in Fetchers, p \in Proposals : fetched'[g][p] # "none" => fetched[g][p] # "none"
  BY <1>1 DEF GovTypeOK, Nothing
<1>7. GovTypeOK'
  <2>1. fetchNo' \in [Fetchers -> 1..Len(FetchOrder) + 1]
    BY <1>1, FetchOrderFacts DEF GovTypeOK
  <2>2. fetcher' \in [Fetchers -> {"idle", "fetch", "gone"}]
    BY <1>1 DEF GovTypeOK
  <2>3. QED  BY <1>1, <1>3, <1>4, <1>6, <2>1, <2>2 DEF GovTypeOK
<1>8. Heard'
  BY <1>1, <1>2, <1>3, <1>6 DEF Heard, Listed
<1>9. Stopped'
  BY <1>1 DEF Stopped, GovTypeOK
<1>10. QED  BY <1>3, <1>5, <1>7, <1>8, <1>9

LEMMA VotingSteps ==
  ASSUME TrackerIInv, GetActive \/ \E p \in Proposals : GetProposal(p) \/ GetProposalFails(p)
  PROVE  TrackerIInv'
<1> USE DEF TrackerIInv, VotingOnly, fetchVars, trackerVars
<1>1. /\ UNCHANGED <<chain, tracked, active, completed, fetcher, fetchNo, fetched, syncs, stopping,
                     announced, scheduled>>
      /\ voting \in {"idle", "ask"} /\ voting' \in {"idle", "ask", "apply"}
  BY DEF GetActive, GetProposal, GetProposalFails, Skipped
<1>2. /\ todo' \subseteq Proposals /\ seen' \in [Proposals -> Statuses \cup {"none"}]
      /\ \A p \in todo' : chain[p] # "none"
  <2> USE DEF GovTypeOK
  <2>1. CASE GetActive
    <3>1. \A p \in active : tracked[p] # "none"
      BY StatusFacts DEF Categorised, Statuses
    <3>2. /\ todo' = active
          /\ seen' = [p \in Proposals |-> IF p \in active THEN tracked[p] ELSE "none"]
      BY <2>1 DEF GetActive
    <3>3. \A p \in todo' : chain[p] # "none"
      BY <3>1, <3>2 DEF Heard
    <3>4. QED  BY <3>2, <3>3
  <2>2. ASSUME NEW p \in Proposals, GetProposal(p)
        PROVE  UNCHANGED <<todo, seen>>
    BY <2>2 DEF GetProposal
  <2>3. ASSUME NEW p \in Proposals, GetProposalFails(p)
        PROVE  todo' = todo \ {p} /\ seen' = [seen EXCEPT ![p] = "none"]
    BY <2>3 DEF GetProposalFails, Skipped
  <2>4. CASE \E p \in Proposals : GetProposal(p) \/ GetProposalFails(p)
    BY <2>2, <2>3, <2>4 DEF Heard
  <2>5. QED  BY <2>1, <2>4
<1>3. \/ answer' = answer /\ voting' # "apply"
      \/ \E p \in Proposals :
           answer' = <<p, chain[p]>> /\ chain[p] \in Statuses /\ chain[p] # "none"
  <2>1. CASE GetActive
    BY <2>1 DEF GetActive
  <2>2. ASSUME NEW p \in Proposals, GetProposal(p)
        PROVE  answer' = <<p, chain[p]>> /\ chain[p] \in Statuses /\ chain[p] # "none"
    BY <2>2 DEF GetProposal, Heard, GovTypeOK
  <2>3. ASSUME NEW p \in Proposals, GetProposalFails(p)
        PROVE  answer' = answer /\ voting' # "apply"
    BY <2>3 DEF GetProposalFails, Skipped
  <2>4. QED  BY <2>1, <2>2, <2>3
<1>4. GovTypeOK'
  <2>1. answer' \in {NoAnswer} \cup (Proposals \X (Statuses \cup {"none"}))
    BY <1>3 DEF GovTypeOK
  <2>2. QED  BY <1>1, <1>2, <2>1 DEF GovTypeOK
<1>5. Heard'
  BY <1>1, <1>2, <1>3 DEF Heard
<1>6. Stopped'
  BY <1>1 DEF Stopped
<1>7. Categorised' /\ AnnouncedIsTracked'
  BY <1>1 DEF Categorised, AnnouncedIsTracked
<1>8. QED  BY <1>4, <1>5, <1>6, <1>7

LEMMA VoteSteps ==
  ASSUME TrackerIInv, UpdateVotingStatus
  PROVE  TrackerIInv'
<1> DEFINE p == answer[1]
           new == [q \in {p} |-> answer[2]]
<1> USE DEF TrackerIInv, VotingOnly, fetchVars
<1>1. /\ UNCHANGED <<chain, fetcher, fetchNo, fetched, syncs, stopping, announced>>
      /\ voting = "apply" /\ voting' \in {"idle", "ask"} /\ answer' = NoAnswer
      /\ Update({p}, new) /\ scheduled' \in {scheduled, scheduled \cup {p}}
      /\ todo' = todo \ {p} /\ seen' = [seen EXCEPT ![p] = "none"]
  BY DEF UpdateVotingStatus
<1>2. p \in Proposals /\ new[p] \in Statuses /\ chain[p] # "none"
  BY <1>1, StatusFacts DEF Heard
<1>3. /\ tracked' \in [Proposals -> Statuses \cup {"none"}]
      /\ active' \subseteq Proposals /\ completed' \subseteq Proposals
      /\ Categorised'
      /\ \A q \in Proposals : tracked'[q] = IF q \in {p} THEN new[q] ELSE tracked[q]
      /\ \A q \in Proposals : tracked[q] # "none" => tracked'[q] # "none"
  <2>1. {p} \in SUBSET Proposals /\ \A q \in {p} : new[q] \in Statuses
    BY <1>2
  <2>2. QED  BY <1>1, <2>1, UpdateFacts
<1>4. GovTypeOK'
  BY <1>1, <1>2, <1>3 DEF GovTypeOK
<1>5. Heard'
  BY <1>1, <1>2, <1>3 DEF Heard
<1>6. AnnouncedIsTracked'
  BY <1>1, <1>3 DEF AnnouncedIsTracked
<1>7. Stopped'
  BY <1>1 DEF Stopped
<1>8. QED  BY <1>3, <1>4, <1>5, <1>6, <1>7

LEMMA StopSteps ==
  ASSUME TrackerIInv,
         StopBegin \/ StopCancel \/ FetcherExits \/ VotingExits \/ StopReturn
  PROVE  TrackerIInv'
<1> USE DEF TrackerIInv, StopOnly, trackerVars, ghostVars
<1>1. /\ UNCHANGED <<chain, tracked, active, completed, fetchNo, fetched, syncs, todo, seen, answer,
                     announced, scheduled>>
      /\ fetcher' \in {fetcher, [fetcher EXCEPT !["monitorProposals"] = "gone"]}
      /\ voting' \in {voting, "gone"}
      /\ stopping' \in {stopping, "lock", "wait", "done"}
  BY DEF StopBegin, StopCancel, FetcherExits, VotingExits, StopReturn
<1>2. GovTypeOK'
  BY <1>1 DEF GovTypeOK, Fetchers
<1>3. Heard' /\ Categorised' /\ AnnouncedIsTracked'
  BY <1>1 DEF Heard, Categorised, AnnouncedIsTracked
<1>4. Stopped'
  <2> USE DEF Stopped, GovTypeOK, Fetchers
  <2>1. CASE StopBegin     BY <2>1 DEF StopBegin
  <2>2. CASE StopCancel    BY <2>2 DEF StopCancel
  <2>3. CASE FetcherExits  BY <2>3 DEF FetcherExits
  <2>4. CASE VotingExits   BY <2>4 DEF VotingExits
  <2>5. CASE StopReturn    BY <2>5 DEF StopReturn
  <2>6. QED  BY <2>1, <2>2, <2>3, <2>4, <2>5
<1>5. QED  BY <1>2, <1>3, <1>4

LEMMA TrackerStep == TrackerIInv /\ [GovNext]_govVars => TrackerIInv'
<1> SUFFICES ASSUME TrackerIInv, [GovNext]_govVars PROVE TrackerIInv'
  OBVIOUS
<1>1. CASE UNCHANGED govVars
  BY <1>1 DEF govVars, trackerVars, fetchVars, voteVars, ghostVars, TrackerIInv, GovTypeOK,
       Categorised, Heard, AnnouncedIsTracked, Stopped
<1>2. CASE GovNext
  BY <1>2, ChainSteps, BeginSteps, ListSteps, ApplySteps, VotingSteps, VoteSteps, StopSteps
     DEF GovNext, Fetch, CheckVotingProgress
<1>3. QED  BY <1>1, <1>2

LEMMA TrackerInductive == GovSpec => []TrackerIInv
<1>1. QED  BY TrackerInitial, TrackerStep, PTL DEF GovSpec

\* TrackerInv: the proposals and their categories agree, and operators are told
\* of a new proposal once, however fetches, votes and ForceSync overlap
\* (proposals.go, checkNewProposals).
THEOREM TrackerInvariant == GovSpec => []TrackerInv
<1>1. TrackerIInv => TrackerInv
  BY DEF TrackerIInv, TrackerInv, AnnouncedIsTracked, AnnouncedOnce
<1>2. QED  BY <1>1, TrackerInductive, PTL

\* QuietAfterStop: once Stop has returned only a ForceSync changes the tracker,
\* and nothing is announced or scheduled (Stop, wg.Wait).
THEOREM TrackerIsQuiet == GovSpec => QuietAfterStop
<1> DEFINE Quiet == /\ UNCHANGED <<announced, scheduled>>
                    /\ (\A f \in Syncers : fetcher[f] = "idle") => UNCHANGED trackerVars
<1>1. ASSUME TrackerIInv, GovNext, stopping = "done"
      PROVE  Quiet
  <2> USE DEF ghostVars
  <2>1. fetcher["monitorProposals"] = "gone" /\ voting = "gone"
    BY <1>1 DEF TrackerIInv, Stopped
  <2>2. ASSUME NEW p \in Proposals, ChainStep(p)
        PROVE  Quiet
    BY <2>2 DEF ChainStep, OnChain
  <2>3. CASE CheckNewProposals \/ \E f \in Syncers : ForceSync(f)
    BY <2>3 DEF CheckNewProposals, ForceSync, BeginFetch
  <2>4. ASSUME NEW f \in Fetchers, ListArrives(f) \/ ListFails(f)
        PROVE  Quiet
    BY <2>4 DEF ListArrives, ListFails, NextList
  <2>5. ASSUME NEW f \in Fetchers, ApplyFetched(f)
        PROVE  Quiet
    <3>1. f \in Syncers /\ fetcher[f] = "fetch"
      BY <2>1, <2>5 DEF ApplyFetched, Applied, Fetchers
    <3>2. UNCHANGED <<announced, scheduled>>
      BY <2>5, <3>1 DEF ApplyFetched, Applied
    <3>3. QED  BY <3>1, <3>2
  <2>6. ~ GetActive /\ ~ CheckVotingProgress
    BY <2>1 DEF GetActive, CheckVotingProgress, GetProposal, GetProposalFails, Skipped,
         UpdateVotingStatus
  <2>7. CASE StopBegin \/ StopCancel \/ FetcherExits \/ VotingExits \/ StopReturn
    BY <2>7 DEF StopBegin, StopCancel, FetcherExits, VotingExits, StopReturn, StopOnly
  <2>8. QED
    BY <1>1, <2>2, <2>3, <2>4, <2>5, <2>6, <2>7 DEF GovNext, Fetch
<1>2. TrackerIInv /\ [GovNext]_govVars => [stopping = "done" => Quiet]_govVars
  BY <1>1
<1>3. QED  BY <1>2, TrackerInductive, PTL DEF GovSpec, QuietAfterStop

-----------------------------------------------------------------------------
(***************************************************************************)
(* The upgrade scheduler, for any names, heights and bounds: SchedulerInv. *)
(*                                                                         *)
(* Each change of the queue takes one entry out, or puts one in where the  *)
(* order wants it; Fewer and More say where the other entries went.  That  *)
(* a name is in the queue at most once rests on the registry: who is in    *)
(* the queue is registered as scheduled, and the workers and the copies of *)
(* the queue say what they know of it.                                     *)
(***************************************************************************)

\* p is q without the element at i; p is q with e at i.
Without(p, q, i) ==
  /\ Len(p) = Len(q) - 1
  /\ \A j \in 1..(Len(q) - 1) : p[j] = IF j < i THEN q[j] ELSE q[j + 1]
With(p, q, i, e) ==
  /\ Len(p) = Len(q) + 1
  /\ \A j \in 1..(Len(q) + 1) :
       p[j] = IF j < i THEN q[j] ELSE IF j = i THEN e ELSE q[j - 1]

\* The others stay, in their order: g tells where each of them is in the other sequence.
Fewer(p, q, i) == \E g \in [DOMAIN p -> DOMAIN q \ {i}] :
  /\ \A j \in DOMAIN p : p[j] = q[g[j]]
  /\ \A j, k \in DOMAIN p : j < k => g[j] < g[k]
  /\ \A k \in DOMAIN q \ {i} : \E j \in DOMAIN p : g[j] = k
More(p, q, i, e) ==
  /\ i \in DOMAIN p /\ p[i] = e
  /\ \E g \in [DOMAIN q -> DOMAIN p \ {i}] :
       /\ \A j \in DOMAIN q : p[g[j]] = q[j] /\ (j < i <=> g[j] < i)
       /\ \A j, k \in DOMAIN q : j < k => g[j] < g[k]
       /\ \A k \in DOMAIN p \ {i} : \E j \in DOMAIN q : g[j] = k

\* Taking the element at i out of a sequence.
LEMMA RemoveAtFacts ==
  ASSUME NEW S, NEW q \in Seq(S), NEW i \in 1..Len(q)
  PROVE  RemoveAt(q, i) \in Seq(S) /\ Without(RemoveAt(q, i), q, i)
<1> DEFINE p == SubSeq(q, 1, i - 1)
           r == SubSeq(q, i + 1, Len(q))
<1>1. /\ p \in Seq(S) /\ Len(p) = i - 1 /\ \A j \in 1..(i - 1) : p[j] = q[j]
  OBVIOUS
<1>2. /\ r \in Seq(S) /\ Len(r) = Len(q) - i /\ \A j \in 1..(Len(q) - i) : r[j] = q[i + j]
  OBVIOUS
<1>3. RemoveAt(q, i) = p \o r
  BY DEF RemoveAt
<1> HIDE DEF p, r
<1>4. i \in Nat /\ i >= 1 /\ Len(q) \in Nat /\ i <= Len(q)
  OBVIOUS
<1>5. /\ p \o r \in Seq(S) /\ Len(p \o r) = Len(p) + Len(r)
      /\ \A j \in 1..Len(p) + Len(r) : (p \o r)[j] = IF j <= Len(p) THEN p[j] ELSE r[j - Len(p)]
  BY ONLY <1>1, <1>2, ConcatProperties
<1> DEFINE s == p \o r
<1> HIDE DEF s
<1>6. Len(s) = Len(q) - 1
  BY <1>1, <1>2, <1>4, <1>5 DEF s
<1>7. ASSUME NEW j \in 1..(Len(q) - 1)
      PROVE  s[j] = IF j < i THEN q[j] ELSE q[j + 1]
  <2>1. j \in 1..Len(p) + Len(r)
    BY <1>1, <1>2, <1>4
  <2>2. CASE j < i
    BY <1>1, <1>4, <1>5, <2>1, <2>2 DEF s
  <2>3. CASE j >= i
    <3> DEFINE k == j + 1 - i
    <3>1. k \in 1..(Len(q) - i) /\ i + k = j + 1 /\ ~ (j <= i - 1) /\ k = j - (i - 1) /\ ~ (j < i)
      BY <1>4, <2>3
    <3> HIDE DEF k
    <3>2. ~ (j <= Len(p)) /\ k = j - Len(p)
      BY ONLY <1>1, <3>1 DEF k
    <3>3. s[j] = r[k]
      BY <1>5, <2>1, <3>1, <3>2 DEF s
    <3>4. r[k] = q[j + 1]
      BY <1>2, <3>1
    <3>5. QED  BY <3>1, <3>3, <3>4
  <2>4. QED  BY <2>2, <2>3
<1>8. QED  BY <1>3, <1>5, <1>6, <1>7 DEF s, Without

\* Putting e in at i.
LEMMA InsertAtFacts ==
  ASSUME NEW S, NEW q \in Seq(S), NEW i \in 1..Len(q) + 1, NEW e \in S
  PROVE  InsertAt(q, i, e) \in Seq(S) /\ With(InsertAt(q, i, e), q, i, e)
<1> DEFINE p == SubSeq(q, 1, i - 1)
           r == SubSeq(q, i, Len(q))
<1>1. /\ p \in Seq(S) /\ Len(p) = i - 1 /\ \A j \in 1..(i - 1) : p[j] = q[j]
  OBVIOUS
<1>2. /\ r \in Seq(S) /\ Len(r) = Len(q) - i + 1
      /\ \A j \in 1..(Len(q) - i + 1) : r[j] = q[i + j - 1]
  OBVIOUS
<1>3. InsertAt(q, i, e) = (p \o <<e>>) \o r
  BY DEF InsertAt
<1> HIDE DEF p, r
<1> DEFINE m == p \o <<e>>
<1>4. /\ m \in Seq(S) /\ Len(m) = i /\ m[i] = e /\ \A j \in 1..(i - 1) : m[j] = q[j]
  BY <1>1
<1> HIDE DEF m
<1>5. i \in Nat /\ i >= 1 /\ Len(q) \in Nat /\ i <= Len(q) + 1
  OBVIOUS
<1>6. /\ m \o r \in Seq(S) /\ Len(m \o r) = Len(m) + Len(r)
      /\ \A j \in 1..Len(m) + Len(r) : (m \o r)[j] = IF j <= Len(m) THEN m[j] ELSE r[j - Len(m)]
  BY ONLY <1>2, <1>4, ConcatProperties
<1> DEFINE s == m \o r
<1> HIDE DEF s
<1>7. Len(s) = Len(q) + 1
  BY <1>2, <1>4, <1>5, <1>6 DEF s
<1>8. ASSUME NEW j \in 1..(Len(q) + 1)
      PROVE  s[j] = IF j < i THEN q[j] ELSE IF j = i THEN e ELSE q[j - 1]
  <2>1. j \in 1..Len(m) + Len(r)
    BY <1>2, <1>4, <1>5
  <2>2. CASE j <= i
    BY <1>4, <1>5, <1>6, <2>1, <2>2 DEF s
  <2>3. CASE j > i
    <3> DEFINE k == j - i
    <3>1. k \in 1..(Len(q) - i + 1) /\ i + k - 1 = j - 1 /\ ~ (j <= i) /\ ~ (j < i) /\ j # i
      BY <1>5, <2>3
    <3> HIDE DEF k
    <3>2. ~ (j <= Len(m)) /\ k = j - Len(m)
      BY ONLY <1>4, <3>1 DEF k
    <3>3. s[j] = r[k]
      BY <1>6, <2>1, <3>1, <3>2 DEF s
    <3>4. r[k] = q[j - 1]
      BY <1>2, <3>1
    <3>5. QED  BY <3>1, <3>3, <3>4
  <2>4. QED  BY <1>5, <2>2, <2>3
<1>9. QED  BY <1>3, <1>6, <1>7, <1>8 DEF m, s, With

\* Taking out keeps the others and their order.
LEMMA RemoveAtKeeps ==
  ASSUME NEW S, NEW q \in Seq(S), NEW k \in 1..Len(q)
  PROVE  RemoveAt(q, k) \in Seq(S) /\ Fewer(RemoveAt(q, k), q, k)
<1> DEFINE p == RemoveAt(q, k)
<1>1. p \in Seq(S) /\ Without(p, q, k)
  BY RemoveAtFacts
<1> HIDE DEF p
<1>2. DOMAIN q = 1..Len(q) /\ Len(q) \in Nat /\ DOMAIN p = 1..(Len(q) - 1)
  BY <1>1 DEF Without
<1>3. \A j \in 1..(Len(q) - 1) : p[j] = IF j < k THEN q[j] ELSE q[j + 1]
  BY <1>1 DEF Without
<1> DEFINE g == [i \in DOMAIN p |-> IF i < k THEN i ELSE i + 1]
<1>4. g \in [DOMAIN p -> DOMAIN q \ {k}]
  BY <1>2
<1>5. \A i \in DOMAIN p : p[i] = q[g[i]]
  BY <1>2, <1>3
<1>6. \A i, j \in DOMAIN p : i < j => g[i] < g[j]
  BY <1>2
<1>7. ASSUME NEW j \in DOMAIN q \ {k} PROVE \E i \in DOMAIN p : g[i] = j
  <2>1. CASE j < k
    <3>1. j \in DOMAIN p /\ g[j] = j
      BY <1>2, <2>1
    <3>2. QED  BY <3>1
  <2>2. CASE j > k
    <3>1. j - 1 \in DOMAIN p /\ ~ (j - 1 < k) /\ (j - 1) + 1 = j
      BY <1>2, <2>2
    <3>2. g[j - 1] = j
      BY <3>1
    <3> HIDE DEF g
    <3>3. QED  BY <3>1, <3>2
  <2>3. QED  BY <1>2, <2>1, <2>2
<1> HIDE DEF g
<1>8. Fewer(p, q, k)
  BY <1>4, <1>5, <1>6, <1>7 DEF Fewer
<1>9. QED  BY <1>1, <1>8 DEF p

\* Putting in keeps all, and their order.
LEMMA InsertAtKeeps ==
  ASSUME NEW S, NEW q \in Seq(S), NEW k \in 1..Len(q) + 1, NEW e \in S
  PROVE  InsertAt(q, k, e) \in Seq(S) /\ More(InsertAt(q, k, e), q, k, e)
<1> DEFINE p == InsertAt(q, k, e)
<1>1. p \in Seq(S) /\ With(p, q, k, e)
  BY InsertAtFacts
<1> HIDE DEF p
<1>2. DOMAIN q = 1..Len(q) /\ Len(q) \in Nat /\ DOMAIN p = 1..(Len(q) + 1)
  BY <1>1 DEF With
<1>3. \A j \in 1..(Len(q) + 1) : p[j] = IF j < k THEN q[j] ELSE IF j = k THEN e ELSE q[j - 1]
  BY <1>1 DEF With
<1>4. k \in DOMAIN p /\ p[k] = e
  BY <1>2, <1>3
<1> DEFINE g == [i \in DOMAIN q |-> IF i < k THEN i ELSE i + 1]
<1>5. g \in [DOMAIN q -> DOMAIN p \ {k}]
  BY <1>2
<1>6. ASSUME NEW i \in DOMAIN q PROVE p[g[i]] = q[i] /\ (i < k <=> g[i] < k)
  <2>1. CASE i < k
    BY <1>2, <1>3, <2>1
  <2>2. CASE ~ (i < k)
    <3>1. i + 1 \in 1..(Len(q) + 1) /\ ~ (i + 1 < k) /\ i + 1 # k /\ (i + 1) - 1 = i
      BY <1>2, <2>2
    <3>2. g[i] = i + 1 /\ p[i + 1] = q[i]
      BY <1>3, <2>2, <3>1
    <3> HIDE DEF g
    <3>3. QED  BY <2>2, <3>1, <3>2
  <2>3. QED  BY <2>1, <2>2
<1>7. \A i, j \in DOMAIN q : i < j => g[i] < g[j]
  BY <1>2
<1>8. ASSUME NEW j \in DOMAIN p \ {k} PROVE \E i \in DOMAIN q : g[i] = j
  <2>1. CASE j < k
    <3>1. j \in DOMAIN q /\ g[j] = j
      BY <1>2, <2>1
    <3>2. QED  BY <3>1
  <2>2. CASE j > k
    <3>1. j - 1 \in DOMAIN q /\ ~ (j - 1 < k) /\ (j - 1) + 1 = j
      BY <1>2, <2>2
    <3>2. g[j - 1] = j
      BY <3>1
    <3> HIDE DEF g
    <3>3. QED  BY <3>1, <3>2
  <2>3. QED  BY <1>2, <2>1, <2>2
<1> HIDE DEF g
<1>9. More(p, q, k, e)
  BY <1>4, <1>5, <1>6, <1>7, <1>8 DEF More
<1>10. QED  BY <1>1, <1>9 DEF p

\* Whom a name stands for, and what is in the queues, is known by its name: Cleanup-
\* Old forgets only what has ended, and a new upgrade takes only a free name.
ByName == \A n \in Names :
  upgrades[n] # NoUpgrade => upgrades[n] \in Made /\ name[upgrades[n]] = n
QueuedKnown == \A i \in DOMAIN scheduledQueue :
  /\ upgrades[name[scheduledQueue[i]]] = scheduledQueue[i]
  /\ completedQueue[scheduledQueue[i]] = 0
CompletedKnown == \A u \in Upgrades :
  completedQueue[u] > 0 => u \in Made /\ upgrades[name[u]] = u
CopiedKnown == \A i \in DOMAIN copied : upgrades[name[copied[i]]] = copied[i]

\* An upgrade leaves the status "scheduled" for good, and nobody but the worker sets
\* it to "in_progress", with the entry in upgrade-info.json: an upgrade about to be
\* triggered has not been triggered before.
TriggeredStatus ==
  /\ \A i \in DOMAIN triggered : status[triggered[i]] # "scheduled"
  /\ \A u \in Made : status[u] = "in_progress" => \E i \in DOMAIN triggered : triggered[i] = u
WorkerReady ==
  /\ worker \in {"loop", "trigger", "update"} => copied # <<>>
  /\ seenHeight <= height
  /\ worker = "trigger" => /\ HeightOf(Head(copied)) <= seenHeight
                           /\ \A i \in DOMAIN triggered : triggered[i] # Head(copied)

QueueIInv == QueueInOrder /\ ScheduledIsQueued /\ ByName /\ QueuedKnown /\ CompletedKnown
WorkIInv  == CurrentInProgress /\ TriggeredOnce /\ TriggeredStatus /\ WorkerReady
SchedulerIInv == SchedulerTypeOK /\ QueueIInv /\ CopiedKnown /\ WorkIInv

LEMMA SchedulerConstants ==
  /\ NameHeight \in [Names -> Nat] /\ Upgrades \subseteq Nat /\ NoUpgrade \notin Upgrades
  /\ MaxHeight \in Nat /\ MaxUpgrades \in Nat /\ MaxCancels \in Nat
  /\ \E n \in Names : n = CHOOSE m \in Names : TRUE
<1>1. NameHeight \in [Names -> Nat]
  BY SchedulerAssumption
<1>2. (CHOOSE m \in Names : TRUE) \in Names
  BY SchedulerAssumption
<1>3. QED  BY <1>1, <1>2, SchedulerAssumption DEF Upgrades, NoUpgrade

LEMMA MadeUpgrades == ASSUME SchedulerTypeOK PROVE Made \subseteq Upgrades
BY SchedulerConstants DEF SchedulerTypeOK, Made, Upgrades

LEMMA SchedulerInitial == SchedulerInit => SchedulerIInv
<1> SUFFICES ASSUME SchedulerInit PROVE SchedulerIInv
  OBVIOUS
<1>1. /\ scheduledQueue = <<>> /\ triggered = <<>> /\ copied = <<>> /\ made = 0
      /\ Made = {}
  BY DEF SchedulerInit, Made
<1>2. SchedulerTypeOK
  <2>1. name \in [Upgrades -> Names]
    BY SchedulerConstants DEF SchedulerInit
  <2>2. height \in 0..MaxHeight /\ seenHeight \in 0..MaxHeight
        /\ made \in 0..MaxUpgrades /\ cancels \in 0..MaxCancels
    BY SchedulerConstants DEF SchedulerInit
  <2>3. scheduledQueue \in Seq(Made) /\ copied \in Seq(Made) /\ triggered \in Seq(Made)
    BY <1>1
  <2>4. QED  BY <2>1, <2>2, <2>3 DEF SchedulerInit, SchedulerTypeOK
<1>3. QueueIInv
  BY <1>1 DEF SchedulerInit, QueueIInv, QueueInOrder, Sorted, IsInjective, ScheduledIsQueued,
              ByName, QueuedKnown, CompletedKnown
<1>4. CopiedKnown
  BY <1>1 DEF CopiedKnown
<1>5. WorkIInv
  BY <1>1 DEF SchedulerInit, WorkIInv, CurrentInProgress, TriggeredOnce, IsInjective,
              TriggeredStatus, WorkerReady
<1>6. QED  BY <1>2, <1>3, <1>4, <1>5 DEF SchedulerIInv

\* What RemoveFirstMatch leaves: all but the upgrade itself, in the same order.
LEMMA RemovedQueue ==
  ASSUME SchedulerTypeOK, QueueIInv, NEW u \in Made, upgrades[name[u]] = u, MoveToCompleted(u)
  PROVE  LET q == scheduledQueue' IN
         /\ q \in Seq(Made) /\ Sorted(q) /\ IsInjective(q)
         /\ \A i \in DOMAIN q : q[i] # u /\ \E j \in DOMAIN scheduledQueue : q[i] = scheduledQueue[j]
         /\ \A j \in DOMAIN scheduledQueue : scheduledQueue[j] # u =>
              \E i \in DOMAIN q : q[i] = scheduledQueue[j]
<1> DEFINE q == scheduledQueue'
<1> USE DEF QueueIInv, QueueInOrder
<1>1. /\ scheduledQueue \in Seq(Made) /\ Len(scheduledQueue) \in Nat
      /\ DOMAIN scheduledQueue = 1..Len(scheduledQueue)
  BY DEF SchedulerTypeOK
<1>2. CASE \A j \in DOMAIN scheduledQueue : name[scheduledQueue[j]] # name[u]
  <2>1. q = scheduledQueue
    BY <1>1, <1>2 DEF RemoveFirstMatch, MoveToCompleted
  <2>2. QED  BY <1>1, <1>2, <2>1
<1>3. CASE \E k \in DOMAIN scheduledQueue : name[scheduledQueue[k]] = name[u]
  <2> PICK k \in DOMAIN scheduledQueue : name[scheduledQueue[k]] = name[u]
    BY <1>3
  <2>1. scheduledQueue[k] = u
    BY DEF QueuedKnown
  <2>2. {j \in 1..Len(scheduledQueue) : name[scheduledQueue[j]] = name[u]} = {k}
    BY <1>1, <2>1 DEF QueuedKnown, IsInjective
  <2>3. Min({k}) = k
    BY DEF Min
  <2>4. q = RemoveAt(scheduledQueue, k)
    BY <1>1, <2>2, <2>3 DEF RemoveFirstMatch, SelectInSeq, MoveToCompleted
  <2> HIDE DEF q
  <2>5. q \in Seq(Made) /\ Fewer(q, scheduledQueue, k)
    BY <1>1, <2>4, RemoveAtKeeps
  <2> DEFINE sq == scheduledQueue
  <2>6. PICK g \in [DOMAIN q -> DOMAIN sq \ {k}] :
          /\ \A i \in DOMAIN q : q[i] = sq[g[i]]
          /\ \A i, j \in DOMAIN q : i < j => g[i] < g[j]
          /\ \A j \in DOMAIN sq \ {k} : \E i \in DOMAIN q : g[i] = j
    BY <2>5 DEF Fewer
  <2>7. /\ \A i, j \in DOMAIN sq : i < j => HeightOf(sq[i]) <= HeightOf(sq[j])
        /\ \A i, j \in DOMAIN sq : sq[i] = sq[j] => i = j
        /\ sq[k] = u /\ k \in DOMAIN sq
    BY <2>1 DEF Sorted, IsInjective
  <2>8. \A i \in DOMAIN q : g[i] \in DOMAIN sq /\ g[i] # k
    BY <2>6
  <2>9. \A i, j \in DOMAIN q : i < j \/ i = j \/ j < i
    BY <2>5
  <2>10. DOMAIN sq \subseteq Nat
    BY <1>1
  <2> HIDE DEF sq
  <2>11. \A i \in DOMAIN q : q[i] = sq[g[i]]
    BY <2>6 DEF sq
  <2>12. Sorted(q)
    BY ONLY <2>6, <2>7, <2>8, <2>11 DEF Sorted
  <2>13. IsInjective(q)
    BY ONLY <2>6, <2>7, <2>8, <2>9, <2>10, <2>11 DEF IsInjective
  <2>14. \A i \in DOMAIN q : q[i] # u /\ \E j \in DOMAIN sq : q[i] = sq[j]
    BY ONLY <2>7, <2>8, <2>11
  <2>15. \A j \in DOMAIN sq : sq[j] # u => \E i \in DOMAIN q : q[i] = sq[j]
    BY ONLY <2>6, <2>7, <2>11 DEF sq
  <2>16. QED  BY <2>5, <2>12, <2>13, <2>14, <2>15 DEF sq, q
<1>4. QED  BY <1>2, <1>3

\* moveToCompleted, of an upgrade that its name stands for and that has ended: the
\* queue goes on holding what is scheduled, and nothing that is in completedQueue.
LEMMA Moved ==
  ASSUME SchedulerTypeOK, QueueIInv, NEW u \in Made, upgrades[name[u]] = u, NEW s \in FinalStates,
         MoveToCompleted(u), status' = [status EXCEPT ![u] = s], UNCHANGED <<upgrades, name, made>>
  PROVE  /\ QueueIInv'
         /\ scheduledQueue' \in Seq(Made)' /\ completedQueue' \in [Upgrades -> Nat]'
         /\ status' \in [Upgrades -> {"none", "scheduled", "in_progress"} \cup FinalStates]
<1>1. /\ scheduledQueue' \in Seq(Made) /\ Sorted(scheduledQueue') /\ IsInjective(scheduledQueue')
      /\ \A i \in DOMAIN scheduledQueue' : /\ scheduledQueue'[i] # u
                                          /\ \E j \in DOMAIN scheduledQueue :
                                               scheduledQueue'[i] = scheduledQueue[j]
      /\ \A j \in DOMAIN scheduledQueue : scheduledQueue[j] # u =>
           \E i \in DOMAIN scheduledQueue' : scheduledQueue'[i] = scheduledQueue[j]
  BY RemovedQueue
<1>2. Made' = Made /\ u \in Upgrades /\ Made \subseteq Upgrades /\ u # NoUpgrade
  BY MadeUpgrades, SchedulerConstants DEF Made
<1>3. /\ completedQueue \in [Upgrades -> Nat]
      /\ status \in [Upgrades -> {"none", "scheduled", "in_progress"} \cup FinalStates]
      /\ scheduledQueue \in Seq(Made) /\ name \in [Upgrades -> Names]
  BY DEF SchedulerTypeOK
<1>4. /\ completedQueue' \in [Upgrades -> Nat] /\ completedQueue'[u] = completedQueue[u] + 1
      /\ \A v \in Upgrades : v # u => completedQueue'[v] = completedQueue[v]
  BY <1>2, <1>3 DEF MoveToCompleted
<1>5. /\ status'[u] = s /\ \A v \in Upgrades : v # u => status'[v] = status[v]
      /\ status' \in [Upgrades -> {"none", "scheduled", "in_progress"} \cup FinalStates]
  BY <1>2, <1>3
<1>6. s # "scheduled"
  BY DEF FinalStates
<1>7. QueueInOrder'
  <2>1. \A v \in Upgrades : HeightOf(v)' = HeightOf(v)
    BY DEF HeightOf
  <2>2. \A i \in DOMAIN scheduledQueue' : scheduledQueue'[i] \in Upgrades
    BY <1>1, <1>2
  <2>3. Sorted(scheduledQueue)'
    BY <1>1, <2>1, <2>2 DEF Sorted
  <2>4. IsInjective(scheduledQueue)'
    BY <1>1 DEF IsInjective
  <2>5. QED  BY <2>3, <2>4 DEF QueueInOrder
<1>8. ScheduledIsQueued'
  <2> SUFFICES ASSUME NEW v \in Made, status'[v] = "scheduled"
               PROVE  /\ \E i \in DOMAIN scheduledQueue' : scheduledQueue'[i] = v
                      /\ upgrades[name[v]] = v
    BY <1>2 DEF ScheduledIsQueued
  <2>1. v # u /\ status[v] = "scheduled"
    BY <1>2, <1>5, <1>6
  <2>2. PICK j \in DOMAIN scheduledQueue : scheduledQueue[j] = v
    BY <2>1 DEF QueueIInv, ScheduledIsQueued
  <2>3. upgrades[name[v]] = v
    BY <2>1 DEF QueueIInv, ScheduledIsQueued
  <2>4. QED  BY <1>1, <2>1, <2>2, <2>3
<1>9. ByName'
  BY <1>2 DEF QueueIInv, ByName
<1>10. QueuedKnown'
  <2> SUFFICES ASSUME NEW i \in DOMAIN scheduledQueue'
               PROVE  /\ upgrades[name[scheduledQueue'[i]]] = scheduledQueue'[i]
                      /\ completedQueue'[scheduledQueue'[i]] = 0
    BY DEF QueuedKnown
  <2>1. PICK j \in DOMAIN scheduledQueue : scheduledQueue'[i] = scheduledQueue[j]
    BY <1>1
  <2>2. scheduledQueue'[i] \in Upgrades /\ scheduledQueue'[i] # u
    BY <1>1, <1>2
  <2>3. QED  BY <1>4, <2>1, <2>2 DEF QueueIInv, QueuedKnown
<1>11. CompletedKnown'
  BY <1>2, <1>4 DEF QueueIInv, CompletedKnown
<1>12. QED  BY <1>1, <1>2, <1>4, <1>5, <1>7, <1>8, <1>9, <1>10, <1>11 DEF QueueIInv

\* Whatever ends without being the current upgrade, and whatever ends as such, leaves
\* the worker's records true.
LEMMA EndedWork ==
  ASSUME SchedulerTypeOK, WorkIInv, CopiedKnown, NEW u \in Made, NEW s \in FinalStates,
         status' = [status EXCEPT ![u] = s], UNCHANGED <<upgrades, name, made>>, CallerOnly,
         \/ currentUpgrade' = NoUpgrade
         \/ currentUpgrade' = currentUpgrade /\ currentUpgrade # u
  PROVE  WorkIInv' /\ CopiedKnown'
<1>1. Made' = Made /\ Made \subseteq Upgrades
  BY MadeUpgrades DEF Made
<1>2. /\ status \in [Upgrades -> {"none", "scheduled", "in_progress"} \cup FinalStates]
      /\ triggered \in Seq(Made) /\ currentUpgrade \in Made \cup {NoUpgrade}
  BY DEF SchedulerTypeOK
<1>3. /\ status'[u] = s /\ \A v \in Upgrades : v # u => status'[v] = status[v]
  BY <1>1, <1>2
<1>4. s # "scheduled" /\ s # "in_progress"
  BY DEF FinalStates
<1>5. CopiedKnown'
  BY DEF CopiedKnown, CallerOnly, workerVars
<1>6. TriggeredOnce' /\ WorkerReady'
  BY DEF WorkIInv, TriggeredOnce, WorkerReady, CallerOnly, workerVars, HeightOf, IsInjective
<1>7. CurrentInProgress'
  BY <1>1, <1>2, <1>3 DEF WorkIInv, CurrentInProgress
<1>8. TriggeredStatus'
  <2>1. \A i \in DOMAIN triggered : triggered[i] \in Upgrades
    BY <1>1, <1>2
  <2>2. QED  BY <1>1, <1>3, <1>4, <2>1 DEF WorkIInv, TriggeredStatus, CallerOnly
<1>9. QED  BY <1>5, <1>6, <1>7, <1>8 DEF WorkIInv

LEMMA ReportSteps ==
  ASSUME SchedulerIInv, NEW s \in {"completed", "failed"}, Report(s) PROVE SchedulerIInv'
<1> DEFINE existing == upgrades[name[currentUpgrade]]
<1>1. SchedulerTypeOK /\ QueueIInv /\ CopiedKnown /\ WorkIInv
  BY DEF SchedulerIInv
<1>2. s \in FinalStates /\ currentUpgrade \in Made /\ currentUpgrade # NoUpgrade
  BY <1>1 DEF Report, FinalStates, SchedulerTypeOK
<1>3. name[currentUpgrade] \in Names
  BY <1>1, <1>2, MadeUpgrades DEF SchedulerTypeOK
<1>4. CASE existing = NoUpgrade
  <2>1. UNCHANGED <<upgrades, scheduledQueue, completedQueue, currentUpgrade, name, status, height,
                    worker, seenHeight, copied, made, cancels, triggered>>
    BY <1>4 DEF Report, UpdateStatus, queueVars, CallerOnly, workerVars
  <2>2. Made' = Made
    BY <2>1 DEF Made
  <2>3. SchedulerTypeOK'
    BY <1>1, <2>1, <2>2 DEF SchedulerTypeOK
  <2>4. QueueIInv'
    BY <1>1, <2>1, <2>2 DEF QueueIInv, QueueInOrder, Sorted, HeightOf, IsInjective, ScheduledIsQueued,
                            ByName, QueuedKnown, CompletedKnown
  <2>5. CopiedKnown' /\ WorkIInv'
    BY <1>1, <2>1, <2>2 DEF CopiedKnown, WorkIInv, CurrentInProgress, TriggeredOnce, TriggeredStatus,
                            WorkerReady, HeightOf, IsInjective
  <2>6. QED  BY <2>3, <2>4, <2>5 DEF SchedulerIInv
<1>5. CASE existing # NoUpgrade
  <2>1. /\ status' = [status EXCEPT ![existing] = s] /\ currentUpgrade' = NoUpgrade
        /\ MoveToCompleted(existing) /\ UNCHANGED <<upgrades, name, made, cancels>> /\ CallerOnly
    BY <1>2, <1>5 DEF Report, UpdateStatus, FinalStates
  <2>2. existing \in Made /\ upgrades[name[existing]] = existing
    BY <1>1, <1>3, <1>5 DEF QueueIInv, ByName
  <2> HIDE DEF existing
  <2>3. /\ QueueIInv'
        /\ scheduledQueue' \in Seq(Made)' /\ completedQueue' \in [Upgrades -> Nat]'
        /\ status' \in [Upgrades -> {"none", "scheduled", "in_progress"} \cup FinalStates]
    BY <1>1, <1>2, <2>1, <2>2, Moved
  <2>4. WorkIInv' /\ CopiedKnown'
    BY <1>1, <1>2, <2>1, <2>2, EndedWork
  <2>5. SchedulerTypeOK'
    <3>1. Made' = Made
      BY <2>1 DEF Made
    <3>2. QED  BY <1>1, <2>1, <2>3, <3>1 DEF SchedulerTypeOK, CallerOnly, workerVars
  <2>6. QED  BY <2>3, <2>4, <2>5 DEF SchedulerIInv
<1>6. QED  BY <1>4, <1>5

LEMMA CancelSteps ==
  ASSUME SchedulerIInv, NEW n \in Names, CancelUpgrade(n) PROVE SchedulerIInv'
<1> DEFINE u == upgrades[n]
<1>1. SchedulerTypeOK /\ QueueIInv /\ CopiedKnown /\ WorkIInv
  BY DEF SchedulerIInv
<1>2. /\ status' = [status EXCEPT ![u] = "cancelled"] /\ MoveToCompleted(u)
      /\ UNCHANGED <<upgrades, currentUpgrade, name, made>> /\ CallerOnly
      /\ cancels < MaxCancels /\ cancels' = cancels + 1
  BY DEF CancelUpgrade
<1>3. u \in Made /\ u # NoUpgrade /\ name[u] = n /\ upgrades[name[u]] = u
  BY <1>1 DEF CancelUpgrade, QueueIInv, ByName
<1>4. status[u] # "in_progress"
  BY DEF CancelUpgrade
<1> HIDE DEF u
<1>5. "cancelled" \in FinalStates
  BY DEF FinalStates
<1>6. currentUpgrade # u
  BY <1>1, <1>3, <1>4 DEF WorkIInv, CurrentInProgress
<1>7. /\ QueueIInv'
      /\ scheduledQueue' \in Seq(Made)' /\ completedQueue' \in [Upgrades -> Nat]'
      /\ status' \in [Upgrades -> {"none", "scheduled", "in_progress"} \cup FinalStates]
  BY <1>1, <1>2, <1>3, <1>5, Moved
<1>8. WorkIInv' /\ CopiedKnown'
  BY <1>1, <1>2, <1>3, <1>5, <1>6, EndedWork
<1>9. SchedulerTypeOK'
  <2>1. Made' = Made
    BY <1>2 DEF Made
  <2>2. cancels' \in 0..MaxCancels
    BY <1>1, <1>2, SchedulerConstants DEF SchedulerTypeOK
  <2>3. QED  BY <1>1, <1>2, <1>7, <2>1, <2>2 DEF SchedulerTypeOK, CallerOnly, workerVars
<1>10. QED  BY <1>7, <1>8, <1>9 DEF SchedulerIInv

\* CleanupOld forgets the names of what has ended: nobody who is still in the queue,
\* or in the worker's copy, has one of them.
LEMMA CleanupSteps == ASSUME SchedulerIInv, CleanupOld PROVE SchedulerIInv'
<1>1. SchedulerTypeOK /\ QueueIInv /\ CopiedKnown /\ WorkIInv
  BY DEF SchedulerIInv
<1>2. PICK old \in SUBSET {u \in Made : completedQueue[u] > 0 /\ \A i \in DOMAIN copied : copied[i] # u} :
        /\ completedQueue' = [u \in Upgrades |-> IF u \in old THEN 0 ELSE completedQueue[u]]
        /\ upgrades' = [n \in Names |-> IF \E u \in old : name[u] = n THEN NoUpgrade
                                        ELSE upgrades[n]]
        /\ UNCHANGED <<scheduledQueue, currentUpgrade, name, status, made, cancels>> /\ CallerOnly
  BY DEF CleanupOld
<1>3. /\ Made' = Made /\ Made \subseteq Upgrades
      /\ \A i \in DOMAIN scheduledQueue : scheduledQueue[i] \in Made
      /\ \A i \in DOMAIN copied : copied[i] \in Made
      /\ \A u \in Upgrades : name[u] \in Names /\ completedQueue[u] \in Nat
  <2>1. Made' = Made
    BY <1>2 DEF Made
  <2>2. QED  BY <1>1, <2>1, MadeUpgrades DEF SchedulerTypeOK
<1>4. ASSUME NEW u \in Upgrades, u \notin old, upgrades[name[u]] = u
      PROVE  upgrades'[name[u]] = u
  <2>1. ASSUME NEW v \in old PROVE name[v] # name[u]
    <3>1. v \in Upgrades /\ completedQueue[v] > 0
      BY <1>2, <1>3
    <3>2. upgrades[name[v]] = v
      BY <1>1, <3>1 DEF QueueIInv, CompletedKnown
    <3>3. QED  BY <1>4, <3>2
  <2>2. QED  BY <1>2, <1>3, <1>4, <2>1
<1>5. ASSUME NEW i \in DOMAIN scheduledQueue
      PROVE  /\ upgrades'[name[scheduledQueue[i]]] = scheduledQueue[i]
             /\ completedQueue'[scheduledQueue[i]] = 0
  <2>1. scheduledQueue[i] \in Upgrades /\ completedQueue[scheduledQueue[i]] = 0
        /\ upgrades[name[scheduledQueue[i]]] = scheduledQueue[i]
    BY <1>1, <1>3 DEF QueueIInv, QueuedKnown
  <2>2. scheduledQueue[i] \notin old
    BY <1>2, <2>1
  <2>3. QED  BY <1>2, <1>4, <2>1, <2>2
<1>6. QueueIInv'
  <2>1. QueueInOrder'
    <3>1. UNCHANGED <<scheduledQueue, name>> /\ QueueInOrder
      BY <1>1, <1>2 DEF QueueIInv
    <3>2. QED  BY ONLY <3>1 DEF QueueInOrder, Sorted, HeightOf, IsInjective
  <2>2. ScheduledIsQueued'
    <3> SUFFICES ASSUME NEW u \in Made, status[u] = "scheduled"
                 PROVE  /\ \E i \in DOMAIN scheduledQueue : scheduledQueue[i] = u
                        /\ upgrades'[name[u]] = u
      BY <1>2, <1>3 DEF ScheduledIsQueued
    <3>1. PICK i \in DOMAIN scheduledQueue : scheduledQueue[i] = u
      BY <1>1 DEF QueueIInv, ScheduledIsQueued
    <3>2. QED  BY <1>5, <3>1
  <2>3. ByName'
    BY <1>1, <1>2, <1>3 DEF QueueIInv, ByName
  <2>4. QueuedKnown'
    BY <1>2, <1>5 DEF QueuedKnown
  <2>5. CompletedKnown'
    <3> SUFFICES ASSUME NEW u \in Upgrades, completedQueue'[u] > 0
                 PROVE  u \in Made /\ upgrades'[name[u]] = u
      BY <1>2, <1>3 DEF CompletedKnown
    <3>1. u \notin old /\ completedQueue[u] > 0
      BY <1>2
    <3>2. u \in Made /\ upgrades[name[u]] = u
      BY <1>1, <3>1 DEF QueueIInv, CompletedKnown
    <3>3. QED  BY <1>4, <3>1, <3>2
  <2>6. QED  BY <2>1, <2>2, <2>3, <2>4, <2>5 DEF QueueIInv
<1>7. CopiedKnown'
  <2> SUFFICES ASSUME NEW i \in DOMAIN copied PROVE upgrades'[name[copied[i]]] = copied[i]
    BY <1>2 DEF CopiedKnown, CallerOnly, workerVars
  <2>1. copied[i] \in Upgrades /\ copied[i] \notin old /\ upgrades[name[copied[i]]] = copied[i]
    BY <1>1, <1>2, <1>3 DEF CopiedKnown
  <2>2. QED  BY <1>4, <2>1
<1>8. WorkIInv'
  BY <1>1, <1>2, <1>3 DEF WorkIInv, CurrentInProgress, TriggeredOnce, TriggeredStatus, WorkerReady,
                          HeightOf, IsInjective, CallerOnly, workerVars
<1>9. SchedulerTypeOK'
  <2>1. completedQueue' \in [Upgrades -> Nat]
    BY <1>2, <1>3
  <2>2. upgrades' \in [Names -> Upgrades \cup {NoUpgrade}]
    BY <1>1, <1>2 DEF SchedulerTypeOK
  <2>3. QED  BY <1>1, <1>2, <1>3, <2>1, <2>2 DEF SchedulerTypeOK, CallerOnly, workerVars
<1>10. QED  BY <1>6, <1>7, <1>8, <1>9 DEF SchedulerIInv

\* What stays true of the queue while the upgrades that are scheduled may leave that status.
LEMMA SameQueue ==
  ASSUME SchedulerIInv, UNCHANGED <<queueVars, name, made>>,
         \A u \in Made : status'[u] = "scheduled" => status[u] = "scheduled"
  PROVE  QueueIInv'
<1>1. QueueIInv /\ Made' = Made
  BY DEF SchedulerIInv, Made
<1>2. QueueInOrder'
  BY <1>1 DEF QueueIInv, QueueInOrder, Sorted, HeightOf, IsInjective, queueVars
<1>3. QED
  BY <1>1, <1>2 DEF QueueIInv, ScheduledIsQueued, ByName, QueuedKnown, CompletedKnown, queueVars

\* The round goes on with the next entry of the copy.
LEMMA NextEntry ==
  ASSUME SchedulerIInv, worker \in {"loop", "trigger", "update"}, NextCopied,
         UNCHANGED <<upgrades, name, made>>
  PROVE  /\ copied' \in Seq(Made)' /\ CopiedKnown'
         /\ worker' \in {"idle", "loop"} /\ (worker' = "loop" => copied' # <<>>)
<1>1. copied \in Seq(Made) /\ copied # <<>> /\ CopiedKnown
  BY DEF SchedulerIInv, SchedulerTypeOK, WorkIInv, WorkerReady
<1>2. copied' \in Seq(Made) /\ \A i \in DOMAIN copied' : i + 1 \in DOMAIN copied /\ copied'[i] = copied[i + 1]
  BY <1>1 DEF NextCopied
<1>3. CopiedKnown'
  BY <1>1, <1>2 DEF CopiedKnown
<1>4. Made' = Made
  BY DEF Made
<1>5. QED  BY <1>2, <1>3, <1>4 DEF NextCopied

\* NewBlock, GetCurrentHeight, GetQueue and CheckUpgrade.
LEMMA LookSteps ==
  ASSUME SchedulerIInv, NewBlock \/ GetCurrentHeight \/ GetQueue \/ CheckUpgrade
  PROVE  SchedulerIInv'
<1>1. SchedulerTypeOK /\ QueueIInv /\ CopiedKnown /\ WorkIInv
  BY DEF SchedulerIInv
<1>2. UNCHANGED <<upgrades, scheduledQueue, completedQueue, currentUpgrade, name, status, made, cancels,
                  triggered>>
  BY DEF NewBlock, GetCurrentHeight, GetQueue, CheckUpgrade, WorkerOnly, queueVars
<1>3. Made' = Made
  BY <1>2 DEF Made
<1>4. QueueIInv'
  BY <1>2, SameQueue DEF queueVars
<1>5. CurrentInProgress' /\ TriggeredStatus' /\ IsInjective(triggered')
  BY <1>1, <1>2, <1>3 DEF WorkIInv, CurrentInProgress, TriggeredStatus, TriggeredOnce
<1>6. /\ height \in Nat /\ seenHeight \in Nat
      /\ \A i \in DOMAIN triggered : triggered[i] \in Made
      /\ \A u \in Made : HeightOf(u) \in Nat
  <2>1. \A i \in DOMAIN triggered : triggered[i] \in Made
    BY <1>1 DEF SchedulerTypeOK
  <2>2. \A u \in Made : HeightOf(u) \in Nat
    BY <1>1, SchedulerConstants, MadeUpgrades DEF SchedulerTypeOK, HeightOf
  <2>3. height \in Nat /\ seenHeight \in Nat
    BY <1>1, SchedulerConstants DEF SchedulerTypeOK
  <2>4. QED  BY <2>1, <2>2, <2>3
<1>7. CASE NewBlock
  <2>1. height' = height + 1 /\ height' \in 0..MaxHeight /\ UNCHANGED <<worker, seenHeight, copied>>
    BY <1>1, <1>7, SchedulerConstants DEF NewBlock, SchedulerTypeOK, workerVars
  <2>2. TriggeredOnce'
    <3>1. \A i \in DOMAIN triggered : /\ HeightOf(triggered[i]) \in Nat
                                      /\ HeightOf(triggered[i]) <= height
      BY <1>1, <1>6 DEF WorkIInv, TriggeredOnce
    <3>2. \A i \in DOMAIN triggered : HeightOf(triggered[i]) <= height + 1
      BY <1>6, <3>1
    <3>3. QED  BY <1>2, <1>5, <2>1, <3>1, <3>2 DEF TriggeredOnce, HeightOf
  <2>3. WorkerReady'
    <3>1. seenHeight <= height + 1
      BY <1>1, <1>6 DEF WorkIInv, WorkerReady
    <3>2. QED  BY <1>1, <1>2, <2>1, <3>1 DEF WorkIInv, WorkerReady, HeightOf
  <2>4. SchedulerTypeOK' /\ CopiedKnown'
    BY <1>1, <1>2, <1>3, <2>1 DEF SchedulerTypeOK, CopiedKnown
  <2>5. QED  BY <1>4, <1>5, <2>2, <2>3, <2>4 DEF SchedulerIInv, WorkIInv
<1>8. CASE GetCurrentHeight
  <2>1. seenHeight' = height /\ worker' = "queue" /\ UNCHANGED <<copied, height>>
    BY <1>8 DEF GetCurrentHeight, WorkerOnly
  <2>2. TriggeredOnce'
    BY <1>1, <1>2, <2>1 DEF WorkIInv, TriggeredOnce, HeightOf, IsInjective
  <2>3. WorkerReady'
    BY <1>6, <2>1 DEF WorkerReady
  <2>4. SchedulerTypeOK' /\ CopiedKnown'
    BY <1>1, <1>2, <1>3, <2>1 DEF SchedulerTypeOK, CopiedKnown
  <2>5. QED  BY <1>4, <1>5, <2>2, <2>3, <2>4 DEF SchedulerIInv, WorkIInv
<1>9. CASE GetQueue
  <2>1. /\ copied' = scheduledQueue /\ worker' = (IF copied' = <<>> THEN "idle" ELSE "loop")
        /\ UNCHANGED <<seenHeight, height>>
    BY <1>9 DEF GetQueue, WorkerOnly
  <2>2. TriggeredOnce'
    BY <1>1, <1>2, <2>1 DEF WorkIInv, TriggeredOnce, HeightOf, IsInjective
  <2>3. WorkerReady'
    BY <1>1, <2>1 DEF WorkIInv, WorkerReady
  <2>4. CopiedKnown'
    BY <1>1, <1>2, <2>1 DEF CopiedKnown, QueueIInv, QueuedKnown
  <2>5. SchedulerTypeOK'
    BY <1>1, <1>2, <1>3, <2>1 DEF SchedulerTypeOK
  <2>6. QED  BY <1>4, <1>5, <2>2, <2>3, <2>4, <2>5 DEF SchedulerIInv, WorkIInv
<1>10. CASE CheckUpgrade
  <2>1. worker = "loop" /\ UNCHANGED <<seenHeight, height>> /\ copied # <<>>
    BY <1>1, <1>10 DEF CheckUpgrade, WorkerOnly, WorkIInv, WorkerReady
  <2>2. TriggeredOnce'
    BY <1>1, <1>2, <2>1 DEF WorkIInv, TriggeredOnce, HeightOf, IsInjective
  <2>3. CASE Due(Head(copied))
    <3>1. worker' = "trigger" /\ copied' = copied
      BY <1>10, <2>3 DEF CheckUpgrade
    <3>2. \A i \in DOMAIN triggered : triggered[i] # Head(copied)
      BY <1>1, <2>3 DEF Due, WorkIInv, TriggeredStatus
    <3>3. HeightOf(Head(copied)) <= seenHeight
      BY <2>3 DEF Due
    <3>4. WorkerReady'
      BY <1>1, <1>2, <2>1, <3>1, <3>2, <3>3 DEF WorkIInv, WorkerReady, HeightOf
    <3>5. SchedulerTypeOK' /\ CopiedKnown'
      BY <1>1, <1>2, <1>3, <2>1, <3>1 DEF SchedulerTypeOK, CopiedKnown
    <3>6. QED  BY <1>4, <1>5, <2>2, <3>4, <3>5 DEF SchedulerIInv, WorkIInv
  <2>4. CASE ~ Due(Head(copied))
    <3>1. NextCopied
      BY <1>10, <2>4 DEF CheckUpgrade
    <3>2. /\ copied' \in Seq(Made)' /\ CopiedKnown'
          /\ worker' \in {"idle", "loop"} /\ (worker' = "loop" => copied' # <<>>)
      BY <1>2, <2>1, <3>1, NextEntry
    <3>3. WorkerReady'
      BY <1>1, <2>1, <3>2 DEF WorkIInv, WorkerReady
    <3>4. SchedulerTypeOK'
      BY <1>1, <1>2, <1>3, <2>1, <3>2 DEF SchedulerTypeOK
    <3>5. QED  BY <1>4, <1>5, <2>2, <3>2, <3>3, <3>4 DEF SchedulerIInv, WorkIInv
  <2>5. QED  BY <2>3, <2>4
<1>11. QED  BY <1>7, <1>8, <1>9, <1>10

\* TriggerUpgrade and TriggerFails: the upgrade at the head of the copy has never been
\* triggered, so that it is not the current one either, whatever happened to it since.
LEMMA TriggerSteps ==
  ASSUME SchedulerIInv, TriggerUpgrade \/ TriggerFails PROVE SchedulerIInv'
<1> DEFINE u == Head(copied)
           s == status'[u]
<1>1. SchedulerTypeOK /\ QueueIInv /\ CopiedKnown /\ WorkIInv
  BY DEF SchedulerIInv
<1>2. /\ worker = "trigger" /\ worker' = "update"
      /\ UNCHANGED <<upgrades, scheduledQueue, completedQueue, currentUpgrade, name, height, seenHeight,
                     copied, made, cancels>>
      /\ \/ /\ status' = [status EXCEPT ![u] = "in_progress"]
            /\ triggered' = Append(triggered, u)
         \/ status' = [status EXCEPT ![u] = "failed"] /\ triggered' = triggered
  BY DEF TriggerUpgrade, TriggerFails, WorkerOnly, queueVars
<1>3. Made' = Made
  BY <1>2 DEF Made
<1>4. /\ copied # <<>> /\ copied \in Seq(Made) /\ seenHeight <= height
      /\ HeightOf(u) <= seenHeight /\ \A i \in DOMAIN triggered : triggered[i] # u
  BY <1>1, <1>2 DEF WorkIInv, WorkerReady, SchedulerTypeOK
<1>5. u \in Made /\ u \in Upgrades /\ Made \subseteq Upgrades
  BY <1>1, <1>4, MadeUpgrades
<1>6. HeightOf(u) \in Nat /\ seenHeight \in Nat /\ height \in Nat
  <2>1. seenHeight \in Nat /\ height \in Nat
    BY <1>1, SchedulerConstants DEF SchedulerTypeOK
  <2>2. name[u] \in Names
    BY <1>1, <1>5 DEF SchedulerTypeOK
  <2>3. QED  BY <2>1, <2>2, SchedulerConstants DEF HeightOf
<1> HIDE DEF u
<1>7. /\ s \in {"in_progress", "failed"} /\ \A v \in Upgrades : v # u => status'[v] = status[v]
      /\ status' \in [Upgrades -> {"none", "scheduled", "in_progress"} \cup FinalStates]
      /\ (triggered' = Append(triggered, u)) \/ (s = "failed" /\ triggered' = triggered)
  BY <1>1, <1>2, <1>5 DEF SchedulerTypeOK, FinalStates
<1> HIDE DEF s
<1>8. status[u] # "in_progress"
  BY <1>1, <1>4, <1>5 DEF WorkIInv, TriggeredStatus
<1>9. triggered \in Seq(Made) /\ Len(triggered) \in Nat /\ DOMAIN triggered = 1..Len(triggered)
  BY <1>1 DEF SchedulerTypeOK
<1>10. /\ triggered' \in Seq(Made)
       /\ \A i \in DOMAIN triggered : i \in DOMAIN triggered' /\ triggered'[i] = triggered[i]
       /\ \A i \in DOMAIN triggered' : i \in DOMAIN triggered \/ (i = Len(triggered) + 1 /\ triggered'[i] = u)
       /\ s = "failed" \/ \E i \in DOMAIN triggered' : triggered'[i] = u
  <2>1. CASE triggered' = Append(triggered, u)
    <3>1. /\ triggered' \in Seq(Made) /\ DOMAIN triggered' = 1..(Len(triggered) + 1)
          /\ triggered'[Len(triggered) + 1] = u
          /\ \A i \in 1..Len(triggered) : triggered'[i] = triggered[i]
      BY <1>5, <1>9, <2>1
    <3>2. QED  BY ONLY <1>9, <3>1
  <2>2. CASE s = "failed" /\ triggered' = triggered
    BY <1>9, <2>2
  <2>3. QED  BY <1>7, <2>1, <2>2
<1>11. QueueIInv'
  <2>1. \A v \in Made : status'[v] = "scheduled" => status[v] = "scheduled"
    BY <1>5, <1>7 DEF s
  <2>2. QED  BY <1>2, <2>1, SameQueue DEF queueVars
<1>12. CopiedKnown'
  BY <1>1, <1>2 DEF CopiedKnown
<1>13. CurrentInProgress'
  <2>1. currentUpgrade # NoUpgrade => currentUpgrade \in Upgrades /\ currentUpgrade # u
    BY <1>1, <1>5, <1>8 DEF WorkIInv, CurrentInProgress, SchedulerTypeOK
  <2>2. QED  BY <1>1, <1>2, <1>7, <2>1 DEF WorkIInv, CurrentInProgress
<1>14. TriggeredOnce'
  <2>1. IsInjective(triggered')
    BY <1>1, <1>4, <1>9, <1>10 DEF WorkIInv, TriggeredOnce, IsInjective
  <2>2. ASSUME NEW i \in DOMAIN triggered' PROVE HeightOf(triggered'[i]) <= height
    <3>1. CASE i \in DOMAIN triggered
      BY <1>1, <1>10, <3>1 DEF WorkIInv, TriggeredOnce
    <3>2. CASE triggered'[i] = u
      BY <1>4, <1>6, <3>2
    <3>3. QED  BY <1>10, <3>1, <3>2
  <2>3. QED  BY <1>2, <2>1, <2>2 DEF TriggeredOnce, HeightOf
<1>15. TriggeredStatus'
  <2>1. ASSUME NEW i \in DOMAIN triggered' PROVE status'[triggered'[i]] # "scheduled"
    <3>1. CASE i \in DOMAIN triggered
      <4>1. triggered[i] \in Upgrades /\ triggered[i] # u /\ status[triggered[i]] # "scheduled"
        BY <1>1, <1>4, <1>5, <1>9, <3>1 DEF WorkIInv, TriggeredStatus
      <4>2. QED  BY <1>7, <1>10, <3>1, <4>1
    <3>2. CASE triggered'[i] = u
      BY <1>7, <3>2 DEF s
    <3>3. QED  BY <1>10, <3>1, <3>2
  <2>2. ASSUME NEW v \in Made, status'[v] = "in_progress"
        PROVE  \E i \in DOMAIN triggered' : triggered'[i] = v
    <3>1. CASE v = u
      BY <1>10, <2>2, <3>1 DEF s
    <3>2. CASE v # u
      <4>1. PICK i \in DOMAIN triggered : triggered[i] = v
        BY <1>1, <1>5, <1>7, <2>2, <3>2 DEF WorkIInv, TriggeredStatus
      <4>2. QED  BY <1>10, <4>1
    <3>3. QED  BY <3>1, <3>2
  <2>3. QED  BY <1>3, <2>1, <2>2 DEF TriggeredStatus
<1>16. WorkerReady'
  BY <1>2, <1>4 DEF WorkerReady
<1>17. SchedulerTypeOK'
  BY <1>1, <1>2, <1>3, <1>7, <1>10 DEF SchedulerTypeOK
<1>18. QED  BY <1>11, <1>12, <1>13, <1>14, <1>15, <1>16, <1>17 DEF SchedulerIInv, WorkIInv

\* The scheduler is told of the upgrade under its name: it is that very upgrade.
LEMMA UpdateSteps == ASSUME SchedulerIInv, UpdateTriggered PROVE SchedulerIInv'
<1> DEFINE u == Head(copied)
           s == status[u]
<1>1. SchedulerTypeOK /\ QueueIInv /\ CopiedKnown /\ WorkIInv
  BY DEF SchedulerIInv
<1>2. copied # <<>> /\ copied \in Seq(Made) /\ worker = "update"
  BY <1>1 DEF WorkIInv, WorkerReady, SchedulerTypeOK, UpdateTriggered
<1>3. u \in Made /\ upgrades[name[u]] = u /\ u \in Upgrades /\ u # NoUpgrade
  BY <1>1, <1>2, MadeUpgrades, SchedulerConstants DEF CopiedKnown
<1>4. /\ status' = [status EXCEPT ![u] = s] /\ NextCopied
      /\ UNCHANGED <<upgrades, seenHeight, name, height, made, cancels, triggered>>
      /\ \/ /\ s = "in_progress" /\ currentUpgrade' = u
            /\ UNCHANGED <<scheduledQueue, completedQueue>>
         \/ s \in FinalStates /\ currentUpgrade' = NoUpgrade /\ MoveToCompleted(u)
  BY <1>3 DEF UpdateTriggered, UpdateStatus
<1>5. Made' = Made
  BY <1>4 DEF Made
<1> HIDE DEF u, s
<1>6. status' = status
  BY <1>1, <1>3, <1>4 DEF SchedulerTypeOK, s
<1>7. /\ copied' \in Seq(Made)' /\ CopiedKnown'
      /\ worker' \in {"idle", "loop"} /\ (worker' = "loop" => copied' # <<>>)
  BY <1>2, <1>4, NextEntry
<1>8. TriggeredOnce' /\ TriggeredStatus'
  BY <1>1, <1>4, <1>5, <1>6 DEF WorkIInv, TriggeredOnce, TriggeredStatus, HeightOf, IsInjective
<1>9. WorkerReady'
  BY <1>1, <1>4, <1>7 DEF WorkIInv, WorkerReady
<1>10. CASE /\ s = "in_progress" /\ currentUpgrade' = u
            /\ UNCHANGED <<scheduledQueue, completedQueue>>
  <2>1. CurrentInProgress'
    BY <1>6, <1>10 DEF CurrentInProgress, s
  <2>2. SchedulerTypeOK'
    BY <1>1, <1>3, <1>4, <1>5, <1>6, <1>7, <1>10 DEF SchedulerTypeOK
  <2>3. QueueIInv'
    <3>1. QueueInOrder'
      <4>1. UNCHANGED <<scheduledQueue, name>> /\ QueueInOrder
        BY <1>1, <1>4, <1>10 DEF QueueIInv
      <4>2. QED  BY ONLY <4>1 DEF QueueInOrder, Sorted, HeightOf, IsInjective
    <3>2. QED
      BY <1>1, <1>4, <1>5, <1>6, <1>10, <3>1 DEF QueueIInv, ScheduledIsQueued, ByName, QueuedKnown,
                                                 CompletedKnown
  <2>4. QED  BY <1>7, <1>8, <1>9, <2>1, <2>2, <2>3 DEF SchedulerIInv, WorkIInv
<1>11. CASE s \in FinalStates /\ currentUpgrade' = NoUpgrade /\ MoveToCompleted(u)
  <2>1. /\ QueueIInv'
        /\ scheduledQueue' \in Seq(Made)' /\ completedQueue' \in [Upgrades -> Nat]'
    BY <1>1, <1>3, <1>4, <1>11, Moved
  <2>2. CurrentInProgress'
    BY <1>11 DEF CurrentInProgress
  <2>3. SchedulerTypeOK'
    BY <1>1, <1>4, <1>5, <1>6, <1>7, <1>11, <2>1 DEF SchedulerTypeOK
  <2>4. QED  BY <1>7, <1>8, <1>9, <2>1, <2>2, <2>3 DEF SchedulerIInv, WorkIInv
<1>12. QED  BY <1>4, <1>10, <1>11

\* ScheduleUpgrade, with a name that is free.
LEMMA ScheduleSteps ==
  ASSUME SchedulerIInv, NEW n \in Names, ScheduleUpgrade(n) PROVE SchedulerIInv'
<1> DEFINE u == made'
           sq == scheduledQueue
           q == scheduledQueue'
           h(v) == NameHeight[name'[v]]
<1>1. SchedulerTypeOK /\ QueueIInv /\ CopiedKnown /\ WorkIInv
  BY DEF SchedulerIInv
<1>2. /\ upgrades[n] = NoUpgrade /\ made < MaxUpgrades /\ u = made + 1
      /\ upgrades' = [upgrades EXCEPT ![n] = u] /\ name' = [name EXCEPT ![u] = n]
      /\ status' = [status EXCEPT ![u] = "scheduled"] /\ Enqueue(u, n)
      /\ UNCHANGED <<completedQueue, currentUpgrade, cancels, worker, seenHeight, copied, height, triggered>>
  BY DEF ScheduleUpgrade, NewUpgrade, CallerOnly, workerVars
<1>3. /\ u \in Upgrades /\ u \notin Made /\ Made' = Made \cup {u} /\ u # NoUpgrade
      /\ u \in 0..MaxUpgrades /\ NoUpgrade \notin Made
  <2>1. made \in Nat /\ u = made + 1 /\ u \in 1..MaxUpgrades
    BY <1>1, <1>2, SchedulerConstants DEF SchedulerTypeOK
  <2>2. 1..u = 1..made \cup {u} /\ u \notin 1..made /\ 0 \notin 1..made /\ u # 0 /\ u \in 0..MaxUpgrades
    BY <2>1, SchedulerConstants
  <2>3. QED  BY <2>1, <2>2 DEF Made, Upgrades, NoUpgrade
<1>4. Made \subseteq Upgrades
  BY <1>1, MadeUpgrades
<1> HIDE DEF u
<1>5. /\ \A v \in Upgrades : v # u => name'[v] = name[v] /\ status'[v] = status[v]
      /\ name'[u] = n /\ status'[u] = "scheduled"
      /\ name' \in [Upgrades -> Names]
      /\ status' \in [Upgrades -> {"none", "scheduled", "in_progress"} \cup FinalStates]
  BY <1>1, <1>2, <1>3 DEF SchedulerTypeOK
<1>6. /\ \A m \in Names : m # n => upgrades'[m] = upgrades[m]
      /\ upgrades'[n] = u /\ upgrades' \in [Names -> Upgrades \cup {NoUpgrade}]
  BY <1>1, <1>2, <1>3 DEF SchedulerTypeOK
<1>7. \A v \in Made : /\ name'[v] = name[v] /\ status'[v] = status[v] /\ v # u /\ v \in Upgrades
                      /\ name[v] \in Names
  BY <1>1, <1>3, <1>4, <1>5 DEF SchedulerTypeOK
<1>8. ASSUME NEW v \in Made, upgrades[name[v]] = v PROVE upgrades'[name'[v]] = v
  <2>1. name[v] # n
    BY <1>2, <1>3, <1>8
  <2>2. QED  BY <1>6, <1>7, <1>8, <2>1
<1>9. \A v \in Made : h(v) = HeightOf(v)
  BY <1>7 DEF HeightOf
<1>10. h(u) = NameHeight[n]
  BY <1>5
<1> HIDE DEF h
<1>11. PICK i \in 1..Len(sq) + 1 :
         /\ \A j \in DOMAIN sq :
              IF j < i THEN HeightOf(sq[j]) <= NameHeight[n] ELSE HeightOf(sq[j]) >= NameHeight[n]
         /\ q = InsertAt(sq, i, u)
  BY <1>2 DEF Enqueue
<1>12. sq \in Seq(Made) /\ \A j \in DOMAIN sq : sq[j] \in Made
  BY <1>1 DEF SchedulerTypeOK
<1>13. q \in Seq(Made') /\ More(q, sq, i, u)
  <2>1. sq \in Seq(Made') /\ u \in Made'
    BY <1>3, <1>12
  <2>2. QED  BY ONLY <2>1, <1>11, InsertAtKeeps
<1>14. PICK g \in [DOMAIN sq -> DOMAIN q \ {i}] :
         /\ \A j \in DOMAIN sq : q[g[j]] = sq[j] /\ (j < i <=> g[j] < i)
         /\ \A j, k \in DOMAIN sq : j < k => g[j] < g[k]
         /\ \A k \in DOMAIN q \ {i} : \E j \in DOMAIN sq : g[j] = k
  BY <1>13 DEF More
<1>15. i \in DOMAIN q /\ q[i] = u
  BY <1>13 DEF More
<1>16. DOMAIN q \subseteq Nat /\ DOMAIN sq \subseteq Nat /\ i \in Nat
  BY <1>12, <1>13
<1>17. \A k \in DOMAIN q : k = i \/ \E j \in DOMAIN sq : g[j] = k /\ q[k] = sq[j]
  BY <1>14
<1> HIDE DEF q, sq
<1>18. QueueInOrder'
  <2>1. ASSUME NEW a \in DOMAIN q, NEW b \in DOMAIN q, a < b
        PROVE  h(q[a]) <= h(q[b])
    <3>1. CASE a = i
      <4>1. PICK j \in DOMAIN sq : g[j] = b /\ q[b] = sq[j]
        BY <1>16, <1>17, <2>1, <3>1
      <4>2. ~ (j < i)
        BY <1>14, <1>16, <2>1, <3>1, <4>1
      <4>3. NameHeight[n] <= HeightOf(sq[j])
        BY <1>11, <1>12, <4>2
      <4>4. QED  BY <1>9, <1>10, <1>12, <1>15, <3>1, <4>1, <4>3
    <3>2. CASE b = i
      <4>1. PICK j \in DOMAIN sq : g[j] = a /\ q[a] = sq[j]
        BY <1>16, <1>17, <2>1, <3>2
      <4>2. j < i
        BY <1>14, <2>1, <3>2, <4>1
      <4>3. HeightOf(sq[j]) <= NameHeight[n]
        BY <1>11, <4>2
      <4>4. QED  BY <1>9, <1>10, <1>12, <1>15, <3>2, <4>1, <4>3
    <3>3. CASE a # i /\ b # i
      <4>1. PICK j \in DOMAIN sq, k \in DOMAIN sq :
              g[j] = a /\ q[a] = sq[j] /\ g[k] = b /\ q[b] = sq[k]
        BY <1>17, <3>3
      <4>2. ~ (k < j) /\ k # j
        BY <1>14, <1>16, <2>1, <4>1
      <4>3. j < k
        BY <1>16, <4>2
      <4>4. HeightOf(sq[j]) <= HeightOf(sq[k])
        BY <1>1, <4>3 DEF QueueIInv, QueueInOrder, Sorted, sq
      <4>5. QED  BY <1>9, <1>12, <4>1, <4>4
    <3>4. QED  BY <3>1, <3>2, <3>3
  <2>2. ASSUME NEW a \in DOMAIN q, NEW b \in DOMAIN q, q[a] = q[b] PROVE a = b
    <3>1. \A j, k \in DOMAIN sq : sq[j] = sq[k] => j = k
      BY <1>1 DEF QueueIInv, QueueInOrder, IsInjective, sq
    <3>2. \A j \in DOMAIN sq : sq[j] # u
      BY <1>7, <1>12
    <3>3. QED  BY <1>15, <1>17, <2>2, <3>1, <3>2
  <2>3. Sorted(scheduledQueue)'
    BY <2>1 DEF Sorted, HeightOf, h, q
  <2>4. QED  BY <2>2, <2>3 DEF QueueInOrder, IsInjective, q
<1>19. ASSUME NEW j \in DOMAIN sq PROVE \E k \in DOMAIN q : q[k] = sq[j]
  BY <1>14
<1>20. ASSUME NEW v \in Made', status'[v] = "scheduled"
       PROVE  (\E k \in DOMAIN q : q[k] = v) /\ upgrades'[name'[v]] = v
  <2>1. CASE v = u
    BY <1>5, <1>6, <1>15, <2>1
  <2>2. CASE v \in Made
    <3>1. upgrades[name[v]] = v /\ \E j \in DOMAIN sq : sq[j] = v
      BY <1>1, <1>7, <1>20, <2>2 DEF QueueIInv, ScheduledIsQueued, sq
    <3>2. QED  BY <1>8, <1>19, <2>2, <3>1
  <2>3. QED  BY <1>3, <2>1, <2>2
<1>21. ByName'
  <2> SUFFICES ASSUME NEW m \in Names, upgrades'[m] # NoUpgrade
               PROVE  upgrades'[m] \in Made' /\ name'[upgrades'[m]] = m
    BY DEF ByName
  <2>1. CASE m = n
    BY <1>3, <1>5, <1>6, <2>1
  <2>2. CASE m # n
    <3>1. upgrades'[m] = upgrades[m]
      BY <1>6, <2>2
    <3>2. upgrades[m] \in Made /\ name[upgrades[m]] = m
      BY <1>1, <3>1 DEF QueueIInv, ByName
    <3>3. QED  BY <1>3, <1>7, <3>1, <3>2
  <2>3. QED  BY <2>1, <2>2
<1>22. \A v \in Upgrades : completedQueue[v] > 0 => v \in Made /\ upgrades[name[v]] = v
  BY <1>1 DEF QueueIInv, CompletedKnown
<1>23. ASSUME NEW k \in DOMAIN q
       PROVE  upgrades'[name'[q[k]]] = q[k] /\ completedQueue'[q[k]] = 0
  <2>1. CASE k = i
    <3>1. completedQueue[u] = 0
      BY <1>1, <1>3, <1>22 DEF SchedulerTypeOK
    <3>2. QED  BY <1>2, <1>5, <1>6, <1>15, <2>1, <3>1
  <2>2. CASE k # i
    <3>1. PICK j \in DOMAIN sq : q[k] = sq[j]
      BY <1>17, <2>2
    <3>2. upgrades[name[sq[j]]] = sq[j] /\ completedQueue[sq[j]] = 0
      BY <1>1 DEF QueueIInv, QueuedKnown, sq
    <3>3. QED  BY <1>2, <1>8, <1>12, <3>1, <3>2
  <2>3. QED  BY <2>1, <2>2
<1>24. CompletedKnown'
  <2> SUFFICES ASSUME NEW v \in Upgrades, completedQueue[v] > 0
               PROVE  v \in Made' /\ upgrades'[name'[v]] = v
    BY <1>2 DEF CompletedKnown
  <2>1. QED  BY <1>3, <1>8, <1>22
<1>25. QueueIInv'
  <2>1. ScheduledIsQueued'
    BY <1>20 DEF ScheduledIsQueued, q
  <2>2. QueuedKnown'
    BY <1>23 DEF QueuedKnown, q
  <2>3. QED  BY <1>18, <1>21, <1>24, <2>1, <2>2 DEF QueueIInv
<1>26. CopiedKnown'
  <2>1. \A j \in DOMAIN copied : copied[j] \in Made
    BY <1>1 DEF SchedulerTypeOK
  <2>2. QED  BY <1>1, <1>2, <1>8, <2>1 DEF CopiedKnown
<1>27. WorkIInv'
  <2>1. \A j \in DOMAIN triggered : triggered[j] \in Made
    BY <1>1 DEF SchedulerTypeOK
  <2>2. CurrentInProgress'
    BY <1>1, <1>2, <1>7 DEF SchedulerTypeOK, WorkIInv, CurrentInProgress
  <2>3. TriggeredOnce'
    <3>1. ASSUME NEW j \in DOMAIN triggered PROVE h(triggered[j]) <= height
      BY <1>1, <1>2, <1>9, <2>1 DEF WorkIInv, TriggeredOnce
    <3>2. QED  BY <1>1, <1>2, <3>1 DEF WorkIInv, TriggeredOnce, IsInjective, HeightOf, h
  <2>4. TriggeredStatus'
    <3>1. \A j \in DOMAIN triggered : status'[triggered[j]] # "scheduled"
      BY <1>1, <1>7, <2>1 DEF WorkIInv, TriggeredStatus
    <3>2. \A v \in Made' : status'[v] = "in_progress" => v \in Made /\ status[v] = "in_progress"
      BY <1>3, <1>5, <1>7
    <3>3. QED  BY <1>1, <1>2, <3>1, <3>2 DEF WorkIInv, TriggeredStatus
  <2>5. WorkerReady'
    <3>1. copied # <<>> => Head(copied) \in Made
      BY <1>1 DEF SchedulerTypeOK
    <3>2. copied # <<>> => NameHeight[name'[Head(copied)]] = HeightOf(Head(copied))
      BY <1>9, <3>1 DEF h
    <3>3. QED  BY <1>1, <1>2, <3>2 DEF WorkIInv, WorkerReady, HeightOf
  <2>6. QED  BY <2>2, <2>3, <2>4, <2>5 DEF WorkIInv
<1>28. SchedulerTypeOK'
  <2>1. currentUpgrade \in Made' \cup {NoUpgrade}
    BY <1>1, <1>3 DEF SchedulerTypeOK
  <2>2. copied \in Seq(Made') /\ triggered \in Seq(Made')
    BY <1>1, <1>3 DEF SchedulerTypeOK
  <2>3. made' \in 0..MaxUpgrades
    BY <1>3 DEF u
  <2>4. QED  BY <1>1, <1>2, <1>5, <1>6, <1>13, <2>1, <2>2, <2>3 DEF SchedulerTypeOK, q
<1>29. QED  BY <1>25, <1>26, <1>27, <1>28 DEF SchedulerIInv

\* The scheduler's queue, its names and its current upgrade agree with the status that
\* its callers and the worker write without one lock: whatever is scheduled waits in
\* the queue, in the order of the heights, no ended upgrade is the current one, and no
\* upgrade is triggered twice, or before its height.
THEOREM SchedulerInvariant == SchedulerSpec => []SchedulerInv
<1>1. SchedulerIInv /\ [SchedulerNext]_schedulerVars => SchedulerIInv'
  <2> SUFFICES ASSUME SchedulerIInv, [SchedulerNext]_schedulerVars PROVE SchedulerIInv'
    OBVIOUS
  <2>1. CASE SchedulerNext
    <3>1. CASE \E n \in Names : ScheduleUpgrade(n) \/ CancelUpgrade(n)
      BY <3>1, ScheduleSteps, CancelSteps
    <3>2. CASE \E s \in {"completed", "failed"} : Report(s)
      BY <3>2, ReportSteps
    <3>3. CASE CleanupOld
      BY <3>3, CleanupSteps
    <3>4. CASE NewBlock \/ GetCurrentHeight \/ GetQueue \/ CheckUpgrade
      BY <3>4, LookSteps
    <3>5. CASE TriggerUpgrade \/ TriggerFails
      BY <3>5, TriggerSteps
    <3>6. CASE UpdateTriggered
      BY <3>6, UpdateSteps
    <3>7. QED  BY <2>1, <3>1, <3>2, <3>3, <3>4, <3>5, <3>6 DEF SchedulerNext, ProcessUpgradeQueue
  <2>2. CASE UNCHANGED schedulerVars
    <3>1. UNCHANGED <<upgrades, scheduledQueue, completedQueue, currentUpgrade, name, status, height,
                      worker, seenHeight, copied, made, cancels, triggered>>
      BY <2>2 DEF schedulerVars, queueVars, workerVars
    <3>2. QED
      BY <3>1 DEF SchedulerIInv, SchedulerTypeOK, QueueIInv, QueueInOrder, Sorted, HeightOf, IsInjective,
                  ScheduledIsQueued, ByName, QueuedKnown, CompletedKnown, CopiedKnown, WorkIInv,
                  CurrentInProgress, TriggeredOnce, TriggeredStatus, WorkerReady, Made
  <2>3. QED  BY <2>1, <2>2
<1>2. SchedulerIInv => SchedulerInv
  BY DEF SchedulerIInv, SchedulerInv, QueueIInv, WorkIInv
<1>3. QED  BY <1>1, <1>2, SchedulerInitial, PTL DEF SchedulerSpec

-----------------------------------------------------------------------------
(***************************************************************************)
(* The notifier, for any number of notifications and any stored history:   *)
(* NotifierSpec => NothingLost.  The older a notification is, the more of  *)
(* those that are stored are younger than it (AboveFacts).                 *)
(***************************************************************************)

NotifierIInv ==
  /\ notified \in Nat /\ expired \in Nat
  /\ unsent \subseteq 1..notified /\ stored \subseteq 1..notified

Above(S, n) == {m \in S : m > n}

LEMMA AboveFacts ==
  ASSUME NEW S \in SUBSET Int, IsFiniteSet(S), NEW n \in Int
  PROVE  /\ IsFiniteSet(Above(S, n)) /\ Cardinality(Above(S, n)) \in Nat
         /\ \A m \in S : m > n => Cardinality(Above(S, m)) < Cardinality(Above(S, n))
<1>1. IsFiniteSet(Above(S, n)) /\ Cardinality(Above(S, n)) \in Nat
  <2>1. Above(S, n) \in SUBSET S
    BY DEF Above
  <2>2. QED  BY <2>1, FS_Subset, FS_CardinalityType
<1>2. ASSUME NEW m \in S, m > n
      PROVE  Cardinality(Above(S, m)) < Cardinality(Above(S, n))
  <2>1. Above(S, m) \in SUBSET (Above(S, n) \ {m}) /\ m \in Above(S, n)
    <3>1. ASSUME NEW x \in Int, x > m
          PROVE  x > n /\ x # m
      BY <1>2, <3>1
    <3>2. QED  BY <1>2, <3>1 DEF Above
  <2>2. /\ IsFiniteSet(Above(S, n) \ {m})
        /\ Cardinality(Above(S, n) \ {m}) = Cardinality(Above(S, n)) - 1
    BY <1>1, <2>1, FS_RemoveElement
  <2>3. /\ Cardinality(Above(S, m)) <= Cardinality(Above(S, n) \ {m})
        /\ Cardinality(Above(S, m)) \in Nat
    BY <2>1, <2>2, FS_Subset, FS_CardinalityType
  <2>4. QED  BY <1>1, <2>2, <2>3
<1>3. QED  BY <1>1, <1>2

\* Of the numbers above n there is exactly one of each rank below their number.
LEMMA RanksAreTaken ==
  ASSUME NEW S \in SUBSET Int, IsFiniteSet(S), NEW n \in Int, NEW max \in Nat,
         max <= Cardinality(Above(S, n))
  PROVE  Cardinality({m \in Above(S, n) : Cardinality(Above(S, m)) < max}) = max
<1> DEFINE T    == Above(S, n)
           k    == Cardinality(T)
           U    == {m \in T : Cardinality(Above(S, m)) < max}
           rank == [m \in T |-> Cardinality(Above(S, m))]
           r    == [m \in U |-> Cardinality(Above(S, m))]
<1>1. T \subseteq S /\ T \subseteq Int /\ IsFiniteSet(T) /\ k \in Nat
  BY AboveFacts DEF Above
<1>2. ASSUME NEW m \in T
      PROVE  Cardinality(Above(S, m)) \in 0..(k - 1)
  <2>1. m \in S /\ m \in Int /\ m > n
    BY <1>1, <1>2 DEF Above
  <2>2. Cardinality(Above(S, m)) < k /\ Cardinality(Above(S, m)) \in Nat
    BY <2>1, AboveFacts
  <2>3. QED  BY <1>1, <2>2
<1>3. ASSUME NEW l \in T, NEW m \in T, l # m
      PROVE  Cardinality(Above(S, l)) # Cardinality(Above(S, m))
  <2>1. l \in S /\ l \in Int /\ m \in S /\ m \in Int /\ (l > m \/ m > l)
    BY <1>1, <1>3
  <2>2. Cardinality(Above(S, l)) \in Nat /\ Cardinality(Above(S, m)) \in Nat
    BY <2>1, AboveFacts
  <2>3. l > m => Cardinality(Above(S, l)) < Cardinality(Above(S, m))
    BY <2>1, AboveFacts
  <2>4. m > l => Cardinality(Above(S, m)) < Cardinality(Above(S, l))
    BY <2>1, AboveFacts
  <2>5. QED  BY <2>1, <2>2, <2>3, <2>4
<1>4. rank \in Surjection(T, 0..(k - 1))
  <2>1. rank \in Injection(T, 0..(k - 1))
    <3>1. rank \in [T -> 0..(k - 1)] /\ \A m \in T : rank[m] = Cardinality(Above(S, m))
      BY <1>2
    <3>2. \A l, m \in T : rank[l] = rank[m] => l = m
      BY <1>3, <3>1
    <3>3. QED  BY <3>1, <3>2 DEF Injection, IsInjective
  <2>2. IsFiniteSet(0..(k - 1)) /\ Cardinality(0..(k - 1)) = k
    <3>1. ASSUME NEW i \in Nat
          PROVE  IsFiniteSet(0..(i - 1)) /\ Cardinality(0..(i - 1)) = i
      BY FS_Interval
    <3>2. QED  BY <1>1, <3>1
  <2>3. QED  BY <2>1, <2>2, FS_Injection
<1>5. r \in Bijection(U, 0..(max - 1))
  <2>1. U \subseteq T /\ \A m \in U : r[m] = rank[m] /\ r[m] \in 0..(max - 1)
    BY <1>2
  <2>2. r \in Injection(U, 0..(max - 1))
    <3>1. r \in [U -> 0..(max - 1)] /\ \A m \in U : r[m] = Cardinality(Above(S, m))
      BY <2>1
    <3>2. \A l, m \in U : r[l] = r[m] => l = m
      BY <1>3, <2>1, <3>1
    <3>3. QED  BY <3>1, <3>2 DEF Injection, IsInjective
  <2>3. ASSUME NEW i \in 0..(max - 1)
        PROVE  \E m \in U : r[m] = i
    <3>1. i \in 0..(k - 1) /\ i < max
      BY <1>1
    <3>2. PICK m \in T : rank[m] = i
      BY <1>4, <3>1 DEF Surjection
    <3>3. QED  BY <3>1, <3>2
  <2>4. r \in Surjection(U, 0..(max - 1))
    BY <2>1, <2>3 DEF Surjection
  <2>5. QED  BY <2>2, <2>4 DEF Bijection
<1>6. /\ ExistsBijection(U, 0..(max - 1)) /\ IsFiniteSet(U)
      /\ Cardinality(0..(max - 1)) = max
  <2>1. U \in SUBSET T
    OBVIOUS
  <2>2. IsFiniteSet(U)
    BY <1>1, <2>1, FS_Subset
  <2>3. Cardinality(0..(max - 1)) = max
    BY FS_Interval
  <2>4. QED  BY <1>5, <2>2, <2>3 DEF ExistsBijection
<1>7. QED  BY <1>6, FS_Bijection

LEMMA NewestFacts ==
  ASSUME NEW S \in SUBSET Int, IsFiniteSet(S), NEW n \in S, n \notin Newest(S)
  PROVE  Cardinality({m \in Newest(S) : m > n}) = MaxNotifications
<1>1. n \in Int /\ MaxNotifications \in Nat /\ Cardinality(Above(S, n)) \in Nat
  BY NotifierAssumption, AboveFacts
<1>2. MaxNotifications <= Cardinality(Above(S, n))
  BY <1>1 DEF Newest, Above
<1>3. {m \in Newest(S) : m > n} = {m \in Above(S, n) : Cardinality(Above(S, m)) < MaxNotifications}
  BY DEF Newest, Above
<1>4. QED  BY <1>1, <1>2, <1>3, RanksAreTaken

LEMMA NotifierInductive == NotifierSpec => []NotifierIInv
<1>1. NotifierInit => NotifierIInv
  BY DEF NotifierInit, NotifierIInv
<1>2. NotifierIInv /\ [NotifierNext]_notifierVars => NotifierIInv'
  <2> SUFFICES ASSUME NotifierIInv, [NotifierNext]_notifierVars PROVE NotifierIInv'
    OBVIOUS
  <2> USE DEF NotifierIInv
  <2>1. CASE Notify
    BY <2>1 DEF Notify
  <2>2. ASSUME NEW n \in unsent, SendNotification(n)
        PROVE  NotifierIInv'
    BY <2>2 DEF SendNotification
  <2>3. CASE NotifierCleanupOld
    BY <2>3 DEF NotifierCleanupOld, Newest
  <2>4. CASE NotifierTime
    BY <2>4 DEF NotifierTime
  <2>5. CASE \/ SetEnabled \/ MarkAsRead \/ \E g \in handling : Handle(g)
             \/ \E h \in Handlers : AddHandler(h) \/ RemoveHandler(h)
    BY <2>5 DEF SetEnabled, MarkAsRead, Handle, AddHandler, RemoveHandler
  <2>6. CASE UNCHANGED notifierVars
    BY <2>6 DEF notifierVars
  <2>7. QED  BY <2>1, <2>2, <2>3, <2>4, <2>5, <2>6 DEF NotifierNext
<1>3. QED  BY <1>1, <1>2, PTL DEF NotifierSpec

\* NothingLost: what the clean-up removes has expired, or as many newer
\* notifications as may be kept are kept; and nothing becomes unread
\* (cleanupOldNotifications).
THEOREM NotifierLosesNothing == NotifierSpec => NothingLost
<1> DEFINE Kept == /\ \A n \in stored \ stored' :
                        n <= expired \/ Cardinality({m \in stored' : m > n}) = MaxNotifications
                   /\ read \cap stored' \subseteq read'
<1>1. ASSUME NotifierIInv, NotifierNext
      PROVE  Kept
  <2>1. CASE NotifierCleanupOld
    <3> DEFINE S == {n \in stored : n > expired}
    <3>1. stored \subseteq Int /\ expired \in Int /\ IsFiniteSet(stored)
      <4>1. notified \in Nat /\ stored \in SUBSET (1..notified) /\ expired \in Int
        BY <1>1 DEF NotifierIInv
      <4>2. IsFiniteSet(1..notified)
        BY <4>1, FS_Interval
      <4>3. IsFiniteSet(stored)
        BY <4>1, <4>2, FS_Subset
      <4>4. QED  BY <4>1, <4>3
    <3>2. S \in SUBSET stored /\ S \in SUBSET Int /\ IsFiniteSet(S)
      <4>1. S \in SUBSET stored
        OBVIOUS
      <4>2. QED  BY <3>1, <4>1, FS_Subset
    <3>3. stored' = Newest(S) /\ read' = read \cap stored'
      BY <2>1 DEF NotifierCleanupOld
    <3>4. ASSUME NEW n \in stored \ stored', ~ (n <= expired)
          PROVE  Cardinality({m \in stored' : m > n}) = MaxNotifications
      <4>1. n \in S /\ n \notin Newest(S)
        BY <3>1, <3>3, <3>4
      <4>2. QED  BY <3>2, <3>3, <4>1, NewestFacts
    <3>5. QED  BY <3>3, <3>4
  <2>2. CASE \E n \in unsent : SendNotification(n)
    BY <2>2 DEF SendNotification
  <2>3. CASE MarkAsRead
    BY <2>3 DEF MarkAsRead
  <2>4. CASE \/ Notify \/ NotifierTime \/ SetEnabled \/ \E g \in handling : Handle(g)
             \/ \E h \in Handlers : AddHandler(h) \/ RemoveHandler(h)
    BY <2>4 DEF Notify, NotifierTime, SetEnabled, Handle, AddHandler, RemoveHandler
  <2>5. QED  BY <1>1, <2>1, <2>2, <2>3, <2>4 DEF NotifierNext
<1>2. NotifierIInv /\ [NotifierNext]_notifierVars => [Kept]_notifierVars
  BY <1>1
<1>3. QED  BY <1>2, NotifierInductive, PTL DEF NotifierSpec, NothingLost

-----------------------------------------------------------------------------
(***************************************************************************)
(* The WBFT coordinator, for any plans, heights and bounds: CoordInv, and  *)
(* that an upgrade that was announced stays in the plan it came from.      *)
(*                                                                         *)
(* A plan that is saved or followed is in the order of its heights, so the *)
(* first upgrade that is not below the height is the least of them.  What  *)
(* the last poll has seen bounds the upgrade that is next.                 *)
(***************************************************************************)

\* The order of the naturals is well-founded: a set of them has a least one.
LEMMA Least == ASSUME NEW T, T \subseteq Nat, T # {} PROVE \E n \in T : \A m \in T : n <= m
<1> DEFINE R == OpToRel(<, Nat)
<1>1. IsWellFoundedOn(R, Nat)
  BY NatLessThanWellFounded, Zenon
<1>2. \A m, n \in Nat : m < n => <<m, n>> \in R
  BY DEF OpToRel
<1> HIDE DEF R
<1>3. PICK n \in T : \A m \in T : ~ (<<m, n>> \in R)
  BY <1>1, WFMin
<1>4. ASSUME NEW m \in T PROVE n <= m
  <2>1. m \in Nat /\ n \in Nat
    OBVIOUS
  <2>2. ~ (m < n)
    BY <1>2, <1>3, <2>1
  <2>3. QED  BY <2>1, <2>2
<1>5. QED  BY <1>4

\* A plan that was saved, or that the coordinator follows, or none.
Info == [name : STRING \cup {""}, height : Int]
IsPlan(p) == /\ p \in Seq(Info) /\ Increasing(p) /\ \A i \in DOMAIN p : p[i].name # ""

LEMMA NoInfoFacts == NoInfo.name = "" /\ NoInfo.height = 0 /\ NoInfo \in Info
<1>1. "" \in STRING \cup {""}
  OBVIOUS
<1>2. 0 \in Int
  OBVIOUS
<1>3. \A n \in STRING \cup {""}, i \in Int : [name |-> n, height |-> i] \in Info
  BY DEF Info
<1>4. NoInfo \in Info
  BY <1>1, <1>2, <1>3 DEF NoInfo
<1>5. QED  BY <1>4 DEF NoInfo

LEMMA PlanTypes ==
  ASSUME NEW p, IsPlan(p)
  PROVE  /\ DOMAIN p = 1..Len(p) /\ Len(p) \in Nat
         /\ \A i \in DOMAIN p : i \in Nat /\ p[i].height \in Int
<1>1. p \in Seq(Info)
  BY DEF IsPlan
<1>2. \A i \in DOMAIN p : p[i] \in Info /\ i \in Nat
  BY <1>1
<1>3. \A u \in Info : u.height \in Int
  BY DEF Info
<1>4. QED  BY <1>1, <1>2, <1>3

LEMMA PlanNames ==
  ASSUME NEW p, IsPlan(p), NEW i \in DOMAIN p
  PROVE  p[i] \in Info /\ p[i].name # "" /\ p[i] # NoInfo
<1>1. p \in Seq(Info)
  BY DEF IsPlan
<1>2. p[i] \in Info
  BY <1>1
<1>3. p[i].name # ""
  BY DEF IsPlan
<1>4. QED  BY <1>2, <1>3, NoInfoFacts

\* ValidatePlan compares neighbours: all the heights of the list increase.
LEMMA PlanIncreases ==
  ASSUME NEW p, IsPlan(p), NEW i \in DOMAIN p, NEW j \in DOMAIN p, i < j
  PROVE  p[i].height < p[j].height
<1> DEFINE T == {k \in DOMAIN p : i < k /\ ~ (p[i].height < p[k].height)}
<1>1. /\ DOMAIN p = 1..Len(p) /\ Len(p) \in Nat
      /\ \A k \in DOMAIN p : k \in Nat /\ p[k].height \in Int
  BY PlanTypes
<1>2. ASSUME T # {} PROVE FALSE
  <2>1. T \subseteq Nat
    BY <1>1
  <2>2. PICK n \in T : \A m \in T : n <= m
    BY <1>2, <2>1, Least
  <2>3. n \in 2..Len(p) /\ n - 1 \in DOMAIN p /\ i <= n - 1 /\ ~ (n <= n - 1)
    BY <1>1
  <2>4. p[n].height > p[n - 1].height
    BY <2>3 DEF IsPlan, Increasing
  <2>5. n - 1 \notin T
    BY <2>2, <2>3
  <2>6. i = n - 1 \/ p[i].height < p[n - 1].height
    BY <1>1, <2>3, <2>5
  <2>7. p[i].height < p[n].height
    BY <1>1, <2>3, <2>4, <2>6
  <2>8. QED  BY <2>7
<1>3. QED  BY <1>2

\* The first upgrade of the list above h is the lowest of those above h.
LEMMA NextFacts ==
  ASSUME NEW p, IsPlan(p), NEW h \in Int, \E i \in DOMAIN p : p[i].height > h
  PROVE  \E i \in DOMAIN p :
           /\ GetNextUpgrade(p, h) = p[i] /\ p[i].height > h
           /\ \A j \in DOMAIN p : p[j].height > h => i <= j
<1> DEFINE T == {k \in DOMAIN p : p[k].height > h}
           First(i) == p[i].height > h /\ \A j \in 1..(i - 1) : p[j].height <= h
<1>1. /\ DOMAIN p = 1..Len(p) /\ Len(p) \in Nat
      /\ \A k \in DOMAIN p : k \in Nat /\ p[k].height \in Int
  BY PlanTypes
<1>2. PICK n \in T : \A m \in T : n <= m
  <2>1. T \subseteq Nat /\ T # {}
    BY <1>1
  <2>2. QED  BY <2>1, Least
<1>3. First(n)
  <2>1. p[n].height > h
    OBVIOUS
  <2>2. ASSUME NEW j \in 1..(n - 1) PROVE p[j].height <= h
    <3>1. j \in DOMAIN p /\ ~ (n <= j)
      BY <1>1
    <3>2. j \notin T
      BY <1>2, <3>1
    <3>3. QED  BY <1>1, <3>1, <3>2
  <2>3. QED  BY <2>1, <2>2
<1> DEFINE i == CHOOSE k \in DOMAIN p : First(k)
<1>4. i \in DOMAIN p /\ First(i)
  BY <1>3
<1>5. GetNextUpgrade(p, h) = p[i]
  BY DEF GetNextUpgrade
<1> HIDE DEF i
<1>6. ASSUME NEW j \in DOMAIN p, p[j].height > h PROVE i <= j
  <2>1. ASSUME ~ (i <= j) PROVE FALSE
    <3>1. j \in 1..(i - 1)
      BY <1>1, <1>4, <2>1
    <3>2. p[j].height <= h
      BY <1>4, <3>1
    <3>3. QED  BY <1>1, <1>6, <3>2
  <2>2. QED  BY <2>1
<1>7. QED  BY <1>4, <1>5, <1>6

LEMMA NextIsAny ==
  ASSUME NEW p, IsPlan(p), NEW h \in Int
  PROVE  /\ (GetNextUpgrade(p, h) = NoInfo) <=> (~ \E i \in DOMAIN p : p[i].height > h)
         /\ GetNextUpgrade(p, h) \in Info
<1>1. CASE \E i \in DOMAIN p : p[i].height > h
  <2>1. PICK i \in DOMAIN p : GetNextUpgrade(p, h) = p[i]
    BY <1>1, NextFacts
  <2>2. QED  BY <1>1, <2>1, PlanNames
<1>2. CASE ~ \E i \in DOMAIN p : p[i].height > h
  <2>1. GetNextUpgrade(p, h) = NoInfo
    BY <1>2 DEF GetNextUpgrade
  <2>2. QED  BY <1>2, <2>1, NoInfoFacts
<1>3. QED  BY <1>1, <1>2

\* Of a plan in order, the next of the list is the one that is due, and the status of
\* the plan counts what is not.
LEMMA PlanIsDue ==
  ASSUME NEW p, IsPlan(p), NEW h \in Int
  PROVE  /\ {GetNextUpgrade(p, h)} = IF DueIn(p, h) = {} THEN {NoInfo} ELSE DueIn(p, h)
         /\ ActiveUpgrade(p, h) = "" <=> Completed(p, h) = Len(p)
<1>1. /\ DOMAIN p = 1..Len(p) /\ Len(p) \in Nat
      /\ \A k \in DOMAIN p : k \in Nat /\ p[k].height \in Int
  BY PlanTypes
<1> DEFINE D == {i \in DOMAIN p : p[i].height <= h}
<1>2. IsFiniteSet(DOMAIN p) /\ Cardinality(DOMAIN p) = Len(p)
  <2> DEFINE n == Len(p)
  <2>1. n \in Nat /\ DOMAIN p = 1..n
    BY <1>1
  <2> HIDE DEF n
  <2>2. IsFiniteSet(1..n) /\ Cardinality(1..n) = IF 1 > n THEN 0 ELSE n - 1 + 1
    BY <2>1, FS_Interval
  <2>3. Cardinality(1..n) = n
    BY <2>1, <2>2
  <2>4. QED  BY <2>1, <2>2, <2>3 DEF n
<1>3. Completed(p, h) = Cardinality(D)
  BY DEF Completed
<1>4. CASE \E i \in DOMAIN p : p[i].height > h
  <2>1. PICK i \in DOMAIN p :
          /\ GetNextUpgrade(p, h) = p[i] /\ p[i].height > h
          /\ \A j \in DOMAIN p : p[j].height > h => i <= j
    BY <1>4, NextFacts
  <2>2. ASSUME NEW j \in DOMAIN p, p[j].height > h PROVE i = j \/ p[i].height < p[j].height
    <3>1. i = j \/ i < j
      BY <1>1, <2>1, <2>2
    <3>2. QED  BY <3>1, PlanIncreases
  <2>3. p[i] \in DueIn(p, h)
    BY <1>1, <2>1, <2>2 DEF DueIn, UpgradesOf
  <2>4. ASSUME NEW u \in DueIn(p, h) PROVE u = p[i]
    <3>1. PICK j \in DOMAIN p : u = p[j] /\ p[j].height > h
      BY DEF DueIn, UpgradesOf
    <3>2. p[j].height <= p[i].height
      BY <2>1, <3>1 DEF DueIn, UpgradesOf
    <3>3. QED  BY <1>1, <2>2, <3>1, <3>2
  <2>5. {GetNextUpgrade(p, h)} = DueIn(p, h) /\ DueIn(p, h) # {}
    BY <2>1, <2>3, <2>4
  <2>6. ActiveUpgrade(p, h) # ""
    BY <2>1, PlanNames DEF ActiveUpgrade
  <2>7. i \notin D
    BY <1>1, <2>1
  <2>8. Cardinality(D) # Len(p)
    <3>1. D \subseteq DOMAIN p /\ D # DOMAIN p
      BY <2>7
    <3> HIDE DEF D
    <3>2. QED  BY <1>2, <3>1, FS_Subset
  <2>9. QED  BY <1>3, <2>5, <2>6, <2>8
<1>5. CASE ~ \E i \in DOMAIN p : p[i].height > h
  <2>1. GetNextUpgrade(p, h) = NoInfo
    BY <1>5 DEF GetNextUpgrade
  <2>2. DueIn(p, h) = {}
    BY <1>5 DEF DueIn, UpgradesOf
  <2>3. D = DOMAIN p
    BY <1>1, <1>5
  <2>4. ActiveUpgrade(p, h) = ""
    BY <2>1, NoInfoFacts DEF ActiveUpgrade
  <2>5. QED  BY <1>2, <1>3, <2>1, <2>2, <2>3, <2>4
<1>6. QED  BY <1>4, <1>5

\* Every plan is in order, what has been polled is not ahead of the chain, and what this
\* coordination wrote to the file is what was next at a height it had been told.
PlansInOrder == (\A p \in planFiles : IsPlan(p)) /\ IsPlan(activePlan) /\ IsPlan(plan)
PolledBehind == /\ polled <= block /\ lastState <= block
                /\ polling = "send" => polled >= 0 /\ lastState <= polled
Announced ==
  /\ coordinating = "ready" => writtenBy < coordinations
  /\ coordinating = "receive" /\ writtenBy = coordinations =>
       \E h \in 0..lastState : infoFile = GetNextUpgrade(plan, h)
CoordIInv == /\ CoordTypeOK /\ PlansInOrder /\ PolledBehind /\ Announced
             /\ infoFile \in Info /\ NotEarly

LEMMA CoordConstants ==
  /\ \A r \in Requests : r \in Seq([name : STRING, height : Int])
  /\ Window \in Nat /\ MaxBlock \in Nat /\ MaxStep \in Nat /\ MaxCoordinations \in Nat
BY CoordinatorAssumption

LEMMA CoordNumbers ==
  ASSUME CoordTypeOK
  PROVE  /\ block \in Nat /\ block <= MaxBlock /\ polled \in Int /\ lastState \in Int
         /\ coordinations \in Nat /\ writtenBy \in Nat /\ writtenBy <= coordinations
BY CoordConstants DEF CoordTypeOK, NoHeight

LEMMA CoordInitial == CoordInit => CoordIInv
<1> SUFFICES ASSUME CoordInit PROVE CoordIInv
  OBVIOUS
<1>1. IsPlan(<<>>)
  BY DEF IsPlan, Increasing
<1>2. PlansInOrder
  BY <1>1 DEF CoordInit, PlansInOrder, NoPlan
<1>3. CoordTypeOK
  <2>1. 0 \in 0..MaxBlock /\ NoHeight \in NoHeight..MaxBlock /\ 0 \in 0..MaxCoordinations /\ 0 \in 0..0
    BY CoordConstants DEF NoHeight
  <2>2. QED  BY <2>1 DEF CoordInit, CoordTypeOK
<1>4. PolledBehind /\ Announced
  BY DEF CoordInit, PolledBehind, Announced, NoHeight
<1>5. infoFile \in Info /\ NotEarly
  <2>1. infoFile = NoInfo /\ block = 0
    BY DEF CoordInit
  <2>2. infoFile.height = 0
    BY <2>1, NoInfoFacts
  <2>3. 0 <= 0 + Window
    BY CoordConstants
  <2>4. QED  BY <2>1, <2>2, <2>3, NoInfoFacts DEF NotEarly
<1>6. QED  BY <1>2, <1>3, <1>4, <1>5 DEF CoordIInv

\* What CreatePlan saves is in order.
LEMMA SortedIsPlan ==
  ASSUME NEW r \in Requests, NEW p \in SortedByHeight(r), Acceptable(p) PROVE IsPlan(p)
<1>1. r \in Seq([name : STRING, height : Int])
  BY CoordConstants
<1>2. [name : STRING, height : Int] \subseteq Info
  BY DEF Info
<1>3. r \in Seq(Info)
  <2> DEFINE S == [name : STRING, height : Int]
  <2>1. r \in Seq(S) /\ S \subseteq Info
    BY <1>1, <1>2
  <2> HIDE DEF S
  <2>2. QED  BY <2>1
<1>4. p \in [DOMAIN r -> ToSet(r)] /\ Increasing(p)
  BY DEF SortedByHeight
<1>5. ToSet(r) \subseteq Info /\ DOMAIN r = 1..Len(r) /\ Len(r) \in Nat
  BY <1>3 DEF ToSet
<1>6. p \in Seq(Info)
  BY <1>4, <1>5
<1>7. \A i \in DOMAIN p : p[i].name # ""
  BY DEF Acceptable
<1>8. QED  BY <1>4, <1>6, <1>7 DEF IsPlan

\* CreatePlan, RemovePlan, ExecutePlan and LoadPlan.
LEMMA PlanSteps ==
  ASSUME CoordIInv,
         \/ \E r \in Requests : CreatePlan(r)
         \/ \E p \in planFiles : RemovePlan(p) \/ ExecutePlan(p) \/ LoadPlan(p)
  PROVE  CoordIInv' /\ infoFile' = infoFile
<1>1. UNCHANGED <<block, coordinating, plan, coordinations, polling, polled, lastState, infoFile,
                  writtenBy, reported>>
  BY DEF CreatePlan, RemovePlan, ExecutePlan, LoadPlan, blockVars, pollVars, infoVars
<1>2. PlansInOrder'
  <2>1. PlansInOrder
    BY DEF CoordIInv
  <2>2. ASSUME NEW r \in Requests, CreatePlan(r) PROVE PlansInOrder'
    <3>1. activePlan' = activePlan /\ plan' = plan
      BY <2>2 DEF CreatePlan
    <3>2. PICK p \in SortedByHeight(r) : Acceptable(p) /\ planFiles' = planFiles \cup {p}
      BY <2>2 DEF CreatePlan
    <3>3. IsPlan(p)
      BY <3>2, SortedIsPlan
    <3>4. QED  BY <2>1, <3>1, <3>2, <3>3 DEF PlansInOrder
  <2>3. ASSUME NEW p \in planFiles, RemovePlan(p) \/ ExecutePlan(p) \/ LoadPlan(p) PROVE PlansInOrder'
    <3>1. planFiles' \subseteq planFiles /\ activePlan' \in {activePlan, p}
      BY <2>3 DEF RemovePlan, ExecutePlan, LoadPlan
    <3>2. QED  BY <1>1, <2>1, <3>1 DEF PlansInOrder
  <2>4. QED  BY <2>2, <2>3
<1>3. QED
  BY <1>1, <1>2 DEF CoordIInv, CoordTypeOK, PolledBehind, Announced, NotEarly

\* Coordinate, CheckReadiness, and what ends.
LEMMA CallSteps ==
  ASSUME CoordIInv, Coordinate \/ CheckReadiness \/ Cancel \/ PollEnds \/ CoordinateEnds \/ WatcherReads
  PROVE  CoordIInv' /\ infoFile' = infoFile
<1>1. CoordTypeOK /\ PlansInOrder /\ PolledBehind /\ Announced /\ infoFile \in Info /\ NotEarly
  BY DEF CoordIInv
<1>2. UNCHANGED <<block, planFiles, activePlan, polled, infoFile, writtenBy, reported>>
  BY DEF Coordinate, CheckReadiness, Cancel, PollEnds, CoordinateEnds, WatcherReads, blockVars, fileVars,
         pollVars, infoVars
<1>3. /\ block \in Nat /\ polled \in Int /\ lastState \in Int
      /\ coordinations \in Nat /\ writtenBy \in Nat /\ writtenBy <= coordinations
  BY <1>1, CoordNumbers
<1>4. NotEarly' /\ infoFile' \in Info
  BY <1>1, <1>2 DEF NotEarly
<1>5. CASE Coordinate
  <2>1. /\ coordinations < MaxCoordinations /\ coordinating' = "ready" /\ plan' = activePlan
        /\ coordinations' = coordinations + 1 /\ UNCHANGED <<polling, lastState>>
    BY <1>5 DEF Coordinate, pollVars
  <2>2. coordinations' \in 0..MaxCoordinations /\ writtenBy < coordinations' /\ writtenBy' \in 0..coordinations'
    BY <1>2, <1>3, <2>1, CoordConstants
  <2>3. CoordTypeOK'
    BY <1>1, <1>2, <2>1, <2>2 DEF CoordTypeOK
  <2>4. PlansInOrder' /\ PolledBehind'
    BY <1>1, <1>2, <2>1 DEF PlansInOrder, PolledBehind
  <2>5. Announced'
    BY <1>2, <2>1, <2>2 DEF Announced
  <2>6. QED  BY <1>2, <1>4, <2>3, <2>4, <2>5 DEF CoordIInv
<1>6. CASE CheckReadiness
  <2>1. /\ coordinating = "ready" /\ UNCHANGED <<plan, coordinations>>
        /\ \/ coordinating' = "receive" /\ polling' = "tick" /\ lastState' = NoHeight
           \/ coordinating' = "idle" /\ UNCHANGED <<polling, lastState>>
    BY <1>6 DEF CheckReadiness
  <2>2. CoordTypeOK'
    BY <1>1, <1>2, <2>1, CoordConstants DEF CoordTypeOK, NoHeight
  <2>3. PlansInOrder'
    BY <1>1, <1>2, <2>1 DEF PlansInOrder
  <2>4. PolledBehind'
    BY <1>1, <1>2, <1>3, <2>1 DEF PolledBehind, NoHeight
  <2>5. Announced'
    BY <1>1, <1>2, <1>3, <2>1 DEF Announced
  <2>6. QED  BY <1>2, <1>4, <2>2, <2>3, <2>4, <2>5 DEF CoordIInv
<1>7. CASE Cancel \/ PollEnds \/ CoordinateEnds \/ WatcherReads
  <2>1. UNCHANGED <<plan, coordinations, lastState>>
        /\ coordinating' \in {coordinating, "idle"} /\ polling' \in {polling, "none"}
    BY <1>7 DEF Cancel, PollEnds, CoordinateEnds, WatcherReads, pollVars
  <2>2. CoordTypeOK'
    BY <1>1, <1>2, <2>1 DEF CoordTypeOK
  <2>3. PlansInOrder' /\ PolledBehind'
    BY <1>1, <1>2, <2>1 DEF PlansInOrder, PolledBehind
  <2>4. Announced'
    BY <1>1, <1>2, <2>1 DEF Announced
  <2>5. QED  BY <1>2, <1>4, <2>2, <2>3, <2>4 DEF CoordIInv
<1>8. QED  BY <1>5, <1>6, <1>7

\* A poll, and blocks.
LEMMA ChainLookSteps ==
  ASSUME CoordIInv, PollHeight \/ PollRound \/ ChainGrows
  PROVE  CoordIInv' /\ infoFile' = infoFile
<1>1. CoordTypeOK /\ PlansInOrder /\ PolledBehind /\ Announced /\ infoFile \in Info /\ NotEarly
  BY DEF CoordIInv
<1>2. UNCHANGED <<planFiles, activePlan, coordinating, plan, coordinations, lastState, infoFile,
                  writtenBy, reported>>
  BY DEF PollHeight, PollRound, Polled, ChainGrows, fileVars, pollVars, infoVars
<1>3. /\ block \in Nat /\ block <= MaxBlock /\ polled \in Int /\ lastState \in Int
  BY <1>1, CoordNumbers
<1>4. \/ /\ polling' = "send" /\ polled' = block /\ block' = block
      \/ UNCHANGED <<polling, polled>> /\ block' \in Nat /\ block <= block' /\ block' <= MaxBlock
  <2>1. CASE PollHeight \/ PollRound
    BY <2>1 DEF PollHeight, PollRound, Polled, blockVars
  <2>2. CASE ChainGrows
    <3>1. PICK n \in 1..MaxStep : block + n <= MaxBlock /\ block' = block + n
      BY <2>2 DEF ChainGrows
    <3>2. block' \in Nat /\ block <= block' /\ block' <= MaxBlock
      BY <1>3, <3>1, CoordConstants
    <3>3. QED  BY <2>2, <3>2 DEF ChainGrows, pollVars
  <2>3. QED  BY <2>1, <2>2
<1>5. CoordTypeOK'
  <2>1. block' \in 0..MaxBlock
    BY <1>3, <1>4, CoordConstants
  <2>2. polled' \in NoHeight..MaxBlock
    BY <1>1, <1>3, <1>4, CoordConstants DEF CoordTypeOK, NoHeight
  <2>3. polling' \in {"none", "tick", "send"}
    BY <1>1, <1>4 DEF CoordTypeOK
  <2>4. QED  BY <1>1, <1>2, <2>1, <2>2, <2>3 DEF CoordTypeOK
<1>6. PlansInOrder' /\ Announced'
  BY <1>1, <1>2 DEF PlansInOrder, Announced
<1>7. PolledBehind'
  BY <1>1, <1>2, <1>3, <1>4 DEF PolledBehind
<1>8. NotEarly'
  <2>1. infoFile.height \in Int
    BY <1>1 DEF Info
  <2>2. block' \in Nat /\ block <= block'
    BY <1>3, <1>4
  <2>3. infoFile.height <= block + Window
    BY <1>1 DEF NotEarly
  <2>4. infoFile.height <= block' + Window
    BY <1>3, <2>1, <2>2, <2>3, CoordConstants
  <2>5. QED  BY <1>2, <2>4 DEF NotEarly
<1>9. QED  BY <1>1, <1>2, <1>5, <1>6, <1>7, <1>8 DEF CoordIInv

\* The state is taken: the file is written for the next upgrade, or left.
LEMMA ReceiveFacts ==
  ASSUME CoordIInv, Receive
  PROVE  LET next == GetNextUpgrade(plan, polled) IN
         /\ coordinating = "receive" /\ polling = "send" /\ polling' = "tick" /\ lastState' = polled
         /\ coordinating' \in {coordinating, "idle"} /\ reported' \in BOOLEAN
         /\ UNCHANGED <<block, planFiles, activePlan, plan, coordinations, polled>>
         /\ \/ UNCHANGED <<infoFile, writtenBy>>
            \/ next # NoInfo /\ Within(next, polled) /\ infoFile' = next /\ writtenBy' = coordinations
<1> DEFINE next == GetNextUpgrade(plan, polled)
<1>1. /\ coordinating = "receive" /\ polling = "send" /\ polling' = "tick" /\ lastState' = polled
      /\ UNCHANGED <<block, planFiles, activePlan, plan, coordinations, polled>>
  BY DEF Receive, blockVars, fileVars
<1>2. CASE next = NoInfo
  BY <1>1, <1>2 DEF Receive, CoordIInv, CoordTypeOK
<1>3. CASE next # NoInfo
  <2>1. /\ IF Within(next, polled) THEN PrepareUpgrade(next) ELSE UNCHANGED <<infoFile, writtenBy>>
        /\ reported' = (reported \/ polled >= next.height) /\ coordinating' = coordinating
    BY <1>3 DEF Receive
  <2>2. reported' \in BOOLEAN
    BY <2>1
  <2>3. \/ UNCHANGED <<infoFile, writtenBy>>
        \/ Within(next, polled) /\ infoFile' = next /\ writtenBy' = coordinations
    BY <2>1 DEF PrepareUpgrade
  <2> HIDE DEF next
  <2>4. QED  BY <1>1, <1>3, <2>1, <2>2, <2>3 DEF next
<1>4. QED  BY <1>2, <1>3

LEMMA ReceiveSteps == ASSUME CoordIInv, Receive PROVE CoordIInv'
<1> DEFINE next == GetNextUpgrade(plan, polled)
<1>1. CoordTypeOK /\ PlansInOrder /\ PolledBehind /\ Announced /\ infoFile \in Info /\ NotEarly
  BY DEF CoordIInv
<1>2. /\ coordinating = "receive" /\ polling = "send" /\ polling' = "tick" /\ lastState' = polled
      /\ coordinating' \in {coordinating, "idle"} /\ reported' \in BOOLEAN
      /\ UNCHANGED <<block, planFiles, activePlan, plan, coordinations, polled>>
      /\ \/ UNCHANGED <<infoFile, writtenBy>>
         \/ next # NoInfo /\ Within(next, polled) /\ infoFile' = next /\ writtenBy' = coordinations
  BY ReceiveFacts
<1>3. /\ block \in Nat /\ block <= MaxBlock /\ polled \in Int /\ lastState \in Int
      /\ coordinations \in Nat /\ writtenBy \in Nat /\ writtenBy <= coordinations
  BY <1>1, CoordNumbers
<1>4. 0 <= polled /\ lastState <= polled /\ polled <= block
  BY <1>1, <1>2, <1>3 DEF PolledBehind
<1>5. next \in Info /\ next.height \in Int /\ infoFile.height \in Int
  <2>1. next \in Info
    BY <1>1, <1>3, NextIsAny DEF PlansInOrder
  <2> HIDE DEF next
  <2>2. QED  BY <1>1, <2>1 DEF Info
<1>6. CoordTypeOK'
  <2>1. writtenBy' \in 0..coordinations
    BY <1>2, <1>3
  <2>2. lastState' \in NoHeight..MaxBlock
    BY <1>1, <1>2 DEF CoordTypeOK
  <2>3. QED  BY <1>1, <1>2, <2>1, <2>2 DEF CoordTypeOK
<1>7. PlansInOrder'
  BY <1>1, <1>2 DEF PlansInOrder
<1>8. PolledBehind'
  BY <1>2, <1>3, <1>4 DEF PolledBehind
<1>9. infoFile' \in Info
  BY <1>1, <1>2, <1>5
<1>10. NotEarly'
  <2>1. CASE infoFile' = infoFile
    BY <1>1, <1>2, <2>1 DEF NotEarly
  <2>2. CASE Within(next, polled) /\ infoFile' = next
    <3>1. next.height - polled <= Window
      BY <2>2 DEF Within
    <3> HIDE DEF next
    <3>2. next.height <= block + Window
      BY <1>3, <1>4, <1>5, <3>1, CoordConstants
    <3>3. QED  BY <1>2, <2>2, <3>2 DEF NotEarly
  <2>3. QED  BY <1>2, <2>1, <2>2
<1>11. Announced'
  <2> SUFFICES ASSUME coordinating' = "receive", writtenBy' = coordinations
               PROVE  \E h \in 0..polled : infoFile' = GetNextUpgrade(plan, h)
    BY <1>2 DEF Announced
  <2>1. CASE UNCHANGED <<infoFile, writtenBy>>
    <3>1. PICK h \in 0..lastState : infoFile = GetNextUpgrade(plan, h)
      BY <1>1, <1>2, <2>1 DEF Announced
    <3>2. h \in 0..polled
      BY <1>3, <1>4
    <3>3. QED  BY <2>1, <3>1, <3>2
  <2>2. CASE infoFile' = next
    <3>1. polled \in 0..polled
      BY <1>3, <1>4
    <3>2. QED  BY <2>2, <3>1
  <2>3. QED  BY <1>2, <2>1, <2>2
<1>12. QED  BY <1>6, <1>7, <1>8, <1>9, <1>10, <1>11 DEF CoordIInv

LEMMA CoordInductive == CoordIInv /\ [CoordNext]_coordVars => CoordIInv'
<1> SUFFICES ASSUME CoordIInv, [CoordNext]_coordVars PROVE CoordIInv'
  OBVIOUS
<1>1. CASE CoordNext
  BY <1>1, PlanSteps, CallSteps, ChainLookSteps, ReceiveSteps DEF CoordNext, Coordinator
<1>2. CASE UNCHANGED coordVars
  BY <1>2 DEF coordVars, blockVars, fileVars, pollVars, infoVars, CoordIInv, CoordTypeOK, PlansInOrder,
              PolledBehind, Announced, NotEarly
<1>3. QED  BY <1>1, <1>2

\* The upgrade that the coordinator takes for the next one is the one that is due, at
\* any height, and no upgrade is announced earlier than its window, however the states
\* that are handed over lag behind the chain.
THEOREM CoordInvariant == CoordSpec => []CoordInv
<1>1. ASSUME CoordIInv PROVE CoordInv
  <2>1. NextIsDue
    <3>1. \A h \in 0..MaxBlock : h \in Int
      BY CoordConstants
    <3>2. IsPlan(plan)
      BY <1>1 DEF CoordIInv, PlansInOrder
    <3>3. QED  BY <3>1, <3>2, PlanIsDue DEF NextIsDue
  <2>2. QED  BY <1>1, <2>1 DEF CoordIInv, CoordInv
<1>2. QED  BY <1>1, CoordInitial, CoordInductive, PTL DEF CoordSpec

\* While one coordination goes on, what it announced is replaced only by a later
\* upgrade, and only when the chain has reached it.
THEOREM AnnouncedUpgradeStays == CoordSpec => AnnouncedStays
<1> DEFINE Replaced == infoFile # NoInfo /\ infoFile' # infoFile /\ writtenBy' = writtenBy
           InOrder == infoFile.height <= block /\ infoFile'.height > infoFile.height
<1>1. ASSUME CoordIInv, CoordNext, Replaced PROVE InOrder
  <2> DEFINE next == GetNextUpgrade(plan, polled)
  <2>1. Receive
    BY <1>1, PlanSteps, CallSteps, ChainLookSteps DEF CoordNext, Coordinator
  <2>2. /\ coordinating = "receive" /\ polling = "send" /\ next # NoInfo /\ infoFile' = next
        /\ writtenBy = coordinations
    BY <1>1, <2>1, ReceiveFacts
  <2>3. /\ block \in Nat /\ polled \in Int /\ lastState \in Int
        /\ lastState <= polled /\ polled <= block /\ IsPlan(plan)
    BY <1>1, <2>2, CoordNumbers DEF CoordIInv, PolledBehind, PlansInOrder
  <2>4. PICK h \in 0..lastState : infoFile = GetNextUpgrade(plan, h)
    BY <1>1, <2>2 DEF CoordIInv, Announced
  <2>5. h \in Int /\ h <= polled
    BY <2>3
  <2>6. PICK j \in DOMAIN plan :
          /\ next = plan[j] /\ plan[j].height > polled
          /\ \A k \in DOMAIN plan : plan[k].height > polled => j <= k
    BY <2>2, <2>3, NextIsAny, NextFacts
  <2>7. PICK i \in DOMAIN plan :
          /\ infoFile = plan[i] /\ plan[i].height > h
          /\ \A k \in DOMAIN plan : plan[k].height > h => i <= k
    BY <1>1, <2>3, <2>4, <2>5, NextIsAny, NextFacts
  <2>8. i \in Nat /\ j \in Nat /\ plan[i].height \in Int /\ plan[j].height \in Int /\ i # j
    BY <1>1, <2>2, <2>3, <2>6, <2>7, PlanTypes
  <2>9. i <= j
    BY <2>3, <2>5, <2>6, <2>7, <2>8
  <2>10. i < j
    BY <2>8, <2>9
  <2>11. plan[i].height < plan[j].height
    BY <2>3, <2>10, PlanIncreases
  <2>12. ~ (plan[i].height > polled)
    BY <2>6, <2>8, <2>10
  <2>13. plan[i].height <= block
    BY <2>3, <2>8, <2>12
  <2>14. QED  BY <2>2, <2>6, <2>7, <2>8, <2>11, <2>13
<1>2. CoordIInv /\ [CoordNext]_coordVars => [Replaced => InOrder]_coordVars
  BY <1>1
<1>3. QED  BY <1>2, CoordInitial, CoordInductive, PTL DEF CoordSpec, AnnouncedStays

=============================================================================
