--------------------------- MODULE BinaryDownload ---------------------------
(***************************************************************************)
(* The binary downloader, internal/download/downloader.go, as the process  *)
(* manager calls it for one upgrade (performUpgrade) and the batch manager *)
(* for those of a plan (PrepareBatchUpgrade).  There is one caller at a    *)
(* time.  A file is what its bytes are good for; "partial" is a truncated  *)
(* one.  The server may answer anything, any time.                         *)
(***************************************************************************)
EXTENDS Integers, Sequences

CONSTANTS
  Binaries,          \* upgrade names
  AllowDownload,     \* cfg.AllowDownloadBinaries, and a URL is configured
  SkipChecksum,      \* cfg.UnsafeSkipChecksum
  MaxRetries,        \* maxRetries of downloadFile
  Faults,            \* what may go wrong besides the server
  MaxPrepares        \* bound: calls

ASSUME DownloadAssumption ==
  /\ AllowDownload \in BOOLEAN /\ SkipChecksum \in BOOLEAN
  /\ MaxRetries \in Nat \ {0} /\ MaxPrepares \in Nat
  /\ Faults \subseteq {"crash", "chmod", "operator"}

Files == {"absent", "partial", "good", "corrupt", "installed"}

VARIABLES
  bin,          \* per upgrade: the file at UpgradeBin
  tmp,          \* per upgrade: the file beside it, named .tmp
  prepare,      \* the upgrades still to be ensured, first the present one
  at,           \* where EnsureUpgradeBinary is
  checked,      \* the download is to be verified
  checksum,     \* what fetchChecksum gave: "good", the sum of the good binary, or "odd"
  attempt,
  prepares,
  ensured,      \* ghost: the upgrades for which the last call returned nil
  mishaps       \* ghost: the faults that have happened

diskVars     == <<bin, tmp>>
downloadVars == <<diskVars, prepare, at, checked, checksum, attempt, prepares, ensured,
                  mishaps>>

DownloadInit ==
  /\ bin \in [Binaries -> {"absent", "installed"}] /\ tmp = [u \in Binaries |-> "absent"]
  /\ prepare = <<>> /\ at = "idle" /\ checked = TRUE /\ checksum = "good" /\ attempt = 0
  /\ prepares = 0 /\ ensured = {} /\ mishaps = {}

Upgrade == Head(prepare)

Happens(fault) == fault \in Faults /\ mishaps' = mishaps \cup {fault}

\* EnsureUpgradeBinary returns nil, and the next of the plan is looked at.
Ensured ==
  /\ ensured' = ensured \cup {Upgrade} /\ prepare' = Tail(prepare)
  /\ at' = IF Len(prepare) = 1 THEN "idle" ELSE "stat"

\* It returns an error, which ends PrepareBatchUpgrade too.
Refused == prepare' = <<>> /\ at' = "idle" /\ UNCHANGED ensured

\* DownloadAndVerify has failed: only UnsafeSkipChecksum tries again, unverified.
VerifyFailed ==
  IF SkipChecksum /\ checked
  THEN checked' = FALSE /\ at' = "request" /\ attempt' = 0 /\ UNCHANGED <<prepare, ensured>>
  ELSE Refused /\ UNCHANGED <<checked, attempt>>

-----------------------------------------------------------------------------

\* performUpgrade, or PrepareBatchUpgrade with the upgrades of a plan.
Prepare ==
  /\ at = "idle" /\ prepares < MaxPrepares /\ prepares' = prepares + 1
  /\ \E us \in {<<u>> : u \in Binaries} \cup {<<u, v>> : u \in Binaries, v \in Binaries} :
       prepare' = us
  /\ at' = "stat" /\ ensured' = {}
  /\ UNCHANGED <<diskVars, checked, checksum, attempt, mishaps>>

\* A file that is there will do, whatever it is.  Without one: no download, or no
\* directory for it, or the checksum is fetched.
EnsureUpgradeBinary ==
  /\ at = "stat"
  /\ \/ bin[Upgrade] # "absent" /\ Ensured /\ UNCHANGED <<checked, attempt>>
     \/ bin[Upgrade] = "absent" /\ Refused /\ UNCHANGED <<checked, attempt>>
     \/ /\ bin[Upgrade] = "absent" /\ AllowDownload
        /\ at' = "checksum" /\ checked' = TRUE /\ attempt' = 0 /\ UNCHANGED <<prepare, ensured>>
  /\ UNCHANGED <<diskVars, checksum, prepares, mishaps>>

\* GetChecksumURL and fetchChecksum.
FetchChecksum ==
  /\ at = "checksum"
  /\ \/ /\ checksum' \in {"good", "odd"} /\ at' = "request"
        /\ UNCHANGED <<prepare, ensured, checked, attempt>>
     \/ VerifyFailed /\ UNCHANGED checksum
  /\ UNCHANGED <<diskVars, prepares, mishaps>>

\* The attempt has failed: again, or the file is cleaned up and that is it.
AttemptFails ==
  IF attempt + 1 < MaxRetries
  THEN attempt' = attempt + 1 /\ at' = "request" /\ UNCHANGED <<tmp, prepare, ensured, checked>>
  ELSE tmp' = [tmp EXCEPT ![Upgrade] = "absent"] /\ VerifyFailed

\* attemptDownload: the request, answered by status 200 or not; the file is truncated.
Request ==
  /\ at = "request"
  /\ \/ /\ tmp' = [tmp EXCEPT ![Upgrade] = "partial"] /\ at' = "copy"
        /\ UNCHANGED <<prepare, ensured, checked, attempt>>
     \/ AttemptFails
  /\ UNCHANGED <<bin, checksum, prepares, mishaps>>

Copy ==
  /\ at = "copy"
  /\ \/ /\ \E f \in {"good", "corrupt"} : tmp' = [tmp EXCEPT ![Upgrade] = f]
        /\ at' = "rename" /\ UNCHANGED <<prepare, ensured, checked, attempt>>
     \/ AttemptFails
  /\ UNCHANGED <<bin, checksum, prepares, mishaps>>

\* DownloadBinary: the file takes its place before it is verified; when os.Rename
\* fails, it is cleaned up.
Rename ==
  /\ at = "rename" /\ tmp' = [tmp EXCEPT ![Upgrade] = "absent"]
  /\ \/ /\ bin' = [bin EXCEPT ![Upgrade] = tmp[Upgrade]] /\ at' = "chmod"
        /\ UNCHANGED <<prepare, ensured, checked, attempt>>
     \/ VerifyFailed /\ UNCHANGED bin
  /\ UNCHANGED <<checksum, prepares, mishaps>>

Chmod ==
  /\ at = "chmod"
  /\ \/ checked /\ at' = "verify" /\ UNCHANGED <<prepare, ensured, checked, attempt, mishaps>>
     \/ ~ checked /\ Ensured /\ UNCHANGED <<checked, attempt, mishaps>>
     \/ Happens("chmod") /\ VerifyFailed
  /\ UNCHANGED <<diskVars, checksum, prepares>>

\* Mutant: a file that fails is left.
VerifyChecksum_Leaves ==
  /\ at = "verify" /\ UNCHANGED bin
  /\ IF bin[Upgrade] = "good" /\ checksum = "good" THEN Ensured /\ UNCHANGED <<checked, attempt>>
     ELSE VerifyFailed
  /\ UNCHANGED <<tmp, checksum, prepares, mishaps>>

\* A file that does not verify is removed; a sum of odd length verifies nothing.
VerifyChecksum ==
  /\ at = "verify"
  /\ IF bin[Upgrade] = "good" /\ checksum = "good"
     THEN Ensured /\ UNCHANGED <<bin, checked, attempt>>
     ELSE bin' = [bin EXCEPT ![Upgrade] = "absent"] /\ VerifyFailed
  /\ UNCHANGED <<tmp, checksum, prepares, mishaps>>

\* wemixvisor dies; the files stay.
Crash ==
  /\ Happens("crash") /\ at # "idle"
  /\ at' = "idle" /\ prepare' = <<>> /\ ensured' = {}
  /\ UNCHANGED <<diskVars, checked, checksum, attempt, prepares>>

\* External: the operator puts the binary there himself.
OperatorInstalls(u) ==
  /\ Happens("operator") /\ bin[u] # "installed"
  /\ bin' = [bin EXCEPT ![u] = "installed"]
  /\ UNCHANGED <<tmp, prepare, at, checked, checksum, attempt, prepares, ensured>>

Download == \/ EnsureUpgradeBinary \/ FetchChecksum \/ Request \/ Copy \/ Rename \/ Chmod
            \/ VerifyChecksum

DownloadNext == Prepare \/ Download \/ Crash \/ \E u \in Binaries : OperatorInstalls(u)

DownloadSpec == DownloadInit /\ [][DownloadNext]_downloadVars

\* Every request has a timeout: each step is taken some time.
DownloadFairSpec == DownloadSpec /\ WF_downloadVars(Download)

-----------------------------------------------------------------------------
(* Properties.                                                             *)

DownloadTypeOK ==
  /\ bin \in [Binaries -> Files] /\ tmp \in [Binaries -> Files]
  /\ prepare = <<>> <=> at = "idle"
  /\ mishaps \subseteq Faults
  /\ attempt \in 0..(MaxRetries - 1) /\ checksum \in {"good", "odd"} /\ checked \in BOOLEAN

Verified(us) == \A u \in us : bin[u] \in {"good", "installed"}

\* After any number of calls that failed at any step, a call that succeeds has
\* left a binary that was verified or that the operator has installed (EnsureUpgradeBinary),
\* unless wemixvisor died, or chmod failed, between the rename and the verification.
EnsuredIsVerified == SkipChecksum \/ mishaps \cap {"crash", "chmod"} # {} \/ Verified(ensured)

\* No temporary file outlives the call, however its attempts failed (downloadFile).
NoDebris == "crash" \in mishaps \/ at # "idle" \/ \A u \in Binaries : tmp[u] = "absent"

DownloadInv == DownloadTypeOK /\ EnsuredIsVerified /\ NoDebris

\* What is installed is never replaced by a download or removed, unless it came
\* while EnsureUpgradeBinary ran; and a call returns after at most MaxRetries
\* attempts per binary.
InstalledStays ==
  [][\A u \in Binaries : bin[u] = "installed" /\ "operator" \notin mishaps => bin'[u] = "installed"]_downloadVars

EnsureEnds == InstalledStays /\ []<>(at = "idle")

\* Does not hold: the file takes its place before it is verified, and what is
\* there is not verified by the next call.
AlwaysVerified == SkipChecksum \/ Verified(ensured)

\* Does not hold of what the operator installs meanwhile.
InstalledAlwaysStays ==
  [][\A u \in Binaries : bin[u] = "installed" => bin'[u] = "installed"]_downloadVars
=============================================================================
