--------------------------- MODULE Installer_proofs ---------------------------
(***************************************************************************)
(* Proofs about updates and the installation of the game's data, for any   *)
(* files, releases and download threads: an update is applied whole or not *)
(* at all, a restart that was asked for runs a newer version, and a file   *)
(* that the manifest on disk has as the server does is on disk.            *)
(*                                                                         *)
(* Files are moved one at a time, with a crash, a kill or a failed rename  *)
(* between any two, so the invariant says for every file whether its turn  *)
(* has come (ApplyingInv), and what a later start may rely on (EngineInv). *)
(* The data's says of each file that is not to be downloaded that it is    *)
(* there, or is a version which no release has any more (DataInv).         *)
(*                                                                         *)
(* Each theorem names the failures that it does not hold with.             *)
(***************************************************************************)
EXTENDS Installer, TLAPS

(* What the releases are, function by function. *)
LEMMA ReleasesFacts ==
  /\ DOMAIN Releases = 1 .. Len(Releases) /\ Len(Releases) \in Nat \ {0}
  /\ \A r \in DOMAIN Releases :
       /\ Releases[r] \in [DataFiles -> Contents \ {Torn}]
       /\ Releases[r] \in [DataFiles -> Contents]
  /\ Absent \in Contents \ {Torn}
<1>1. /\ DOMAIN Releases = 1 .. Len(Releases) /\ Len(Releases) \in Nat \ {0}
      /\ \A r \in DOMAIN Releases : Releases[r] \in [DataFiles -> Nat \ {Torn}]
  BY ReleasesType
<1>2. ASSUME NEW r \in DOMAIN Releases
      PROVE  /\ Releases[r] \in [DataFiles -> Contents \ {Torn}]
             /\ Releases[r] \in [DataFiles -> Contents]
  <2>1. Releases[r] \in [DataFiles -> Nat \ {Torn}]
    BY <1>1
  <2>2. \A f \in DataFiles : Releases[r][f] \in Contents \ {Torn}
    BY <2>1 DEF Contents
  <2> QED
    BY <2>1, <2>2
<1> QED
  BY <1>1, <1>2 DEF Contents, Absent, Torn

(* The cases of the switch in Installer_Thread. *)
LEMMA CaseOfFacts ==
  /\ DOMAIN CaseOf = {"CHECKING_BIN", "DOWNLOADING_BIN", "STAGING_BIN", "CHECKING_DATA",
        "DOWNLOADING_DATA", "COMMITTING_DATA", "BIN_AVAILABLE", "BIN_STAGED", "INSTALLING_DATA",
        "CANCELLED", "DONE", "ERROR"}
  /\ CaseOf["CHECKING_BIN"] = "fetchRelease" /\ CaseOf["DOWNLOADING_BIN"] = "discard"
  /\ CaseOf["STAGING_BIN"] = "extract" /\ CaseOf["CHECKING_DATA"] = "checkData"
  /\ CaseOf["DOWNLOADING_DATA"] = "join" /\ CaseOf["COMMITTING_DATA"] = "prune"
  /\ CaseOf["BIN_AVAILABLE"] = "answered" /\ CaseOf["BIN_STAGED"] = "answered"
  /\ CaseOf["INSTALLING_DATA"] = "ended" /\ CaseOf["CANCELLED"] = "ended"
  /\ CaseOf["DONE"] = "ended" /\ CaseOf["ERROR"] = "ended"
  BY DEF CaseOf

(* The points that the installer's thread can be at. *)
LEMMA ThreadPointsFacts ==
  ThreadPoints = {"fetchRelease", "discard", "extract", "checkData", "join", "prune", "answered",
    "ended", "poll", "compareVersions", "downloadBin", "writePending", "downloadArchive",
    "extractData", "fetchManifest", "decide", "writeManifest"}
<1>1. {CaseOf[s] : s \in DOMAIN CaseOf} =
        {"fetchRelease", "discard", "extract", "checkData", "join", "prune", "answered", "ended"}
  BY CaseOfFacts
<1> QED
  BY <1>1 DEF ThreadPoints

(* Types hold at the start ... *)
LEMMA TypeInit ==
  ASSUME Init
  PROVE  TypeOK
<1>1. DataTypeOK
  <2> USE DEF Init, DataInit, Ended, Nothing, NoManifest
  <2>1. 1 \in DOMAIN Releases /\ Absent \in Contents \ {Torn} /\ Absent \in Contents
    BY ReleasesFacts
  <2>2. /\ remote \in DOMAIN Releases
        /\ wanted \in [DataFiles -> Contents \ {Torn}]
        /\ status \in [DataFiles -> {"unlisted", "pending", "downloading", "current"}]
        /\ stale \subseteq DataFiles
    BY <2>1
  <2>3. /\ data \in [DataFiles -> Contents]
        /\ manifest \in [exists : BOOLEAN, hash : [DataFiles -> Contents \ {Torn}]]
    <3>1. CASE data = Nothing /\ manifest = NoManifest
      BY <2>1, <3>1
    <3>2. CASE data = Releases[1] /\ manifest = [exists |-> TRUE, hash |-> Releases[1]]
      BY <2>1, <3>2, ReleasesFacts
    <3> QED
      BY <3>1, <3>2
  <2>4. downloader \in [Downloaders -> DownloaderState]
    BY <2>1 DEF DownloaderState
  <2>5. archive \in [members : SUBSET (DataFiles \cup {"manifest.mf"}), release : DOMAIN Releases]
    BY <2>1
  <2> QED
    BY <2>2, <2>3, <2>4, <2>5 DEF DataTypeOK
<1>2. EngineTypeOK
  <2>1. 1 \in File /\ 0 \in Versions /\ 1 \in Versions
    BY FilesAssumption, InstallerAssumption DEF File, Versions
  <2>2. apply \in [phase : {"idle", "displace", "place", "commit", "restage", "restore"}, file : File]
    BY <2>1 DEF Init, PendingInit, Idle
  <2> QED
    BY <2>1, <2>2 DEF Init, PendingInit, EngineTypeOK, NoFiles, None
<1>3. ProcessTypeOK
  <2>1. state \in DOMAIN CaseOf /\ thread \in ThreadPoints
    BY CaseOfFacts, ThreadPointsFacts DEF Init
  <2>2. release \in Versions /\ consent \in {-1, 0, 1}
    BY InstallerAssumption DEF Init, None, Versions
  <2> QED
    BY <2>1, <2>2 DEF Init, ProcessTypeOK
<1> QED
  BY <1>1, <1>2, <1>3, InstallerAssumption, TroublesAssumption DEF TypeOK, Init, Versions

(* The steps that touch the engine's files are few. *)
LEMMA EngineUntouched ==
  ASSUME [Next]_vars
  PROVE  \/ UNCHANGED engineVars
         \/ TakeConsent \/ DiscardStaged \/ ExtractBin \/ WritePending \/ ApplyPending \/ EndProcess
<1> USE DEF engineVars
<1>1. CASE UNCHANGED vars
  BY <1>1 DEF vars
<1>2. CASE InstallerThread
  BY <1>2 DEF InstallerThread, Poll, FetchRelease, CompareVersions, DownloadBin, CheckData,
     InstallData, FetchManifest, DecideData, JoinDownloads, Commit, EngineStep, DataStep
<1>3. CASE MainThread
  BY <1>3 DEF MainThread, Launch, Answer, LastFrame, Joined, Quit, Exit, Kill, MainStep
<1>4. CASE \E d \in Downloaders : Download(d)
  BY <1>4 DEF Download, DataStep
<1>5. CASE Cancel \/ Crash \/ ReleaseEngine \/ ReleaseData
  BY <1>5 DEF Cancel, Crash, ReleaseEngine, ReleaseData
<1> QED
  BY <1>1, <1>2, <1>3, <1>4, <1>5 DEF Next

(* ... and every step keeps those of the engine's files, *)
LEMMA EngineTypeStep ==
  ASSUME TypeOK, [Next]_vars
  PROVE  EngineTypeOK'
<1> USE DEF TypeOK, EngineTypeOK, ProcessTypeOK
<1>0. 1 \in File /\ 0 \in Versions /\ 1 \in Versions
  BY FilesAssumption, InstallerAssumption DEF File, Versions
<1>1. CASE UNCHANGED engineVars
  BY <1>1 DEF engineVars
<1>2. CASE TakeConsent \/ DiscardStaged \/ ExtractBin \/ WritePending
  BY <1>0, <1>2 DEF TakeConsent, DiscardStaged, DiscardEntry, ExtractBin, WritePending, EngineStep, None
<1>3. CASE EndProcess
  BY <1>0, <1>3 DEF EndProcess, NewModule, Idle
<1>4. CASE ApplyPending
  <2>1. CASE UNCHANGED engineVars
    BY <2>1 DEF engineVars
  <2>2. CASE BeginApply
    BY <1>0, <2>2 DEF BeginApply, Go
  <2>3. CASE ApplyStep
    <3> PICK i \in File : Displace(i) \/ Place(i) \/ CommitFile(i) \/ Restage(i) \/ Restore(i)
      BY <2>3 DEF ApplyStep
    <3> USE DEF Go, GoAfter, GiveUp, None, Idle
    <3>0. i # Files => i + 1 \in File
      BY FilesAssumption DEF File
    <3>1. CASE Displace(i)
      BY <1>0, <3>0, <3>1 DEF Displace
    <3>2. CASE Place(i)
      BY <1>0, <3>0, <3>2 DEF Place
    <3>3. CASE CommitFile(i)
      BY <1>0, <3>0, <3>3 DEF CommitFile, NoFiles
    <3>4. CASE Restage(i)
      <4>1. apply' \in [phase : {"idle", "displace", "place", "commit", "restage", "restore"},
                        file : File]
        BY <1>0, <3>0, <3>4 DEF Restage, AfterRollback
      <4>2. relaunch' \in BOOLEAN
        BY <3>4 DEF Restage, AfterRollback
      <4>3. staged' \in [File -> Versions] /\ target' \in [File -> Versions]
        BY <1>0, <3>4 DEF Restage
      <4> QED
        BY <3>4, <4>1, <4>2, <4>3 DEF Restage
    <3>5. CASE Restore(i)
      BY <1>0, <3>0, <3>5 DEF Restore, AfterRollback
    <3> QED
      BY <3>1, <3>2, <3>3, <3>4, <3>5
  <2> QED
    BY <1>4, <2>1, <2>2, <2>3 DEF ApplyPending
<1> QED
  BY <1>1, <1>2, <1>3, <1>4, EngineUntouched

(* those of the process and its threads, *)
LEMMA ProcessTypeStep ==
  ASSUME TypeOK, [Next]_vars
  PROVE  ProcessTypeOK'
<1> USE CaseOfFacts, ThreadPointsFacts DEF TypeOK, ProcessTypeOK
<1>1. CASE UNCHANGED vars
  BY <1>1 DEF vars, moduleVars, mainVars
<1>2. CASE InstallerThread
  <2>0. CaseOf[state] \in ThreadPoints
    BY DEF ThreadPoints
  <2>1. CASE Poll
    BY <2>0, <2>1 DEF Poll, mainVars
  <2>2. CASE FetchRelease \/ CompareVersions \/ TakeConsent \/ DiscardStaged
    BY <2>2, InstallerAssumption
    DEF FetchRelease, CompareVersions, TakeConsent, DiscardStaged, EngineStep, mainVars, None, Versions
  <2>3. CASE DownloadBin \/ ExtractBin \/ WritePending
    BY <2>3 DEF DownloadBin, ExtractBin, WritePending, EngineStep, mainVars
  <2>4. CASE CheckData \/ InstallData
    BY <2>4 DEF CheckData, InstallData, Installed, DataStep, mainVars
  <2>5. CASE FetchManifest \/ DecideData \/ JoinDownloads \/ Commit
    BY <2>5 DEF FetchManifest, DecideData, JoinDownloads, Commit, DataStep, mainVars
  <2> QED
    BY <1>2, <2>1, <2>2, <2>3, <2>4, <2>5 DEF InstallerThread
<1>3. CASE EndProcess
  <2>1. 0 \in Versions
    BY InstallerAssumption DEF Versions
  <2>2. 0 \in {-1, 0, 1}
    OBVIOUS
  <2> QED
    BY <1>3, <2>1, <2>2 DEF EndProcess, NewModule, None
<1>4. CASE MainThread
  <2>1. CASE Launch \/ Answer \/ LastFrame \/ Joined \/ Quit
    BY <2>1 DEF Launch, Answer, LastFrame, Joined, Quit, MainStep, mainVars, Questions
  <2>2. CASE ApplyPending
    BY <2>2 DEF ApplyPending, moduleVars
  <2> QED
    BY <1>3, <1>4, <2>1, <2>2 DEF MainThread, Exit, Kill
<1>5. CASE \E d \in Downloaders : Download(d)
  BY <1>5 DEF Download, DataStep, mainVars
<1>6. CASE Cancel \/ ReleaseEngine \/ ReleaseData
  BY <1>6 DEF Cancel, ReleaseEngine, ReleaseData, moduleVars, mainVars
<1> QED
  BY <1>1, <1>2, <1>3, <1>4, <1>5, <1>6 DEF Next, Crash

(* and those of the data directory. *)
LEMMA DataTypeStep ==
  ASSUME TypeOK, [Next]_vars
  PROVE  DataTypeOK'
<1> USE ReleasesFacts DEF TypeOK, DataTypeOK
<1>0. Offered \in [DataFiles -> Contents \ {Torn}] /\ Torn \in Contents
  BY DEF Offered, Contents
<1>1. CASE UNCHANGED dataVars
  BY <1>1 DEF dataVars
<1>2. CASE Poll
  BY <1>2 DEF Poll, StartDownloads, Ended, DownloaderState
<1>3. CASE CheckData
  <2>1. \A r \in 1 .. remote : r \in DOMAIN Releases
    OBVIOUS
  <2> QED
    BY <1>3, <2>1 DEF CheckData, OpenArchive, Members, DataStep
<1>4. CASE InstallData
  <2>1. UNCHANGED <<remote, wanted, status, stale, downloader>>
    BY <1>4 DEF InstallData, DataStep
  <2>2. CASE thread = "extractData" /\ ExtractMember
    <3> PICK m \in archive.members :
           /\ archive' = [archive EXCEPT !.members = @ \ {m}]
           /\ IF m = "manifest.mf"
                THEN /\ manifest' = [exists |-> TRUE, hash |-> Releases[archive.release]]
                     /\ UNCHANGED data
                ELSE /\ data' = [data EXCEPT ![m] = Releases[archive.release][m]]
                     /\ UNCHANGED manifest
      BY <2>2 DEF ExtractMember
    <3>1. data' \in [DataFiles -> Contents]
      OBVIOUS
    <3>2. manifest' \in [exists : BOOLEAN, hash : [DataFiles -> Contents \ {Torn}]]
      <4>1. CASE m = "manifest.mf"
        <5> DEFINE h == Releases[archive.release]
        <5>1. h \in [DataFiles -> Contents \ {Torn}]
          OBVIOUS
        <5>2. manifest' = [exists |-> TRUE, hash |-> h]
          BY <4>1
        <5> HIDE DEF h
        <5> QED
          BY <5>1, <5>2
      <4>2. CASE m # "manifest.mf"
        BY <4>2
      <4> QED
        BY <4>1, <4>2
    <3> QED
      BY <2>1, <3>1, <3>2
  <2>3. CASE DiscardInstall
    BY <1>0, <2>1, <2>3 DEF DiscardInstall, NoManifest, Nothing
  <2>4. CASE data' = data /\ manifest' \in {manifest, NoManifest}
             /\ archive' \in {archive, [archive EXCEPT !.members = {}]}
    <3>1. NoManifest \in [exists : BOOLEAN, hash : [DataFiles -> Contents \ {Torn}]]
      BY DEF NoManifest, Nothing
    <3>2. manifest' \in [exists : BOOLEAN, hash : [DataFiles -> Contents \ {Torn}]]
      BY <2>4, <3>1
    <3>3. [archive EXCEPT !.members = {}] \in
            [members : SUBSET (DataFiles \cup {"manifest.mf"}), release : DOMAIN Releases]
      OBVIOUS
    <3> QED
      BY <2>1, <2>4, <3>2, <3>3
  <2> QED
    BY <1>4, <2>2, <2>3, <2>4 DEF InstallData
<1>5. CASE FetchManifest
  BY <1>0, <1>5 DEF FetchManifest, Compare, DataStep
<1>6. CASE DecideData \/ JoinDownloads
  BY <1>6 DEF DecideData, JoinDownloads, DataStep
<1>7. CASE Commit
  <2>1. UNCHANGED <<remote, wanted, status, archive, downloader>>
    BY <1>7 DEF Commit, DataStep
  <2>2. CASE Prune /\ UNCHANGED manifest
    BY <2>1, <2>2 DEF Prune, Contents
  <2>3. CASE WritePartOfManifest /\ UNCHANGED <<data, stale>>
    BY <2>1, <2>3 DEF WritePartOfManifest
  <2>4. CASE WriteManifest /\ UNCHANGED <<data, stale>>
    BY <2>1, <2>4 DEF WriteManifest
  <2>5. CASE UNCHANGED <<data, stale, manifest>>
    BY <2>1, <2>5
  <2> QED
    BY <1>7, <2>2, <2>3, <2>4, <2>5 DEF Commit
<1>8. CASE EndProcess
  BY <1>8 DEF EndProcess, NewModule, Nothing, Ended, DownloaderState
<1>9. CASE ReleaseData
  BY <1>9 DEF ReleaseData
<1>10. ASSUME NEW d \in Downloaders, Download(d)
       PROVE  DataTypeOK'
  <2> DEFINE f == downloader[d].file
  <2>1. UNCHANGED <<remote, wanted, stale, manifest, archive>>
    BY <1>10 DEF Download, DataStep
  <2>2. /\ downloader[d].at \in {"get", "write", "written", "failed"} =>
             f \in DataFiles /\ downloader[d].got \in Contents
        /\ Absent \in Contents
    BY DEF DownloaderState
  <2>3. ASSUME NEW at \in {"get", "write", "written", "failed"}, NEW g \in DataFiles,
               NEW v \in Contents \ {Torn}, Downloading(d, at, g, v)
        PROVE  downloader' \in [Downloaders -> DownloaderState]
    BY <2>3 DEF Downloading, DownloaderState
  <2>4. downloader' \in [Downloaders -> DownloaderState]
    <3>1. CASE Claim(d, state)
      <4>1. CASE state # "DOWNLOADING_DATA" \/ Pending = {}
        BY <3>1, <4>1 DEF Claim, Ended, DownloaderState
      <4>2. CASE ~(state # "DOWNLOADING_DATA" \/ Pending = {})
        <5>1. PICK g \in Pending : Downloading(d, "get", g, Absent)
          BY <3>1, <4>2 DEF Claim
        <5> QED
          BY <2>3, <5>1 DEF Pending
      <4> QED
        BY <4>1, <4>2
    <3>2. CASE Get(d)
      <4>1. Offered[f] \in Contents \ {Torn}
        BY <1>0, <2>2, <3>2 DEF Get
      <4> QED
        BY <2>2, <2>3, <3>2, <4>1 DEF Get
    <3>3. CASE Write(d)
      BY <2>2, <2>3, <3>3 DEF Write
    <3>4. CASE Downloaded(d) \/ DownloadFailed(d)
      BY <3>4 DEF Downloaded, DownloadFailed, Downloading, DownloaderState
    <3> QED
      BY <1>10, <3>1, <3>2, <3>3, <3>4 DEF Download
  <2>5. data' \in [DataFiles -> Contents]
    BY <1>0, <1>10, <2>2 DEF Download, Claim, Get, Write, Downloaded, DownloadFailed
  <2>6. status' \in [DataFiles -> {"unlisted", "pending", "downloading", "current"}]
    BY <1>10 DEF Download, Claim, Get, Write, Downloaded, DownloadFailed
  <2> QED
    BY <2>1, <2>4, <2>5, <2>6
<1>11. CASE \/ FetchRelease \/ CompareVersions \/ TakeConsent \/ DiscardStaged \/ DownloadBin
            \/ ExtractBin \/ WritePending
  BY <1>1, <1>11 DEF FetchRelease, CompareVersions, TakeConsent, DiscardStaged, DownloadBin,
     ExtractBin, WritePending, EngineStep
<1>12. CASE Launch \/ Answer \/ LastFrame \/ Joined \/ Quit \/ ApplyPending \/ Cancel \/ ReleaseEngine
  BY <1>1, <1>12 DEF Launch, Answer, LastFrame, Joined, Quit, ApplyPending, Cancel, ReleaseEngine, MainStep
<1>13. CASE UNCHANGED vars
  BY <1>1, <1>13 DEF vars
<1> QED
  BY <1>2, <1>3, <1>4, <1>5, <1>6, <1>7, <1>8, <1>9, <1>10, <1>11, <1>12, <1>13
  DEF Next, InstallerThread, MainThread, Exit, Kill, Crash

(* How the counters move: each step at most counts one trouble, releases one version, or starts
   the version that is in place. *)
LEMMA CountersStep ==
  ASSUME [Next]_vars
  PROVE  /\ troubles' = troubles \/ (troubles < MaxTroubles /\ troubles' = troubles + 1)
         /\ latest' = latest \/ (latest < MaxRelease /\ latest' = latest + 1)
         /\ exe' = exe \/ Launch
<1> USE DEF Trouble
<1>1. CASE UNCHANGED vars
  BY <1>1 DEF vars, moduleVars
<1>2. CASE InstallerThread
  <2> USE DEF EngineStep, DataStep
  <2>1. CASE Poll \/ FetchRelease \/ CompareVersions \/ TakeConsent \/ DiscardStaged \/ DownloadBin
    BY <2>1 DEF Poll, FetchRelease, CompareVersions, TakeConsent, DiscardStaged, DownloadBin
  <2>2. CASE ExtractBin \/ WritePending \/ CheckData \/ FetchManifest \/ DecideData \/ JoinDownloads
    BY <2>2 DEF ExtractBin, WritePending, CheckData, FetchManifest, DecideData, JoinDownloads
  <2>3. CASE InstallData
    BY <2>3 DEF InstallData
  <2>4. CASE Commit
    BY <2>4 DEF Commit
  <2> QED
    BY <1>2, <2>1, <2>2, <2>3, <2>4 DEF InstallerThread
<1>3. CASE Launch \/ Answer \/ LastFrame \/ Joined \/ Quit \/ Exit \/ Kill
  BY <1>3 DEF Launch, Answer, LastFrame, Joined, Quit, Exit, Kill, EndProcess, MainStep
<1>4. CASE ApplyPending
  BY <1>4 DEF ApplyPending, BeginApply, ApplyStep, Displace, Place, CommitFile, Restage, Restore, moduleVars
<1>5. CASE \E d \in Downloaders : Download(d)
  BY <1>5 DEF Download, Claim, Get, Write, Downloaded, DownloadFailed, DataStep
<1>6. CASE Cancel \/ Crash \/ ReleaseEngine \/ ReleaseData
  BY <1>6 DEF Cancel, Crash, EndProcess, ReleaseEngine, ReleaseData, moduleVars
<1> QED
  BY <1>1, <1>2, <1>3, <1>4, <1>5, <1>6 DEF Next, MainThread

(* Spec keeps all variables in their types. *)
THEOREM TypeCorrectness == Spec => []TypeOK
<1>1. Init => TypeOK
  BY TypeInit
<1>2. TypeOK /\ [Next]_vars => TypeOK'
  <2> SUFFICES ASSUME TypeOK, [Next]_vars PROVE TypeOK'
    OBVIOUS
  <2>1. troubles' \in 0 .. MaxTroubles
    BY CountersStep, TroublesAssumption DEF TypeOK
  <2>2. latest' \in Versions
    BY CountersStep, InstallerAssumption DEF TypeOK, Versions
  <2>3. exe' \in Versions
    BY CountersStep, FilesAssumption DEF TypeOK, EngineTypeOK, Launch, File
  <2> QED
    BY <2>1, <2>2, <2>3, DataTypeStep, EngineTypeStep, ProcessTypeStep DEF TypeOK
<1> QED
  BY <1>1, <1>2, PTL DEF Spec

-------------------------------------------------------------------------------

(* What the theorems about the update of the engine assume of failures: the process does not
   die between two renames of an update or of its undoing, nor while an older stage is
   discarded; renames back succeed; and only the last file is new. *)
OrderlyUpdates ==
  /\ TroubleSites \cap {"crash while applying", "crash while discarding", "rollback"} = {}
  /\ Added \subseteq {Files}

(* ... and what the one about restarts assumes as well: pending.mf can be written. *)
StageRecorded == "pending.mf" \notin TroubleSites

(* While main is there, the installer may run. *)
Active == {"init", "waiting"}

(* Which state the installer's thread found when it began what it does now: that one, unless
   somebody cancelled since. *)
StateWhile ==
  [fetchRelease |-> {"CHECKING_BIN"}, compareVersions |-> {"CHECKING_BIN"},
   answered |-> {"BIN_AVAILABLE", "BIN_STAGED"},
   discard |-> {"DOWNLOADING_BIN"}, downloadBin |-> {"DOWNLOADING_BIN"},
   extract |-> {"STAGING_BIN"}, writePending |-> {"STAGING_BIN"},
   checkData |-> {"CHECKING_DATA"}, downloadArchive |-> {"INSTALLING_DATA"},
   extractData |-> {"INSTALLING_DATA"}, fetchManifest |-> {"CHECKING_DATA"},
   decide |-> {"CHECKING_DATA"}, join |-> {"DOWNLOADING_DATA", "ERROR"},
   prune |-> {"COMMITTING_DATA"}, writeManifest |-> {"COMMITTING_DATA"},
   poll |-> DOMAIN CaseOf, ended |-> {"DONE", "ERROR"}]

(* Which thread is where: the installer's runs only beside the main loop, and an update is
   applied only before it. *)
ControlInv ==
  /\ main # "down" => state \in StateWhile[thread] \cup {"CANCELLED"}
  /\ main \notin Active => thread = "ended"
  /\ main = "down" => state = "CHECKING_BIN" /\ consent = 0 /\ ~relaunch
  /\ state # "INSTALLING_DATA" \/ thread # "poll"
  /\ (apply = Idle) = (main # "applying")
  /\ apply.phase = "idle" => apply = Idle

(* Version v of file i belongs to the program that runs; a file that came later may be newer
   or not there at all. *)
OfRunning(i, v) == IF i \in Added THEN exe > 1 => v >= exe ELSE v = exe

(* File i before its update was tried, or after it was taken back ... *)
Untried(i) == OfRunning(i, target[i]) /\ staged[i] = pending /\ displaced[i] = None
(* ... with the old one out of the way ... *)
Parked(i) == OfRunning(i, displaced[i]) /\ displaced[i] # None /\ target[i] = None /\ staged[i] = pending
(* ... and with the new one in place. *)
Replaced(i) == OfRunning(i, displaced[i]) /\ displaced[i] # None /\ target[i] = pending /\ staged[i] = None

(* Each file's part of an update that is being applied, rolled back or committed. *)
ApplyingInv ==
  /\ At("displace", apply.file) =>
       \A j \in File : IF j < apply.file THEN Replaced(j) ELSE Untried(j)
  /\ At("place", apply.file) =>
       \A j \in File : IF j < apply.file THEN Replaced(j)
                       ELSE IF j = apply.file THEN Parked(j) \/ (Untried(j) /\ target[j] = None)
                       ELSE Untried(j)
  /\ At("commit", apply.file) =>
       \A j \in File : target[j] = pending /\ (j < apply.file => displaced[j] = None)
  /\ At("restage", apply.file) =>
       \A j \in File : Untried(j) \/ (j >= apply.file /\ (Replaced(j) \/ Parked(j)))
  /\ At("restore", apply.file) =>
       \A j \in File : IF j = apply.file THEN Parked(j)
                       ELSE Untried(j) \/ (j > apply.file /\ (Replaced(j) \/ Parked(j)))

(* What is staged, in place and announced at every moment of an update. *)
EngineInv ==
  /\ main # "applying" =>
       /\ target[1] # None
       /\ \A i \in File : displaced[i] = None
       /\ \A i \in File : IF i \in Added THEN target[1] > 1 => target[i] >= target[1]
                                         ELSE target[i] = target[1]
       /\ pending # None => pending > target[1]
       /\ pending # None /\ thread # "discard" => \A i \in File : staged[i] = pending
  /\ main \notin {"down", "applying", "exit"} => exe = target[1]
  /\ main = "applying" => pending > exe /\ exe # None /\ ApplyingInv
  /\ thread \in {"discard", "downloadBin", "extract", "writePending"}
     \/ state \in {"BIN_AVAILABLE", "DOWNLOADING_BIN", "STAGING_BIN"} => release > exe
  /\ thread \in {"downloadBin", "extract", "writePending"} \/ state = "STAGING_BIN" => pending = None
  /\ thread = "writePending" => \A i \in File : staged[i] = release
  /\ relaunch => state = "DONE"
  /\ StageRecorded =>
       /\ state = "BIN_STAGED" => pending # None
       /\ relaunch => IF main = "exit" THEN target[1] > exe ELSE pending # None

(* StateWhile, point by point. *)
LEMMA StateWhileFacts ==
  /\ StateWhile["fetchRelease"] = {"CHECKING_BIN"}
  /\ StateWhile["compareVersions"] = {"CHECKING_BIN"}
  /\ StateWhile["answered"] = {"BIN_AVAILABLE", "BIN_STAGED"}
  /\ StateWhile["discard"] = {"DOWNLOADING_BIN"}
  /\ StateWhile["downloadBin"] = {"DOWNLOADING_BIN"}
  /\ StateWhile["extract"] = {"STAGING_BIN"}
  /\ StateWhile["writePending"] = {"STAGING_BIN"}
  /\ StateWhile["checkData"] = {"CHECKING_DATA"}
  /\ StateWhile["downloadArchive"] = {"INSTALLING_DATA"}
  /\ StateWhile["extractData"] = {"INSTALLING_DATA"}
  /\ StateWhile["fetchManifest"] = {"CHECKING_DATA"}
  /\ StateWhile["decide"] = {"CHECKING_DATA"}
  /\ StateWhile["join"] = {"DOWNLOADING_DATA", "ERROR"}
  /\ StateWhile["prune"] = {"COMMITTING_DATA"}
  /\ StateWhile["writeManifest"] = {"COMMITTING_DATA"}
  /\ StateWhile["ended"] = {"DONE", "ERROR"}
  /\ StateWhile["poll"] = DOMAIN CaseOf
  BY DEF StateWhile

(* The control invariant holds at the start ... *)
LEMMA ControlInit ==
  ASSUME Init
  PROVE  ControlInv
  BY DEF Init, PendingInit, ControlInv, Active, Idle

(* ... and every step keeps it. *)
LEMMA ControlStep ==
  ASSUME TypeOK, ControlInv, [Next]_vars
  PROVE  ControlInv'
<1> USE StateWhileFacts, CaseOfFacts, ThreadPointsFacts DEF TypeOK, ProcessTypeOK, ControlInv, Active
<1>1. CASE UNCHANGED vars
  BY <1>1 DEF vars, moduleVars, mainVars, engineVars
<1>2. CASE InstallerThread
  <2> USE DEF EngineStep, DataStep, mainVars, engineVars
  <2>1. CASE Poll
    BY <2>1 DEF Poll
  <2>2. CASE FetchRelease \/ CompareVersions \/ TakeConsent \/ DiscardStaged
    BY <2>2 DEF FetchRelease, CompareVersions, TakeConsent, DiscardStaged
  <2>3. CASE DownloadBin \/ ExtractBin \/ WritePending
    BY <2>3 DEF DownloadBin, ExtractBin, WritePending
  <2>4. CASE CheckData \/ InstallData
    BY <2>4 DEF CheckData, InstallData, Installed
  <2>5. CASE FetchManifest \/ DecideData \/ JoinDownloads \/ Commit
    BY <2>5 DEF FetchManifest, DecideData, JoinDownloads, Commit
  <2> QED
    BY <1>2, <2>1, <2>2, <2>3, <2>4, <2>5 DEF InstallerThread
<1>3. CASE EndProcess
  BY <1>3 DEF EndProcess, NewModule, Idle
<1>4. CASE Launch \/ Answer \/ LastFrame \/ Joined \/ Quit
  BY <1>4 DEF Launch, Answer, LastFrame, Joined, Quit, MainStep, mainVars, engineVars, Finished
<1>5. CASE ApplyPending
  BY <1>5 DEF ApplyPending, moduleVars, engineVars, BeginApply, ApplyStep, Go, GoAfter, GiveUp, Displace, Place,
    CommitFile, Restage, Restore, AfterRollback, Idle
<1>6. CASE \E d \in Downloaders : Download(d)
  BY <1>6 DEF Download, DataStep, mainVars, engineVars
<1>7. CASE Cancel \/ ReleaseEngine \/ ReleaseData
  BY <1>7 DEF Cancel, ReleaseEngine, ReleaseData, moduleVars, mainVars, engineVars
<1> QED
  BY <1>1, <1>2, <1>3, <1>4, <1>5, <1>6, <1>7 DEF Next, MainThread, Crash, Exit, Kill

(* The invariant of the engine's files holds at the start ... *)
LEMMA EngineInvInit ==
  ASSUME Init
  PROVE  EngineInv
  BY FilesAssumption DEF Init, PendingInit, EngineInv, File, NoFiles, None

(* One step of an update, or of its undoing. *)
LEMMA ApplyStepKeeps ==
  ASSUME OrderlyUpdates, TypeOK, ControlInv, EngineInv, main = "applying", ApplyStep, UNCHANGED exe
  PROVE  IF apply' # Idle
           THEN pending' = pending /\ ApplyingInv' /\ relaunch' = relaunch
           ELSE /\ \A j \in File : displaced'[j] = None
                /\ \/ /\ pending' = None /\ relaunch' = relaunch
                      /\ \A j \in File : target'[j] = pending
                   \/ /\ pending' = pending /\ ~relaunch'
                      /\ \A j \in File : staged'[j] = pending /\ OfRunning(j, target'[j])
<1> PICK i \in File : Displace(i) \/ Place(i) \/ CommitFile(i) \/ Restage(i) \/ Restore(i)
  BY DEF ApplyStep
<1> USE DEF TypeOK, EngineTypeOK
<1>0. /\ Files \in Nat \ {0} /\ i \in File /\ i \in 1 .. Files /\ File = 1 .. Files
      /\ i # Files => i + 1 \in File
  BY FilesAssumption DEF File
<1>1. 1 \in File /\ 1 \notin Added
  BY FilesAssumption DEF File
<1>2. exe \in Nat /\ pending \in Nat /\ exe # 0 /\ pending > exe /\ pending # 0 /\ ApplyingInv
  BY InstallerAssumption DEF EngineInv, Versions, None
<1>3. ~Trouble("rollback")
  BY DEF OrderlyUpdates, Trouble
<1> USE DEF Go, GoAfter, GiveUp, At, Idle, None, OfRunning
<1>4. CASE Displace(i)
  BY <1>0, <1>1, <1>2, <1>4 DEF Displace, ApplyingInv, Untried, Parked, Replaced
<1>5. CASE Place(i)
  <2>1. \A j \in File : j \in Added => j = Files
    BY DEF OrderlyUpdates
  <2> QED
    BY <1>0, <1>1, <1>2, <1>5, <2>1 DEF Place, ApplyingInv, Untried, Parked, Replaced
<1>6. CASE CommitFile(i)
  BY <1>0, <1>1, <1>2, <1>6 DEF CommitFile, ApplyingInv
<1>9. ASSUME AfterRollback(i), UNCHANGED pending,
             \A j \in File : Untried(j)' \/ (j > i /\ (Replaced(j)' \/ Parked(j)'))
      PROVE  IF apply' # Idle
               THEN pending' = pending /\ ApplyingInv' /\ relaunch' = relaunch
               ELSE /\ \A j \in File : displaced'[j] = None
                    /\ pending' = pending /\ ~relaunch'
                    /\ \A j \in File : staged'[j] = pending /\ OfRunning(j, target'[j])
  <2>1. CASE i = Files
    <3>1. apply' = Idle /\ ~relaunch'
      BY <1>9, <2>1 DEF AfterRollback
    <3>2. \A j \in File : Untried(j)'
      BY <1>0, <1>9, <2>1
    <3> QED
      BY <1>9, <3>1, <3>2 DEF Untried
  <2>2. CASE i # Files
    <3>1. apply' = [phase |-> "restage", file |-> i + 1] /\ relaunch' = relaunch
      BY <1>9, <2>2 DEF AfterRollback
    <3>2. \A j \in File : Untried(j)' \/ (j >= i + 1 /\ (Replaced(j)' \/ Parked(j)'))
      BY <1>0, <1>9
    <3> QED
      BY <1>9, <3>1, <3>2 DEF ApplyingInv
  <2> QED
    BY <2>1, <2>2
<1>7. CASE Restage(i)
  <2>1. \A j \in File : Untried(j) \/ (j >= i /\ (Replaced(j) \/ Parked(j)))
    BY <1>2, <1>7 DEF Restage, ApplyingInv
  <2>2. CASE displaced[i] = None
    <3>1. Untried(i)
      BY <2>1, <2>2 DEF Parked, Replaced
    <3> QED
      <4>1. AfterRollback(i) /\ UNCHANGED <<target, staged, displaced, pending, exe>>
        BY <1>7, <2>2 DEF Restage
      <4>2. \A j \in File : Untried(j)' \/ (j > i /\ (Replaced(j)' \/ Parked(j)'))
        BY <1>0, <2>1, <3>1, <4>1 DEF Untried, Parked, Replaced
      <4> QED
        BY <1>9, <4>1, <4>2
  <2>3. CASE displaced[i] # None
    <3>1. Replaced(i) \/ Parked(i)
      BY <2>1, <2>3 DEF Untried
    <3>2. /\ apply' = [phase |-> "restore", file |-> i]
          /\ UNCHANGED <<displaced, pending, relaunch, exe>>
      BY <1>7, <2>3 DEF Restage
    <3>3. /\ target'[i] = None /\ staged'[i] = pending
          /\ \A j \in File \ {i} : target'[j] = target[j] /\ staged'[j] = staged[j]
      BY <1>2, <1>3, <1>7, <2>3, <3>1 DEF Restage, Replaced, Parked
    <3> QED
      BY <1>0, <2>1, <3>1, <3>2, <3>3 DEF ApplyingInv, Untried, Parked, Replaced
  <2> QED
    BY <2>2, <2>3
<1>8. CASE Restore(i)
  <2>1. Parked(i) /\ \A j \in File \ {i} : Untried(j) \/ (j > i /\ (Replaced(j) \/ Parked(j)))
    BY <1>2, <1>8 DEF Restore, ApplyingInv
  <2>2. /\ displaced'[i] = None /\ target'[i] = displaced[i] /\ staged' = staged
        /\ \A j \in File \ {i} : displaced'[j] = displaced[j] /\ target'[j] = target[j]
        /\ pending' = pending
    BY <1>3, <1>8 DEF Restore
  <2>3. \A j \in File : Untried(j)' \/ (j > i /\ (Replaced(j)' \/ Parked(j)'))
    BY <1>0, <2>1, <2>2 DEF Untried, Parked, Replaced
  <2> QED
    BY <1>8, <1>9, <2>2, <2>3 DEF Restore
<1> QED
  BY <1>4, <1>5, <1>6, <1>7, <1>8

(* ... and every step keeps it. *)
LEMMA EngineInvStep ==
  ASSUME OrderlyUpdates, TypeOK, ControlInv, EngineInv, [Next]_vars
  PROVE  EngineInv'
<1> USE CaseOfFacts, ThreadPointsFacts, StateWhileFacts
    DEF TypeOK, ProcessTypeOK, EngineTypeOK, ControlInv, Active, EngineInv, None
<1>0. /\ StageRecorded => ~Trouble("pending.mf")
      /\ ~Trouble("crash while applying") /\ ~Trouble("crash while discarding")
  BY DEF OrderlyUpdates, StageRecorded, Trouble
<1>9. 1 \in File /\ 1 \notin Added /\ Versions \subseteq Nat
  BY FilesAssumption DEF File, Versions
<1>10. ASSUME UNCHANGED <<staged, target, displaced, pending, apply, exe>>
       PROVE  ApplyingInv' = ApplyingInv
  BY <1>10 DEF ApplyingInv, At, Untried, Parked, Replaced, OfRunning
<1>1. CASE UNCHANGED <<staged, target, displaced, pending, relaunch, apply, exe, release, main>>
           /\ (state' # state => state' \notin {"BIN_AVAILABLE", "DOWNLOADING_BIN", "STAGING_BIN", "BIN_STAGED"} /\ ~relaunch)
           /\ (thread' # thread => thread \notin {"discard", "downloadBin", "extract", "writePending"} /\ thread' \notin {"discard", "downloadBin", "extract", "writePending"})
  BY <1>1, <1>10
<1>2. CASE UNCHANGED vars
  BY <1>1, <1>2 DEF vars, moduleVars, mainVars, engineVars
<1>3. CASE InstallerThread
  <2> USE DEF EngineStep, DataStep, mainVars, engineVars
  <2>1. CASE Poll
    BY <2>1 DEF Poll
  <2>2. CASE FetchRelease \/ CompareVersions
    BY <2>2 DEF FetchRelease, CompareVersions
  <2>3. CASE TakeConsent
    BY <2>3 DEF TakeConsent
  <2>4. CASE DiscardStaged
    BY <2>4 DEF DiscardStaged, DiscardEntry, Discarded
  <2>5. CASE DownloadBin \/ ExtractBin
    BY <2>5 DEF DownloadBin, ExtractBin
  <2>6. CASE WritePending
    <3>0. release > exe /\ release # None
      BY <1>9, <2>6 DEF WritePending
    <3>3. main \in Active /\ state # "DONE" /\ ~relaunch
      BY <2>6 DEF WritePending
    <3>1. /\ state' \in {"CANCELLED", "BIN_STAGED"} /\ thread' = "poll"
          /\ UNCHANGED <<staged, target, displaced, relaunch, apply, exe, release, main>>
          /\ \A i \in File : staged[i] = release
      BY <2>6 DEF WritePending
    <3>2. CASE pending' = release
      BY <1>9, <3>0, <3>1, <3>2, <3>3
    <3>4. CASE pending' = pending /\ ~StageRecorded
      BY <2>6, <1>9, <3>0, <3>1, <3>3, <3>4 DEF WritePending
    <3> QED
      BY <1>0, <2>6, <3>2, <3>4 DEF WritePending
  <2>7. CASE CheckData \/ InstallData
    BY <2>7 DEF CheckData, InstallData, Installed
  <2>8. CASE FetchManifest \/ DecideData \/ JoinDownloads \/ Commit
    BY <2>8 DEF FetchManifest, DecideData, JoinDownloads, Commit
  <2> QED
    BY <1>3, <2>1, <2>2, <2>3, <2>4, <2>5, <2>6, <2>7, <2>8 DEF InstallerThread
<1>4. CASE Crash \/ Exit \/ Kill
  <2>1. EndProcess /\ main # "applying" /\ thread # "discard"
    BY <1>0, <1>4 DEF Crash, Exit, Kill, Hung, CrashSite
  <2> QED
    BY <2>1 DEF EndProcess, NewModule
<1>5. CASE Launch \/ Answer \/ LastFrame \/ Joined \/ Quit
  BY <1>5 DEF Launch, Answer, LastFrame, Joined, Quit, MainStep, mainVars, engineVars
<1>6. CASE ApplyPending
  <2> USE <1>9 DEF ApplyPending, moduleVars
  <2>1. CASE main = "shutdown" /\ pending = None /\ main' = "exit" /\ UNCHANGED <<troubles, engineVars>>
    BY <1>6, <2>1 DEF engineVars
  <2>2. CASE main = "shutdown" /\ BeginApply /\ main' = "applying"
    <3>1. /\ apply' = [phase |-> "displace", file |-> 1]
          /\ UNCHANGED <<staged, target, displaced, pending, relaunch, exe, state, thread, release>>
      BY <1>6, <2>2 DEF BeginApply, Go
    <3>2. \A j \in File : Untried(j)' /\ ~(j < 1)
      BY <2>2, <3>1, FilesAssumption DEF BeginApply, Untried, OfRunning, File
    <3>3. ApplyingInv'
      BY <3>1, <3>2 DEF ApplyingInv, At
    <3> QED
      BY <2>2, <3>1, <3>3 DEF BeginApply
  <2>3. CASE main = "applying" /\ ApplyStep /\ main' = IF apply' = Idle THEN "exit" ELSE main
    <3>1. UNCHANGED <<exe, state, thread, release>>
      BY <1>6
    <3>2. IF apply' # Idle
           THEN pending' = pending /\ ApplyingInv' /\ relaunch' = relaunch
           ELSE /\ \A j \in File : displaced'[j] = None
                /\ \/ /\ pending' = None /\ relaunch' = relaunch
                      /\ \A j \in File : target'[j] = pending
                   \/ /\ pending' = pending /\ ~relaunch'
                      /\ \A j \in File : staged'[j] = pending /\ OfRunning(j, target'[j])
      BY <2>3, <3>1, ApplyStepKeeps
    <3>3. CASE apply' # Idle
      BY <2>3, <3>1, <3>2, <3>3
    <3>4. CASE apply' = Idle
      <4>1. main' = "exit" /\ thread' = "ended" /\ exe \in Nat /\ exe # 0 /\ pending > exe
        BY <2>3, <3>1, <3>4
      <4>2. CASE pending' = None /\ relaunch' = relaunch /\ \A j \in File : target'[j] = pending
        <5>1. state \in {"DONE", "ERROR", "CANCELLED"}
          BY <2>3
        <5>2. pending \in Nat /\ target'[1] = pending /\ \A j \in File : target'[j] >= target'[1]
          BY <4>2
        <5> QED
          BY <3>1, <3>2, <3>4, <4>1, <4>2, <5>1, <5>2
      <4>3. CASE /\ pending' = pending /\ ~relaunch'
                 /\ \A j \in File : staged'[j] = pending /\ OfRunning(j, target'[j])
        <5>1. target'[1] = exe /\ \A j \in File : IF j \in Added THEN exe > 1 => target'[j] >= exe
                                                              ELSE target'[j] = exe
          BY <4>3 DEF OfRunning
        <5> QED
          BY <3>1, <3>2, <3>4, <4>1, <4>3, <5>1
      <4> QED
        BY <3>2, <3>4, <4>2, <4>3
    <3> QED
      BY <3>3, <3>4
  <2> QED
    BY <1>6, <2>1, <2>2, <2>3
<1>7. CASE \E d \in Downloaders : Download(d)
  BY <1>1, <1>7 DEF Download, DataStep, mainVars, engineVars
<1>8. CASE ReleaseEngine \/ ReleaseData
  BY <1>1, <1>8 DEF ReleaseEngine, ReleaseData, moduleVars, mainVars, engineVars
<1>11. CASE Cancel
  BY <1>10, <1>11 DEF Cancel, engineVars, Finished
<1> QED
  BY <1>11, <1>2, <1>3, <1>4, <1>5, <1>6, <1>7, <1>8 DEF Next, MainThread

(* Where the engine's files are at every moment of an update, and what the state of the
   installer says about them. *)
THEOREM UpdateInvariance ==
  ASSUME OrderlyUpdates
  PROVE  Spec => [](ControlInv /\ EngineInv)
<1>1. Init => ControlInv /\ EngineInv
  BY ControlInit, EngineInvInit
<1>2. TypeOK /\ ControlInv /\ EngineInv /\ [Next]_vars => (ControlInv /\ EngineInv)'
  BY ControlStep, EngineInvStep
<1> QED
  BY <1>1, <1>2, TypeCorrectness, PTL DEF Spec

(* An update is applied whole or not at all, and what pending.mf announces is staged, for any
   number of files. *)
THEOREM UpdatesAreWhole ==
  ASSUME OrderlyUpdates
  PROVE  Spec => []AllOrNothing
<1>1. EngineInv => AllOrNothing
  BY DEF EngineInv, AllOrNothing
<1> QED
  BY <1>1, UpdateInvariance, PTL

(* A restart that the installer asked for runs a newer version. *)
THEOREM RestartsUpdate ==
  ASSUME OrderlyUpdates, StageRecorded
  PROVE  Spec => []RestartUpdates
<1>1. EngineInv => RestartUpdates
  BY DEF EngineInv, RestartUpdates
<1> QED
  BY <1>1, UpdateInvariance, PTL

-------------------------------------------------------------------------------

(* What the theorem about the data assumes of failures: the process does not die while it
   extracts the data archive. *)
OrderlyExtraction == "crash while extracting" \notin TroubleSites

(* What it assumes of the server: no release takes a file back to a content that it had before
   another one.  The installer does not see to it; without it the theorem does not hold. *)
NeverReverted ==
  \A f \in DataFiles : \A i, j, k \in DOMAIN Releases :
    i < j /\ j < k /\ Releases[i][f] = Releases[k][f] => Releases[j][f] = Releases[i][f]

(* The contents that the server ever offered of f, and those that it does not offer again. *)
Past(f) == {Absent} \cup {Releases[r][f] : r \in 1 .. remote}
Over(f, v) == \A r \in DOMAIN Releases : r >= remote => Releases[r][f] # v

(* The content v of file f is none, or no release will have it again ... *)
Outdated(f, v) == v = Absent \/ Over(f, v)
(* ... or the data directory has it. *)
InPlace(f, v) == Outdated(f, v) \/ data[f] = v

(* Download thread d has a file. *)
Busy(d) == downloader[d].at \notin {"claim", "ended"}

(* module.remoteManifest is compared and its downloads are not all done ... *)
Comparing == thread \in {"decide", "join"} \/ (thread = "poll" /\ state = "DOWNLOADING_DATA")

(* ... or they are. *)
Committing == thread \in {"prune", "writeManifest"} \/ (thread = "poll" /\ state = "COMMITTING_DATA")

(* Whatever the manifest on disk lists is in the data directory or will be replaced. *)
ManifestInv ==
  /\ \A f \in DataFiles : manifest.hash[f] \in Past(f) /\ wanted[f] \in Past(f)
  /\ ~manifest.exists => \A f \in DataFiles : manifest.hash[f] = Absent
  /\ thread # "extractData" => \A f \in DataFiles : InPlace(f, manifest.hash[f])

(* An archive is extracted only into a directory without a manifest. *)
ArchiveInv ==
  /\ archive.release <= remote
  /\ thread = "downloadArchive" =>
       ~manifest.exists /\ archive.members = Members(archive.release)
  /\ thread = "extractData" =>
       \A f \in DataFiles : /\ manifest.hash[f] \in {Absent, Releases[archive.release][f]}
                            /\ f \in archive.members \/ InPlace(f, Releases[archive.release][f])

(* What the comparison of both manifests said of each file still holds when it is acted on. *)
ComparisonInv ==
  /\ Comparing \/ Committing =>
       \A f \in DataFiles :
         /\ f \in stale => Outdated(f, manifest.hash[f]) /\ wanted[f] = Absent
         /\ status[f] \in {"unlisted", "current"} => InPlace(f, wanted[f])
  /\ Comparing =>
       \A f \in DataFiles :
         /\ status[f] \in {"pending", "downloading"} => Outdated(f, manifest.hash[f])
         /\ thread # "join" => status[f] # "downloading"
  /\ Committing => \A f \in DataFiles : status[f] \in {"unlisted", "current"}

(* What a download thread knows of its file, and that nobody else has it. *)
Holds(d, f) ==
  Busy(d) /\ downloader[d].file = f =>
    /\ status[f] = "downloading"
    /\ downloader[d].at = "write" => Outdated(f, wanted[f]) \/ downloader[d].got = wanted[f]
    /\ downloader[d].at = "written" => InPlace(f, wanted[f])
    /\ \A e \in Downloaders \ {d} : ~(Busy(e) /\ downloader[e].file = f)

(* Every file that is being downloaded has one thread. *)
DownloadInv ==
  /\ thread # "join" => DownloadsEnded
  /\ \A d \in Downloaders, f \in DataFiles : Holds(d, f)
  /\ thread = "join" /\ state = "DOWNLOADING_DATA" =>
       /\ (\E d \in Downloaders : downloader[d].at = "ended") => Pending = {}
       /\ \A f \in DataFiles : status[f] = "downloading" =>
            \E d \in Downloaders : Busy(d) /\ downloader[d].file = f

(* The invariant of the data directory. *)
DataInv == ManifestInv /\ ArchiveInv /\ ComparisonInv /\ DownloadInv

(* A content that was offered and is not offered now will not be offered again. *)
LEMMA NeverAgain ==
  ASSUME NeverReverted, TypeOK, NEW f \in DataFiles, NEW v \in Past(f), v # Offered[f]
  PROVE  Outdated(f, v)
<1> SUFFICES ASSUME v # Absent, NEW r \in DOMAIN Releases, r >= remote, Releases[r][f] = v
             PROVE  FALSE
  BY DEF Outdated, Over
<1>1. PICK j \in 1 .. remote : Releases[j][f] = v
  BY DEF Past
<1>2. remote \in DOMAIN Releases /\ DOMAIN Releases = 1 .. Len(Releases) /\ Len(Releases) \in Nat
  BY ReleasesFacts DEF TypeOK, DataTypeOK
<1>3. j \in DOMAIN Releases /\ j < remote /\ remote < r
  BY <1>1, <1>2 DEF Offered
<1> QED
  BY <1>1, <1>2, <1>3 DEF Offered, NeverReverted

(* It holds at the start. *)
LEMMA DataInvInit ==
  ASSUME Init
  PROVE  DataInv
<1> USE DEF Init, DataInit, NoManifest, Nothing, Ended
<1>1. 1 \in 1 .. remote /\ 1 \in DOMAIN Releases
  BY ReleasesFacts
<1>2. ManifestInv
  BY <1>1 DEF ManifestInv, Past, InPlace, Outdated
<1>3. ArchiveInv /\ ComparisonInv /\ DownloadInv
  BY DEF ArchiveInv, ComparisonInv, DownloadInv, Holds, Comparing, Committing, Busy, DownloadsEnded
<1> QED
  BY <1>2, <1>3 DEF DataInv

(* Steps that touch no data, and that neither begin nor end a comparison. *)
LEMMA DataQuiet ==
  ASSUME DataInv, UNCHANGED dataVars,
         \/ UNCHANGED <<thread, state>>
         \/ /\ thread' \notin {"downloadArchive", "extractData", "decide", "join", "prune", "writeManifest"}
            /\ thread' = "poll" => state' \notin {"DOWNLOADING_DATA", "COMMITTING_DATA"}
            /\ thread \notin {"extractData", "join"}
         \/ thread' = thread /\ state' \in {"CANCELLED", "ERROR"}
  PROVE  DataInv'
<1> USE DEF DataInv, dataVars
<1>1. ManifestInv'
  BY DEF ManifestInv, Past, InPlace, Outdated, Over
<1>2. ArchiveInv'
  BY DEF ArchiveInv, InPlace, Outdated, Over
<1>3. ComparisonInv'
  BY DEF ComparisonInv, Comparing, Committing, InPlace, Outdated, Over
<1>4. DownloadInv'
  BY DEF DownloadInv, Holds, Busy, DownloadsEnded, Pending, InPlace, Outdated, Over
<1> QED
  BY <1>1, <1>2, <1>3, <1>4

(* Downloads are under way only while their thread is waited for. *)
LEMMA NotBusy ==
  ASSUME DataInv, thread # "join"
  PROVE  \A d \in Downloaders : downloader[d].at = "ended" /\ ~Busy(d)
  BY DEF DataInv, DownloadInv, DownloadsEnded, Busy

(* Nothing is downloaded unless the installer waits for it. *)
LEMMA DownloadInvIdle ==
  ASSUME DataInv, thread # "join", thread' # "join", UNCHANGED downloader
  PROVE  DownloadInv'
  BY NotBusy DEF DownloadInv, Holds, DownloadsEnded, Busy

(* The first installation, from the archive, keeps the invariant of the data directory ... *)
LEMMA DataInvInstall ==
  ASSUME TypeOK, ControlInv, DataInv, CheckData \/ InstallData
  PROVE  DataInv'
<1> USE DEF DataInv, DataStep, TypeOK, DataTypeOK
<1>0. /\ remote \in DOMAIN Releases /\ remote \in Nat
      /\ \A r \in 1 .. remote : r \in DOMAIN Releases /\ r <= remote /\ r >= 1
      /\ archive.release \in 1 .. remote
      /\ data \in [DataFiles -> Contents] /\ "manifest.mf" \notin DataFiles
  BY ReleasesFacts, ReleasesType DEF ArchiveInv
<1>1. CASE CheckData
  <2>1. UNCHANGED <<remote, data, manifest, wanted, status, stale, downloader>> /\ thread = "checkData"
    BY <1>1 DEF CheckData
  <2>2. CASE UNCHANGED archive /\ thread' \in {"fetchManifest", "poll"} /\ UNCHANGED state /\ (thread' = "poll" => state = "CANCELLED")
    BY <2>1, <2>2, DataQuiet DEF dataVars
  <2>3. CASE OpenArchive /\ thread' = "downloadArchive" /\ ~manifest.exists
    <3>1. ManifestInv'
      BY <2>1, <2>3 DEF ManifestInv, Past, InPlace, Outdated, Over
    <3>2. ArchiveInv'
      BY <1>0, <2>1, <2>3 DEF ArchiveInv, OpenArchive, Members
    <3>3. ComparisonInv'
      BY <2>3 DEF ComparisonInv, Comparing, Committing
    <3> QED
      BY <2>1, <2>3, <3>1, <3>2, <3>3, DownloadInvIdle
  <2> QED
    BY <1>1, <2>2, <2>3 DEF CheckData
<1>2. CASE InstallData
  <2>1. /\ UNCHANGED <<remote, wanted, status, stale, downloader>>
        /\ thread \in {"downloadArchive", "extractData"}
        /\ thread' \in {"extractData", "poll", "fetchManifest"}
        /\ thread' = "poll" => state' = "CANCELLED"
        /\ archive'.release = archive.release
    BY <1>2 DEF InstallData, Installed, ExtractMember, DiscardInstall
  <2>2. ComparisonInv' /\ DownloadInv'
    BY <2>1, DownloadInvIdle DEF ComparisonInv, Comparing, Committing
  <2>3. ASSUME manifest' = NoManifest, thread' # "extractData"
        PROVE  ManifestInv' /\ ArchiveInv'
    BY <1>0, <2>1, <2>3 DEF ManifestInv, ArchiveInv, NoManifest, Nothing, Past, InPlace, Outdated
  <2>4. CASE thread = "downloadArchive" /\ thread' = "extractData" /\ UNCHANGED <<data, manifest, archive>>
    <3>1. \A f \in DataFiles : f \in archive.members \/ Releases[archive.release][f] = Absent
      BY <2>4 DEF ArchiveInv, Members
    <3>2. ManifestInv'
      BY <2>1, <2>4 DEF ManifestInv, Past, InPlace, Outdated, Over
    <3>3. ArchiveInv'
      BY <2>1, <2>4, <3>1 DEF ManifestInv, ArchiveInv, InPlace, Outdated
    <3> QED
      BY <2>2, <3>2, <3>3
  <2>5. CASE thread = "extractData" /\ ExtractMember /\ UNCHANGED thread
    <3> DEFINE h == Releases[archive.release]
    <3>1. PICK m \in archive.members :
           /\ archive' = [archive EXCEPT !.members = @ \ {m}]
           /\ IF m = "manifest.mf"
                THEN manifest' = [exists |-> TRUE, hash |-> h] /\ UNCHANGED data
                ELSE data' = [data EXCEPT ![m] = h[m]] /\ UNCHANGED manifest
      BY <2>5 DEF ExtractMember
    <3>2. \A f \in DataFiles : h[f] \in Past(f)
      BY <1>0 DEF Past
    <3>3. ManifestInv'
      BY <2>1, <2>5, <3>1, <3>2 DEF ManifestInv, Past
    <3>4. ArchiveInv'
      BY <1>0, <2>1, <2>5, <3>1 DEF ArchiveInv, InPlace, Outdated, Over
    <3> QED
      BY <2>2, <3>3, <3>4
  <2>6. CASE thread = "extractData" /\ archive.members = {} /\ Installed /\ UNCHANGED <<data, manifest, archive>>
    <3>1. \A f \in DataFiles : InPlace(f, manifest.hash[f])
      BY <2>6 DEF ArchiveInv, InPlace, Outdated
    <3>2. ManifestInv'
      BY <2>1, <2>6, <3>1 DEF ManifestInv, Past, InPlace, Outdated, Over
    <3>3. ArchiveInv'
      BY <1>0, <2>1, <2>6 DEF ArchiveInv, Installed
    <3> QED
      BY <2>2, <3>2, <3>3
  <2>7. CASE manifest' = NoManifest /\ Installed
    BY <2>2, <2>3, <2>7 DEF Installed
  <2> QED
    BY <1>2, <2>4, <2>5, <2>6, <2>7 DEF InstallData, DiscardInstall
<1> QED
  BY <1>1, <1>2

(* ... so do the comparison of the manifests, *)
LEMMA DataInvCompare ==
  ASSUME NeverReverted, TypeOK, ControlInv, DataInv,
         FetchManifest \/ DecideData \/ Poll \/ JoinDownloads
  PROVE  DataInv'
<1> USE DEF DataInv, DataStep
<1>0. /\ remote \in 1 .. remote /\ Offered = Releases[remote]
      /\ state \in DOMAIN CaseOf
      /\ status \in [DataFiles -> {"unlisted", "pending", "downloading", "current"}]
  BY ReleasesFacts DEF TypeOK, DataTypeOK, ProcessTypeOK, Offered
<1>1. CASE Poll
  <2> USE CaseOfFacts DEF Poll
  <2>1. ManifestInv'
    BY <1>0, <1>1 DEF ManifestInv, Past, InPlace, Outdated, Over
  <2>2. ArchiveInv'
    BY <1>0, <1>1 DEF ArchiveInv
  <2>3. ComparisonInv'
    BY <1>0, <1>1 DEF ComparisonInv, Comparing, Committing, InPlace, Outdated, Over
  <2>4. DownloadInv'
    <3>1. CASE state = "DOWNLOADING_DATA"
      BY <1>1, <3>1 DEF DownloadInv, Holds, StartDownloads, Ended, Busy, ComparisonInv, Comparing
    <3>2. CASE state # "DOWNLOADING_DATA"
      BY <1>0, <1>1, <3>2, DownloadInvIdle
    <3> QED
      BY <3>1, <3>2
  <2> QED
    BY <2>1, <2>2, <2>3, <2>4
<1>2. CASE FetchManifest
  <2>1. UNCHANGED <<remote, data, manifest, archive, downloader>> /\ thread = "fetchManifest"
    BY <1>2 DEF FetchManifest
  <2>2. CASE Compare /\ thread' = "decide" /\ UNCHANGED <<troubles, state>>
    <3>1. \A f \in DataFiles : Offered[f] \in Past(f)
      BY <1>0 DEF Past
    <3>2. \A f \in DataFiles : manifest.hash[f] # Offered[f] => Outdated(f, manifest.hash[f])
      BY NeverAgain DEF ManifestInv
    <3>3. ManifestInv'
      BY <2>1, <2>2, <3>1 DEF ManifestInv, Compare, Past, InPlace, Outdated, Over
    <3>4. ArchiveInv'
      BY <2>1, <2>2 DEF ArchiveInv
    <3>5. ComparisonInv'
      BY <2>1, <2>2, <3>2 DEF ManifestInv, ComparisonInv, Comparing, Committing, Compare, InPlace, Outdated, Over
    <3> QED
      BY <2>1, <2>2, <3>3, <3>4, <3>5, DownloadInvIdle
  <2>3. CASE thread' = "poll" /\ state' = "ERROR" /\ UNCHANGED <<wanted, status, stale>>
    BY <2>1, <2>3, DataQuiet DEF dataVars
  <2> QED
    BY <1>2, <2>2, <2>3 DEF FetchManifest
<1>3. CASE DecideData
  <2> USE DEF DecideData
  <2>1. ManifestInv' /\ ArchiveInv'
    BY <1>3 DEF ManifestInv, ArchiveInv, Past, InPlace, Outdated, Over
  <2>2. ComparisonInv'
    BY <1>0, <1>3 DEF ComparisonInv, Comparing, Committing, InPlace, Outdated, Over, Pending
  <2> QED
    BY <1>3, <2>1, <2>2, DownloadInvIdle
<1>4. CASE JoinDownloads
  <2> USE DEF JoinDownloads
  <2>1. ManifestInv' /\ ArchiveInv'
    BY <1>4 DEF ManifestInv, ArchiveInv, Past, InPlace, Outdated, Over
  <2>2. state = "DOWNLOADING_DATA" => \A f \in DataFiles : status[f] \in {"unlisted", "current"}
    BY <1>0, <1>4, DownloadersAssumption DEF DownloadInv, Holds, DownloadsEnded, Busy, Pending
  <2>3. state \in {"DOWNLOADING_DATA", "ERROR", "CANCELLED"}
    BY <1>4, StateWhileFacts DEF ControlInv, Active
  <2>4. ComparisonInv'
    BY <1>0, <1>4, <2>2, <2>3 DEF ComparisonInv, Comparing, Committing, InPlace, Outdated, Over
  <2>5. DownloadInv'
    BY <1>4 DEF DownloadInv, Holds, DownloadsEnded, Busy
  <2> QED
    BY <2>1, <2>4, <2>5
<1> QED
  BY <1>1, <1>2, <1>3, <1>4

(* each step of a download, *)
LEMMA DataInvDownload ==
  ASSUME NeverReverted, TypeOK, ControlInv, DataInv, NEW d \in Downloaders, Download(d)
  PROVE  DataInv'
<1> DEFINE f == downloader[d].file
<1> USE DEF DataInv
<1>0. /\ downloader \in [Downloaders -> DownloaderState]
      /\ status \in [DataFiles -> {"unlisted", "pending", "downloading", "current"}]
      /\ data \in [DataFiles -> Contents]
  BY DEF TypeOK, DataTypeOK
<1>1. /\ UNCHANGED <<remote, manifest, wanted, stale, archive, thread>>
      /\ thread = "join" /\ Comparing
      /\ state \in {"DOWNLOADING_DATA", "ERROR", "CANCELLED"}
      /\ state' = IF downloader[d].at = "failed" /\ state = "DOWNLOADING_DATA" THEN "ERROR" ELSE state
  <2>1. downloader[d].at # "ended"
    BY DEF Download, Claim, Get, Write, Downloaded, DownloadFailed
  <2>2. thread = "join"
    BY <2>1, NotBusy
  <2> QED
    BY <2>2, StateWhileFacts DEF ControlInv, Active, Download, DataStep, Comparing
<1>2. Busy(d) => f \in DataFiles /\ Outdated(f, manifest.hash[f]) /\ status[f] = "downloading"
  BY <1>0, <1>1 DEF Busy, DownloadInv, Holds, ComparisonInv, DownloaderState
<1>3. ArchiveInv'
  BY <1>1 DEF ArchiveInv
<1>4. ASSUME \A g \in DataFiles : data'[g] = data[g] \/ (Busy(d) /\ g = f)
      PROVE  ManifestInv'
  BY <1>1, <1>2, <1>4 DEF ManifestInv, Past, InPlace, Outdated, Over
<1>5. ASSUME \A g \in DataFiles : \/ status'[g] = status[g] /\ data'[g] = data[g]
                                  \/ status'[g] = "downloading" /\ status[g] \in {"pending", "downloading"}
                                  \/ status'[g] = "current" /\ status[g] = "downloading" /\ InPlace(g, wanted[g])'
      PROVE  ComparisonInv'
  BY <1>1, <1>5 DEF ComparisonInv, Comparing, Committing, InPlace, Outdated, Over
<1> USE DEF Busy, DownloadsEnded, Pending, InPlace, Outdated, Over
<1>6. CASE Claim(d, state)
  <2>1. UNCHANGED data /\ downloader[d].at = "claim"
    BY <1>6 DEF Claim
  <2>2. CASE (state # "DOWNLOADING_DATA" \/ Pending = {}) /\ downloader' = [downloader EXCEPT ![d] = Ended] /\ UNCHANGED status
    <3>1. DownloadInv'
      BY <1>0, <1>1, <2>1, <2>2 DEF DownloadInv, Holds, Ended
    <3> QED
      BY <1>3, <1>4, <1>5, <2>1, <2>2, <3>1
  <2>3. CASE /\ state = "DOWNLOADING_DATA"
             /\ \E g \in Pending :
                  /\ status' = [status EXCEPT ![g] = "downloading"]
                  /\ Downloading(d, "get", g, Absent)
    <3> PICK g \in Pending : /\ status' = [status EXCEPT ![g] = "downloading"]
                             /\ Downloading(d, "get", g, Absent)
      BY <2>3
    <3>1. /\ g \in DataFiles /\ status[g] = "pending"
          /\ \A e \in Downloaders \ {d} : downloader'[e] = downloader[e]
          /\ downloader'[d] = [at |-> "get", file |-> g, got |-> Absent]
      BY <1>0 DEF Downloading
    <3>2. DownloadInv'
      BY <1>0, <1>1, <2>1, <2>3, <3>1 DEF DownloadInv, Holds
    <3> QED
      BY <1>0, <1>3, <1>4, <1>5, <2>1, <3>1, <3>2
  <2> QED
    BY <1>6, <2>2, <2>3 DEF Claim
<1>7. CASE Get(d)
  <2>1. /\ f \in DataFiles /\ downloader[d].at = "get" /\ UNCHANGED status
        /\ \A e \in Downloaders \ {d} : downloader'[e] = downloader[e]
        /\ \A g \in DataFiles \ {f} : data'[g] = data[g]
    BY <1>0, <1>2, <1>7 DEF Get, Downloading
  <2>2. \/ downloader'[d] = [at |-> "write", file |-> f, got |-> Offered[f]]
        \/ downloader'[d] = [at |-> "failed", file |-> f, got |-> Absent]
    BY <1>0, <1>7 DEF Get, Downloading
  <2>3. wanted[f] # Offered[f] => Outdated(f, wanted[f])
    BY <2>1, NeverAgain DEF ManifestInv
  <2>4. \A g \in DataFiles : Holds(d, g)'
    BY <1>0, <1>1, <2>1, <2>2, <2>3 DEF DownloadInv, Holds
  <2>5. \A e \in Downloaders \ {d}, g \in DataFiles : Holds(e, g)'
    BY <1>0, <1>1, <2>1, <2>2 DEF DownloadInv, Holds
  <2>6. DownloadInv'
    BY <1>0, <1>1, <2>1, <2>2, <2>4, <2>5 DEF DownloadInv
  <2> QED
    BY <1>2, <1>3, <1>4, <1>5, <2>1, <2>6
<1>8. CASE Write(d)
  <2>1. /\ f \in DataFiles /\ downloader[d].at = "write" /\ UNCHANGED status
        /\ \A e \in Downloaders \ {d} : downloader'[e] = downloader[e]
        /\ \A g \in DataFiles \ {f} : data'[g] = data[g]
    BY <1>0, <1>2, <1>8 DEF Write, Downloading
  <2>2. \/ downloader'[d] = [at |-> "written", file |-> f, got |-> Absent] /\ data'[f] = downloader[d].got
        \/ downloader'[d] = [at |-> "failed", file |-> f, got |-> Absent]
    BY <1>0, <1>8, <2>1 DEF Write, Downloading
  <2>4. \A g \in DataFiles : Holds(d, g)'
    BY <1>0, <1>1, <2>1, <2>2 DEF DownloadInv, Holds
  <2>5. \A e \in Downloaders \ {d}, g \in DataFiles : Holds(e, g)'
    BY <1>0, <1>1, <2>1, <2>2 DEF DownloadInv, Holds
  <2>6. DownloadInv'
    BY <1>0, <1>1, <2>1, <2>2, <2>4, <2>5 DEF DownloadInv
  <2> QED
    BY <1>2, <1>3, <1>4, <1>5, <2>1, <2>6
<1>9. CASE Downloaded(d)
  <2>1. /\ f \in DataFiles /\ downloader[d].at = "written" /\ UNCHANGED data
        /\ \A e \in Downloaders \ {d} : downloader'[e] = downloader[e]
        /\ downloader'[d] = [at |-> "claim", file |-> "none", got |-> Absent]
        /\ status' = [status EXCEPT ![f] = "current"]
    BY <1>0, <1>2, <1>9 DEF Downloaded, Downloading
  <2>2. DownloadInv'
    BY <1>0, <1>1, <2>1 DEF DownloadInv, Holds
  <2>3. \A g \in DataFiles : g = f => InPlace(g, wanted[g])'
    BY <1>1, <2>1 DEF DownloadInv, Holds
  <2> QED
    BY <1>0, <1>2, <1>3, <1>4, <1>5, <2>1, <2>2, <2>3
<1>10. CASE DownloadFailed(d)
  <2>1. /\ f \in DataFiles /\ downloader[d].at = "failed" /\ UNCHANGED <<data, status>>
        /\ \A e \in Downloaders \ {d} : downloader'[e] = downloader[e]
        /\ downloader'[d] = [at |-> "claim", file |-> "none", got |-> Absent]
    BY <1>0, <1>2, <1>10 DEF DownloadFailed, Downloading
  <2>2. state' # "DOWNLOADING_DATA"
    BY <1>1, <2>1
  <2>3. DownloadInv'
    BY <1>0, <1>1, <2>1, <2>2 DEF DownloadInv, Holds
  <2> QED
    BY <1>3, <1>4, <1>5, <2>1, <2>3
<1> QED
  BY <1>6, <1>7, <1>8, <1>9, <1>10 DEF Download

(* the pruning and the new manifest, *)
LEMMA DataInvCommit ==
  ASSUME TypeOK, ControlInv, DataInv, Commit
  PROVE  DataInv'
<1> USE DEF DataInv, DataStep
<1>1. /\ thread \in {"prune", "writeManifest"} /\ thread' \in {"prune", "writeManifest", "poll"}
      /\ thread' = "poll" => state' = "DONE"
      /\ UNCHANGED <<remote, wanted, status, archive, downloader>>
  BY DEF Commit
<1>2. DownloadInv' /\ ArchiveInv'
  BY <1>1, DownloadInvIdle DEF ArchiveInv
<1>3. \A f \in DataFiles : InPlace(f, wanted[f])
  BY <1>1 DEF ComparisonInv, Committing
<1>4. CASE Prune /\ UNCHANGED <<thread, manifest>>
  <2>1. PICK g \in stale : data' = [data EXCEPT ![g] = Absent] /\ stale' = stale \ {g}
    BY <1>4 DEF Prune
  <2>2. g \in DataFiles /\ data \in [DataFiles -> Contents]
    BY DEF TypeOK, DataTypeOK
  <2>3. Outdated(g, manifest.hash[g]) /\ wanted[g] = Absent
    BY <1>1, <2>2 DEF ComparisonInv, Committing
  <2>4. ManifestInv'
    BY <1>1, <1>4, <2>1, <2>2, <2>3 DEF ManifestInv, Past, InPlace, Outdated, Over
  <2>5. ComparisonInv'
    BY <1>1, <1>4, <2>1, <2>2, <2>3 DEF ComparisonInv, Comparing, Committing, InPlace, Outdated, Over
  <2> QED
    BY <1>2, <2>4, <2>5
<1>5. CASE /\ UNCHANGED <<data, stale>> /\ manifest'.exists
           /\ \A f \in DataFiles : manifest'.hash[f] \in {Absent, wanted[f]}
  <2>1. ManifestInv'
    BY <1>1, <1>3, <1>5 DEF ManifestInv, Past, InPlace, Outdated, Over
  <2>2. ComparisonInv'
    BY <1>1, <1>5 DEF ComparisonInv, Comparing, Committing, InPlace, Outdated, Over
  <2> QED
    BY <1>2, <2>1, <2>2
<1>6. CASE UNCHANGED dataVars /\ thread' = "poll" /\ state' = "DONE"
  BY <1>1, <1>6, DataQuiet
<1>7. CASE WritePartOfManifest /\ UNCHANGED <<data, stale>>
  BY <1>5, <1>7 DEF WritePartOfManifest
<1>8. CASE WriteManifest /\ UNCHANGED <<data, stale>>
  BY <1>5, <1>8 DEF WriteManifest
<1> QED
  BY <1>1, <1>4, <1>6, <1>7, <1>8 DEF Commit, dataVars

(* and every other step, a crash among them. *)
LEMMA DataInvStep ==
  ASSUME OrderlyExtraction, NeverReverted, TypeOK, ControlInv, DataInv, [Next]_vars
  PROVE  DataInv'
<1> USE CaseOfFacts, ThreadPointsFacts, StateWhileFacts
    DEF TypeOK, ProcessTypeOK, ControlInv, Active
<1>1. CASE UNCHANGED vars \/ ReleaseEngine
  BY <1>1, DataQuiet DEF vars, moduleVars, ReleaseEngine
<1>2. CASE InstallerThread
  <2> USE DEF EngineStep
  <2>1. CASE FetchRelease \/ CompareVersions \/ TakeConsent
    BY <2>1, DataQuiet DEF FetchRelease, CompareVersions, TakeConsent
  <2>2. CASE DiscardStaged \/ DownloadBin
    BY <2>2, DataQuiet DEF DiscardStaged, DownloadBin
  <2>3. CASE ExtractBin \/ WritePending
    BY <2>3, DataQuiet DEF ExtractBin, WritePending
  <2> QED
    BY <1>2, <2>1, <2>2, <2>3, DataInvInstall, DataInvCompare, DataInvCommit DEF InstallerThread
<1>3. CASE Crash \/ Exit \/ Kill
  <2>1. EndProcess /\ thread # "extractData"
    BY <1>3 DEF OrderlyExtraction, Crash, Exit, Kill, Hung, CrashSite, Trouble
  <2> USE DEF EndProcess, NewModule, DataInv
  <2>2. ManifestInv'
    BY <2>1 DEF ManifestInv, Past, Nothing, InPlace, Outdated, Over
  <2>3. ArchiveInv'
    BY <2>1, ReleasesFacts DEF ArchiveInv, DataTypeOK
  <2>4. ComparisonInv' /\ DownloadInv'
    BY <2>1 DEF ComparisonInv, Comparing, Committing, DownloadInv, Holds, DownloadsEnded, Busy, Ended
  <2> QED
    BY <2>2, <2>3, <2>4
<1>4. CASE Launch \/ Answer \/ LastFrame \/ Joined \/ Quit \/ ApplyPending
  BY <1>4, DataQuiet DEF Launch, Answer, LastFrame, Joined, Quit, ApplyPending, MainStep, moduleVars
<1>5. CASE Cancel
  BY <1>5, DataQuiet DEF Cancel, Finished
<1>6. CASE \E d \in Downloaders : Download(d)
  BY <1>6, DataInvDownload
<1>7. CASE ReleaseData
  <2> USE DEF DataInv, ReleaseData, moduleVars
  <2>1. remote' = remote + 1 /\ remote \in Nat
    BY <1>7, ReleasesFacts DEF DataTypeOK
  <2>2. \A r \in DOMAIN Releases : r >= remote' => r >= remote
    BY <2>1, ReleasesFacts
  <2>3. \A r : r \in 1 .. remote => r \in 1 .. remote'
    BY <2>1
  <2>4. ManifestInv'
    BY <1>7, <2>2, <2>3 DEF ManifestInv, Past, InPlace, Outdated, Over
  <2>5. ArchiveInv'
    BY <1>7, <2>1, <2>2, ReleasesFacts DEF ArchiveInv, DataTypeOK, InPlace, Outdated, Over
  <2>6. ComparisonInv'
    BY <1>7, <2>2 DEF ComparisonInv, Comparing, Committing, InPlace, Outdated, Over
  <2>7. DownloadInv'
    BY <1>7, <2>2 DEF DownloadInv, Holds, DownloadsEnded, Busy, Pending, InPlace, Outdated, Over
  <2> QED
    BY <2>4, <2>5, <2>6, <2>7
<1> QED
  BY <1>1, <1>2, <1>3, <1>4, <1>5, <1>6, <1>7 DEF Next, MainThread

(* What is known of the data directory while the installer compares, downloads, prunes and
   writes, and what a crash in between leaves of it, while no file is reverted. *)
THEOREM DataInvariance ==
  ASSUME OrderlyExtraction, NeverReverted
  PROVE  Spec => []DataInv
<1>1. Init => ControlInv /\ DataInv
  BY ControlInit, DataInvInit
<1>2. TypeOK /\ ControlInv /\ DataInv /\ [Next]_vars => (ControlInv /\ DataInv)'
  BY ControlStep, DataInvStep
<1> QED
  BY <1>1, <1>2, TypeCorrectness, PTL DEF Spec

(* A file that the manifest on disk lists as the server has it is on disk as the server has
   it, for any files, any number of download threads and any releases that revert no file. *)
THEOREM CurrentFilesAreInstalled ==
  ASSUME OrderlyExtraction, NeverReverted
  PROVE  Spec => []SkipsOnlyInstalled
<1>1. TypeOK /\ DataInv => SkipsOnlyInstalled
  <2> SUFFICES ASSUME TypeOK, DataInv, thread # "extractData", NEW f \in DataFiles,
                      manifest.hash[f] # Absent, manifest.hash[f] = Offered[f]
               PROVE  data[f] = Offered[f]
    BY DEF SkipsOnlyInstalled
  <2>1. InPlace(f, manifest.hash[f])
    BY DEF DataInv, ManifestInv
  <2>2. remote \in DOMAIN Releases /\ remote \in Nat
    BY ReleasesFacts DEF TypeOK, DataTypeOK
  <2>3. ~Outdated(f, manifest.hash[f])
    BY <2>2 DEF Outdated, Over, Offered
  <2> QED
    BY <2>1, <2>3 DEF InPlace
<1> QED
  BY <1>1, TypeCorrectness, DataInvariance, PTL
=============================================================================
