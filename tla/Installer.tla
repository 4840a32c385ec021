------------------------------ MODULE Installer ------------------------------
(***************************************************************************)
(* The program from launch to exit, as its updater sees it: the installer's *)
(* thread, which steps through InstallerState, the main thread, which shows *)
(* its state, cancels it and waits for it, the threads that download game   *)
(* data, and the update that is applied on the way out                     *)
(* (src/src/common/installer.c, src/src/main/main.c).  The disk survives a  *)
(* launch, and what a crash left on it is what the next launch finds.       *)
(***************************************************************************)
EXTENDS GameData, PendingUpdate, Integers

CONSTANT MaxRelease   \* bound: engine versions that are released

ASSUME InstallerAssumption == MaxRelease \in Nat \ {0}

VARIABLES
  latest,         \* the engine version that the server offers now
  exe,            \* the version of the program that runs
  state,          \* module.status.state
  consent,        \* module.consent
  release,        \* module.release, None after a failed request
  installedData,  \* module.installedData
  thread,         \* where Installer_Thread is
  asked,          \* the questions the player has been asked in this launch
  main,           \* where the main thread is
  quitting        \* the player quits, or a signal came, while Installer_Init runs

moduleVars == <<exe, state, consent, release, installedData, thread, asked>>
mainVars == <<main, quitting>>
vars == <<troubles, latest, dataVars, engineVars, moduleVars, mainVars>>

Finished == {"DONE", "ERROR"}
Questions == {"BIN_AVAILABLE", "BIN_STAGED"}
Running == main # "down"

\* memset(&module) and the variables of the process.
NewModule ==
  /\ state' = "CHECKING_BIN" /\ consent' = 0 /\ release' = None
  /\ installedData' = FALSE /\ asked' = {} /\ relaunch' = FALSE
  /\ wanted' = Nothing /\ status' = [f \in DataFiles |-> "unlisted"] /\ stale' = {}

Init ==
  /\ troubles = 0 /\ latest = 1 /\ exe = 1
  /\ DataInit /\ PendingInit
  /\ state = "CHECKING_BIN" /\ consent = 0 /\ release = None
  /\ installedData = FALSE /\ asked = {}
  /\ thread = "ended" /\ main = "down" /\ quitting = FALSE

-------------------------------------------------------------------------------
(* Installer_Thread.  Each step up to the next lock, unlock or file.         *)

\* The cases that begin at once; those of the questions begin when there is an answer.
CaseOf ==
  [CHECKING_BIN |-> "fetchRelease", DOWNLOADING_BIN |-> "discard", STAGING_BIN |-> "extract",
   CHECKING_DATA |-> "checkData", DOWNLOADING_DATA |-> "join", COMMITTING_DATA |-> "prune",
   BIN_AVAILABLE |-> "answered", BIN_STAGED |-> "answered",
   INSTALLING_DATA |-> "ended", CANCELLED |-> "ended", DONE |-> "ended", ERROR |-> "ended"]

Poll ==
  /\ thread = "poll"
  /\ state \in Questions => consent # 0
  /\ thread' = CaseOf[state]
  /\ IF state = "DOWNLOADING_DATA" THEN StartDownloads ELSE UNCHANGED downloader
  /\ UNCHANGED <<troubles, latest, remote, data, manifest, wanted, status, stale, archive,
                 engineVars, exe, state, consent, release, installedData, asked, mainVars>>

\* What the steps of the engine update leave alone.
EngineStep == UNCHANGED <<latest, dataVars, target, displaced, apply, exe, installedData,
                          asked, mainVars>>

\* INSTALLER_CHECKING_BIN: the request ...
FetchRelease ==
  /\ thread = "fetchRelease" /\ thread' = "compareVersions"
  /\ \/ release' = latest /\ UNCHANGED troubles
     \/ release' = None /\ Trouble("fetch")
  /\ UNCHANGED <<staged, pending, relaunch, state, consent>> /\ EngineStep

\* ... and the verdict, whatever became of the state meanwhile.  A newer version is not
\* offered where the installation cannot be written, or somebody else manages it.
CompareVersions ==
  /\ thread = "compareVersions" /\ thread' = "poll"
  /\ state' \in IF release = None THEN {"ERROR"}
                ELSE IF release > exe THEN {"BIN_AVAILABLE", "CHECKING_DATA"}
                ELSE {"CHECKING_DATA"}
  /\ UNCHANGED <<troubles, staged, pending, relaunch, consent, release>> /\ EngineStep

\* INSTALLER_BIN_AVAILABLE and INSTALLER_BIN_STAGED, with an answer.
TakeConsent ==
  /\ thread = "answered" /\ thread' = "poll"
  /\ consent' = 0
  /\ state' = IF state = "CANCELLED" THEN state
              ELSE IF consent < 0 THEN "CHECKING_DATA"
              ELSE IF state = "BIN_AVAILABLE" THEN "DOWNLOADING_BIN" ELSE "DONE"
  /\ relaunch' = (relaunch \/ (state = "BIN_STAGED" /\ consent > 0))
  /\ UNCHANGED <<troubles, staged, pending, release>> /\ EngineStep

\* INSTALLER_DOWNLOADING_BIN: the former staging area goes, a new one is made ...
DiscardStaged ==
  /\ thread = "discard"
  /\ \/ DiscardEntry /\ UNCHANGED <<troubles, thread, state>>
     \/ Discarded /\ thread' = "downloadBin" /\ UNCHANGED <<troubles, staged, pending, state>>
     \/ /\ Discarded /\ Trouble("directory")
        /\ thread' = "poll" /\ state' = "CHECKING_DATA"
        /\ UNCHANGED <<staged, pending>>
  /\ UNCHANGED <<relaunch, consent, release>> /\ EngineStep

\* ... for the archive, whose download a cancellation ends.
DownloadBin ==
  /\ thread = "downloadBin" /\ thread' = "poll"
  /\ \/ state' = (IF state = "CANCELLED" THEN state ELSE "STAGING_BIN") /\ UNCHANGED troubles
     \/ /\ state # "CANCELLED" /\ Trouble("download")
        /\ state' = "CHECKING_DATA"
  /\ UNCHANGED <<staged, pending, relaunch, consent, release>> /\ EngineStep

\* INSTALLER_STAGING_BIN: the archive is extracted, beside no pending.mf ...
ExtractBin ==
  /\ thread = "extract"
  /\ \/ /\ staged' = [i \in File |-> release]
        /\ thread' = "writePending"
        /\ UNCHANGED <<troubles, state>>
     \/ /\ Trouble("extract")
        /\ thread' = "poll"
        /\ state' = IF state = "CANCELLED" THEN state ELSE "CHECKING_DATA"
        /\ UNCHANGED staged
  /\ UNCHANGED <<pending, relaunch, consent, release>> /\ EngineStep

\* ... which is renamed into place last (Installer_WritePending), if it can be.
WritePending ==
  /\ thread = "writePending" /\ thread' = "poll"
  /\ \/ pending' = release /\ UNCHANGED troubles
     \/ Trouble("pending.mf") /\ UNCHANGED pending
  /\ state' = IF state = "CANCELLED" THEN state ELSE "BIN_STAGED"
  /\ UNCHANGED <<staged, relaunch, consent, release>> /\ EngineStep

-------------------------------------------------------------------------------

\* What the steps of the data leave alone.
DataStep == UNCHANGED <<latest, remote, engineVars, exe, consent, release, asked, mainVars>>

\* INSTALLER_CHECKING_DATA: without a manifest, the archive is installed first, once.
\* Whether it can be is known before the state changes, and the state changes in any case.
CheckData ==
  /\ thread = "checkData"
  /\ IF installedData \/ manifest.exists
       THEN thread' = "fetchManifest" /\ UNCHANGED <<troubles, archive, state, installedData>>
       ELSE /\ installedData' = TRUE
            /\ \/ /\ OpenArchive
                  /\ state' = "INSTALLING_DATA" /\ thread' = "downloadArchive"
                  /\ UNCHANGED troubles
               \/ /\ Trouble("fetch")
                  /\ thread' = (IF state = "CANCELLED" THEN "poll" ELSE "fetchManifest")
                  /\ UNCHANGED <<archive, state>>
  /\ UNCHANGED <<data, manifest, wanted, status, stale, downloader>> /\ DataStep

\* Installer_InstallData goes back to checking, or was cancelled.
Installed ==
  IF state = "CANCELLED" THEN thread' = "poll" /\ UNCHANGED state
                         ELSE thread' = "fetchManifest" /\ state' = "CHECKING_DATA"

\* Installer_InstallData: the download, which a cancellation ends unless it is complete,
\* the members, and the end.
InstallData ==
  /\ \/ /\ thread = "downloadArchive" /\ thread' = "extractData"
        /\ UNCHANGED <<troubles, data, manifest, archive, state>>
     \/ /\ thread = "downloadArchive"
        /\ \/ state = "CANCELLED" /\ UNCHANGED troubles
           \/ Trouble("download")
        /\ archive' = [archive EXCEPT !.members = {}]
        /\ manifest' = NoManifest
        /\ Installed
        /\ UNCHANGED data
     \/ /\ thread = "extractData" /\ ExtractMember
        /\ UNCHANGED <<troubles, state, thread>>
     \/ /\ thread = "extractData" /\ archive.members # {}
        /\ Trouble("extract")
        /\ DiscardInstall
        /\ Installed
     \/ /\ thread = "extractData" /\ archive.members = {}
        /\ Installed
        /\ UNCHANGED <<troubles, data, manifest, archive>>
  /\ UNCHANGED <<wanted, status, stale, downloader, installedData>> /\ DataStep

\* The manifest of the release, compared with the one on disk ...
FetchManifest ==
  /\ thread = "fetchManifest"
  /\ \/ Compare /\ thread' = "decide" /\ UNCHANGED <<troubles, state>>
     \/ /\ Trouble("fetch")
        /\ thread' = "poll" /\ state' = "ERROR"
        /\ UNCHANGED <<wanted, status, stale>>
  /\ UNCHANGED <<data, manifest, archive, downloader, installedData>> /\ DataStep

\* ... decides what comes next, whatever became of the state meanwhile.
DecideData ==
  /\ thread = "decide" /\ thread' = "poll"
  /\ state' = IF Pending = {} THEN "COMMITTING_DATA" ELSE "DOWNLOADING_DATA"
  /\ UNCHANGED <<troubles, data, manifest, wanted, status, stale, archive, downloader,
                 installedData>> /\ DataStep

\* Installer_DownloadThread; a failure is everybody's, unless it came after another.
Download(d) ==
  /\ Claim(d, state) \/ Get(d) \/ Write(d) \/ Downloaded(d) \/ DownloadFailed(d)
  /\ state' = IF downloader[d].at = "failed" /\ state = "DOWNLOADING_DATA"
                THEN "ERROR" ELSE state
  /\ UNCHANGED <<manifest, wanted, stale, archive, thread, installedData>> /\ DataStep

\* Mutant: the manifest is committed whatever the threads reported.
JoinDownloadsAlways ==
  /\ thread = "join" /\ DownloadsEnded /\ thread' = "poll"
  /\ state' = "COMMITTING_DATA"
  /\ UNCHANGED <<troubles, data, manifest, wanted, status, stale, archive, downloader,
                 installedData>> /\ DataStep

\* INSTALLER_DOWNLOADING_DATA has waited for all its threads.
JoinDownloads ==
  /\ thread = "join" /\ DownloadsEnded /\ thread' = "poll"
  /\ state' = IF state = "DOWNLOADING_DATA" THEN "COMMITTING_DATA" ELSE state
  /\ UNCHANGED <<troubles, data, manifest, wanted, status, stale, archive, downloader,
                 installedData>> /\ DataStep

\* INSTALLER_COMMITTING_DATA: Installer_Commit, and done whatever became of the state, or of
\* what was written after the manifest was opened.
Commit ==
  /\ \/ thread = "prune" /\ Prune /\ UNCHANGED <<troubles, thread, manifest, state>>
     \/ /\ thread = "prune" /\ stale = {}
        /\ WritePartOfManifest /\ thread' = "writeManifest"
        /\ UNCHANGED <<troubles, data, stale, state>>
     \/ /\ thread = "prune" /\ stale = {}
        /\ Trouble("manifest") /\ thread' = "poll" /\ state' = "DONE"
        /\ UNCHANGED <<data, stale, manifest>>
     \/ /\ thread = "writeManifest"
        /\ \/ WriteManifest /\ UNCHANGED troubles
           \/ Trouble("manifest") /\ UNCHANGED manifest
        /\ thread' = "poll" /\ state' = "DONE"
        /\ UNCHANGED <<data, stale>>
  /\ UNCHANGED <<wanted, status, archive, downloader, installedData>> /\ DataStep

InstallerThread ==
  \/ Poll \/ FetchRelease \/ CompareVersions \/ TakeConsent \/ DiscardStaged \/ DownloadBin
  \/ ExtractBin \/ WritePending \/ CheckData \/ InstallData \/ FetchManifest \/ DecideData
  \/ JoinDownloads \/ Commit

-------------------------------------------------------------------------------
(* The main thread.                                                          *)

\* What the main thread leaves alone unless it applies an update.
MainStep == UNCHANGED <<troubles, latest, dataVars, engineVars, exe, release, installedData,
                        thread>>

\* The process ends: what is in memory is gone, what is on disk stays.
EndProcess ==
  /\ NewModule
  /\ thread' = "ended" /\ apply' = Idle
  /\ downloader' = [d \in Downloaders |-> Ended]
  /\ archive' = [members |-> {}, release |-> 1]
  /\ main' = "down" /\ quitting' = FALSE
  /\ UNCHANGED <<latest, remote, data, manifest, staged, target, displaced, pending, exe>>

\* Installer_Init, as long as there is an executable to start.
Launch ==
  /\ main = "down" /\ target[1] # None
  /\ main' = "init" /\ thread' = "poll" /\ exe' = target[1]
  /\ UNCHANGED <<troubles, latest, dataVars, engineVars, state, consent, release,
                 installedData, asked, quitting>>

\* Cg_UpdateInstaller asks each question once; Installer_Consent.  A dedicated server
\* (Sv_InstallerFrame) asks nobody and declines.
Answer ==
  /\ main = "init" /\ state \in Questions \ asked
  /\ asked' = asked \cup {state}
  /\ consent' \in {-1, 1}
  /\ UNCHANGED <<state, mainVars>> /\ MainStep

\* Installer_Init after the last frame ...
LastFrame ==
  /\ main = "init" /\ state \in Finished
  /\ main' = "waiting"
  /\ UNCHANGED <<state, consent, asked, quitting>> /\ MainStep

\* ... which the player or a signal may bring about: the same in Installer_Shutdown, where
\* the player closes the window while Installer_Init runs.
Cancel ==
  /\ main = "init" /\ Trouble("cancel")
  /\ state' = IF state \in Finished THEN state ELSE "CANCELLED"
  /\ main' = "waiting" /\ quitting' = TRUE
  /\ UNCHANGED <<latest, dataVars, engineVars, exe, consent, release, installedData, thread,
                 asked>>

\* SDL_WaitThread returns.
Joined ==
  /\ main = "waiting" /\ thread = "ended"
  /\ main' = IF quitting \/ relaunch THEN "shutdown" ELSE "playing"
  /\ UNCHANGED <<state, consent, asked, quitting>> /\ MainStep

Quit ==
  /\ main = "playing" /\ main' = "shutdown"
  /\ UNCHANGED <<state, consent, asked, quitting>> /\ MainStep

\* Main_Shutdown: Installer_ApplyPending, unless nothing is staged.
ApplyPending ==
  /\ \/ main = "shutdown" /\ pending = None /\ main' = "exit" /\ UNCHANGED <<troubles, engineVars>>
     \/ main = "shutdown" /\ BeginApply /\ main' = "applying"
     \/ main = "applying" /\ ApplyStep /\ main' = IF apply' = Idle THEN "exit" ELSE main
  /\ UNCHANGED <<latest, dataVars, moduleVars, quitting>>

Exit == main = "exit" /\ EndProcess /\ UNCHANGED troubles

-------------------------------------------------------------------------------
(* Around the program.                                                       *)

\* The main thread waits for a thread that waits for an answer to a question nobody asks.
Hung == main = "waiting" /\ thread = "poll" /\ state \in Questions /\ consent = 0

\* The player's last resort.
Kill == Hung /\ EndProcess /\ UNCHANGED troubles

\* Where a crash can leave more than a file or a list half done.
CrashSite ==
  IF main = "applying" THEN "crash while applying"
  ELSE IF thread = "extractData" THEN "crash while extracting"
  ELSE IF thread = "discard" THEN "crash while discarding"
  ELSE "crash"

Crash == Running /\ Trouble(CrashSite) /\ EndProcess

ReleaseEngine ==
  /\ latest < MaxRelease /\ latest' = latest + 1
  /\ UNCHANGED <<troubles, dataVars, engineVars, moduleVars, mainVars>>

ReleaseData ==
  /\ remote < Len(Releases) /\ remote' = remote + 1
  /\ UNCHANGED <<troubles, latest, data, manifest, wanted, status, stale, archive, downloader,
                 engineVars, moduleVars, mainVars>>

MainThread == Launch \/ Answer \/ LastFrame \/ Joined \/ Quit \/ ApplyPending \/ Exit \/ Kill

Next ==
  \/ InstallerThread \/ MainThread
  \/ \E d \in Downloaders : Download(d)
  \/ Cancel \/ Crash \/ ReleaseEngine \/ ReleaseData

\* Threads run, the player answers, quits in the end, kills what hangs, and plays again.
Spec ==
  /\ Init /\ [][Next]_vars
  /\ WF_vars(InstallerThread) /\ WF_vars(MainThread)
  /\ \A d \in Downloaders : WF_vars(Download(d))

-------------------------------------------------------------------------------

Versions == 0 .. MaxRelease
Contents == {Releases[r][f] : r \in DOMAIN Releases, f \in DataFiles} \cup {Absent, Torn}

ThreadPoints ==
  {CaseOf[s] : s \in DOMAIN CaseOf} \cup
  {"poll", "compareVersions", "downloadBin", "writePending", "downloadArchive", "extractData",
   "fetchManifest", "decide", "writeManifest"}

DownloaderState ==
  [at : {"claim", "ended"}, file : {"none"}, got : {Absent}] \cup
  [at : {"get", "write", "written", "failed"}, file : DataFiles, got : Contents \ {Torn}]

DataTypeOK ==
  /\ remote \in DOMAIN Releases
  /\ data \in [DataFiles -> Contents] /\ wanted \in [DataFiles -> Contents \ {Torn}]
  /\ manifest \in [exists : BOOLEAN, hash : [DataFiles -> Contents \ {Torn}]]
  /\ status \in [DataFiles -> {"unlisted", "pending", "downloading", "current"}]
  /\ stale \subseteq DataFiles
  /\ archive \in [members : SUBSET (DataFiles \cup {"manifest.mf"}), release : DOMAIN Releases]
  /\ downloader \in [Downloaders -> DownloaderState]

EngineTypeOK ==
  /\ staged \in [File -> Versions] /\ target \in [File -> Versions] /\ displaced \in [File -> Versions]
  /\ pending \in Versions /\ relaunch \in BOOLEAN
  /\ apply \in [phase : {"idle", "displace", "place", "commit", "restage", "restore"}, file : File]

ProcessTypeOK ==
  /\ state \in DOMAIN CaseOf /\ consent \in {-1, 0, 1} /\ release \in Versions
  /\ asked \subseteq Questions /\ installedData \in BOOLEAN
  /\ thread \in ThreadPoints /\ quitting \in BOOLEAN
  /\ main \in {"down", "init", "waiting", "playing", "shutdown", "applying", "exit"}

TypeOK ==
  /\ troubles \in 0 .. MaxTroubles /\ latest \in Versions /\ exe \in Versions
  /\ DataTypeOK /\ EngineTypeOK /\ ProcessTypeOK

\* What the comparison of manifests takes as current is current (Installer_CompareEntry): a
\* file that the manifest on disk lists as the server has it is on disk as the server has
\* it, whatever was cancelled, failed, crashed or was released in between, while no release
\* takes a file back to a content it had.
SkipsOnlyInstalled ==
  thread # "extractData" =>
    \A f \in DataFiles :
      manifest.hash[f] # Absent /\ manifest.hash[f] = Offered[f] => data[f] = Offered[f]

\* "The previous version is intact and it will be retried on the next exit"
\* (Installer_ApplyPending): whenever no update is being applied, the files of the program
\* are of one version, with those that this version added; and what pending.mf announces
\* is staged, all of it, unless it is being discarded.
AllOrNothing ==
  main # "applying" =>
    /\ \A i \in File :
         IF i \in Added THEN target[1] > 1 => target[i] >= target[1]
                        ELSE target[i] = target[1]
    /\ thread # "discard" /\ pending # None => \A i \in File : staged[i] = pending

\* "A restart never lands the player back in the version they just left"
\* (Installer_ShouldRelaunch).
RestartUpdates == main = "exit" /\ relaunch => target[1] > exe

\* Once nothing changes any more, the data on disk is what the server offers, whatever
\* earlier launches left behind.  The code goes by names and a list of hashes: it holds while
\* no release takes a file back to a content it had.
EventuallySynced ==
  <>[]\A f \in DataFiles : Offered[f] # Absent => data[f] = Offered[f]

\* "Cancels any in-progress data update and waits for it to finish" (Installer_Shutdown).
CancelStops == ~Hung
=============================================================================
