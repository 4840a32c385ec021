------------------------------ MODULE GameData ------------------------------
(***************************************************************************)
(* The game's data files, the manifest that says what they are, and the     *)
(* release they follow (src/src/common/installer.c, manifest.c).  A file's  *)
(* content and its hash are the number of the version it has.               *)
(***************************************************************************)
EXTENDS Troubles, Sequences

CONSTANTS
  DataFiles,    \* names of data files
  Releases,     \* the releases of the data, in order: the version of each file, or Absent
  Downloaders   \* the threads of one INSTALLER_DOWNLOADING_DATA

Absent == 0
Torn == 99  \* a file that was opened for writing and not written

\* Torn is no release's content, and the manifest does not list itself.
ASSUME ReleasesType ==
  /\ Releases \in Seq([DataFiles -> Nat \ {Torn}]) /\ Releases # <<>>
  /\ "manifest.mf" \notin DataFiles

\* There are eight of them.
ASSUME DownloadersAssumption == Downloaders # {}

VARIABLES
  remote,      \* the release that the server offers now
  data,        \* content of each file on disk
  manifest,    \* manifest.mf on disk: whether it exists, and the hash it lists per file
  wanted,      \* module.remoteManifest: hash per file
  status,      \* ... and the status of its entries
  stale,       \* the entries of module.localManifest that are ENTRY_STALE
  archive,     \* the members of quetoo-data.zip that are not extracted yet, and its release
  downloader   \* where each download thread is, with which file and what it received

dataVars == <<remote, data, manifest, wanted, status, stale, archive, downloader>>

Nothing == [f \in DataFiles |-> Absent]
NoManifest == [exists |-> FALSE, hash |-> Nothing]
Offered == Releases[remote]
Ended == [at |-> "ended", file |-> "none", got |-> Absent]

\* A new installation, or one that is in step with the first release.
DataInit ==
  /\ remote = 1
  /\ \/ data = Nothing /\ manifest = NoManifest
     \/ data = Releases[1] /\ manifest = [exists |-> TRUE, hash |-> Releases[1]]
  /\ wanted = Nothing /\ status = [f \in DataFiles |-> "unlisted"] /\ stale = {}
  /\ archive = [members |-> {}, release |-> 1]
  /\ downloader = [d \in Downloaders |-> Ended]

-------------------------------------------------------------------------------

\* The members of the archive; its manifest is one of them.
Members(r) == {f \in DataFiles : Releases[r][f] # Absent} \cup {"manifest.mf"}

\* Installer_FetchRelease of the data archive, which may be behind the files.
OpenArchive == \E r \in 1 .. remote :
  archive' = [members |-> Members(r), release |-> r]

\* Archive_ExtractZip, one member.
ExtractMember == \E m \in archive.members :
  /\ archive' = [archive EXCEPT !.members = @ \ {m}]
  /\ IF m = "manifest.mf"
       THEN /\ manifest' = [exists |-> TRUE, hash |-> Releases[archive.release]]
            /\ UNCHANGED data
       ELSE /\ data' = [data EXCEPT ![m] = Releases[archive.release][m]]
            /\ UNCHANGED manifest

\* The end of an installation that failed, perhaps within a member: its manifest goes.
DiscardInstall ==
  /\ archive' = [archive EXCEPT !.members = {}]
  /\ manifest' = NoManifest
  /\ \/ UNCHANGED data
     \/ \E m \in archive.members \cap DataFiles : data' = [data EXCEPT ![m] = Torn]

\* Mutant: a file is current if the manifest on disk lists it, whatever its hash.
CompareNames ==
  /\ wanted' = Offered
  /\ status' = [f \in DataFiles |->
       IF Offered[f] = Absent THEN "unlisted"
       ELSE IF manifest.hash[f] # Absent THEN "current" ELSE "pending"]
  /\ stale' = {f \in DataFiles : manifest.hash[f] # Absent /\ Offered[f] = Absent}

\* Manifest_Parse of what the server sent, Installer_ReadManifest and Installer_CompareEntry.
Compare ==
  /\ wanted' = Offered
  /\ status' = [f \in DataFiles |->
       IF Offered[f] = Absent THEN "unlisted"
       ELSE IF Offered[f] = manifest.hash[f] THEN "current" ELSE "pending"]
  /\ stale' = {f \in DataFiles : manifest.hash[f] # Absent /\ Offered[f] = Absent}

Pending == {f \in DataFiles : status[f] = "pending"}

-------------------------------------------------------------------------------

Downloading(d, at, f, got) ==
  downloader' = [downloader EXCEPT ![d] = [at |-> at, file |-> f, got |-> got]]

\* SDL_CreateThread for every download thread.
StartDownloads == downloader' = [d \in Downloaders |-> [Ended EXCEPT !.at = "claim"]]

DownloadsEnded == \A d \in Downloaders : downloader[d].at = "ended"

\* Installer_FindPending under the mutex; the thread ends when there is nothing to claim
\* or the state is no longer INSTALLER_DOWNLOADING_DATA.
Claim(d, state) ==
  /\ downloader[d].at = "claim"
  /\ IF state # "DOWNLOADING_DATA" \/ Pending = {}
       THEN downloader' = [downloader EXCEPT ![d] = Ended] /\ UNCHANGED status
       ELSE \E f \in Pending :
              /\ status' = [status EXCEPT ![f] = "downloading"]
              /\ Downloading(d, "get", f, Absent)
  /\ UNCHANGED <<data, troubles>>

\* Installer_DownloadFile: the server sends the file as it is now, if it still has it; the
\* file is opened for writing only then.
Get(d) ==
  LET f == downloader[d].file IN
  /\ downloader[d].at = "get"
  /\ \/ /\ Offered[f] # Absent
        /\ data' = [data EXCEPT ![f] = Torn]
        /\ Downloading(d, "write", f, Offered[f])
        /\ UNCHANGED troubles
     \/ /\ Offered[f] = Absent
        /\ Downloading(d, "failed", f, Absent)
        /\ UNCHANGED <<data, troubles>>
     \/ /\ Trouble("get")
        /\ Downloading(d, "failed", f, Absent)
        /\ UNCHANGED data
  /\ UNCHANGED status

Write(d) ==
  LET f == downloader[d].file IN
  /\ downloader[d].at = "write"
  /\ \/ /\ data' = [data EXCEPT ![f] = downloader[d].got]
        /\ Downloading(d, "written", f, Absent)
        /\ UNCHANGED troubles
     \/ /\ Trouble("write")
        /\ Downloading(d, "failed", f, Absent)
        /\ UNCHANGED data
  /\ UNCHANGED status

\* Under the mutex again: the entry is current.
Downloaded(d) ==
  /\ downloader[d].at = "written"
  /\ status' = [status EXCEPT ![downloader[d].file] = "current"]
  /\ Downloading(d, "claim", "none", Absent)
  /\ UNCHANGED <<data, troubles>>

\* ... or the download failed, which Installer_DownloadThread reports in the state.
DownloadFailed(d) ==
  /\ downloader[d].at = "failed"
  /\ Downloading(d, "claim", "none", Absent)
  /\ UNCHANGED <<data, status, troubles>>

-------------------------------------------------------------------------------

\* Installer_PruneStaleEntry.
Prune == \E f \in stale :
  data' = [data EXCEPT ![f] = Absent] /\ stale' = stale \ {f}

\* Installer_WriteManifest empties the file and fills it line by line: some lines of it ...
WritePartOfManifest == \E fs \in SUBSET DataFiles :
  manifest' = [exists |-> TRUE, hash |-> [f \in DataFiles |->
                                            IF f \in fs THEN wanted[f] ELSE Absent]]

\* ... and all.
WriteManifest == manifest' = [exists |-> TRUE, hash |-> wanted]
=============================================================================
