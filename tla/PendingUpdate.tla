---------------------------- MODULE PendingUpdate ----------------------------
(***************************************************************************)
(* The engine's own files and the update staged beside them                *)
(* (Installer_ApplyPending, src/src/common/installer.c): files are moved    *)
(* into place one rename at a time, with the former file parked under       *)
(* ".old" until all are in place.  Linux: nothing is left for a later sweep. *)
(***************************************************************************)
EXTENDS Troubles

CONSTANTS
  Files,  \* how many files an update has; file 1 is the executable
  Added   \* those that version 1 does not have

ASSUME FilesAssumption == Files \in Nat \ {0} /\ Added \subseteq 2 .. Files

VARIABLES
  staged,     \* version of each file in .quetoo-pending
  target,     \* ... where the program runs from
  displaced,  \* ... and parked under ".old"
  pending,    \* the version that pending.mf records
  apply,      \* how far Installer_ApplyPending is, and with which file
  relaunch    \* module.relaunch

engineVars == <<staged, target, displaced, pending, apply, relaunch>>

File == 1 .. Files
None == 0
NoFiles == [i \in File |-> None]
Idle == [phase |-> "idle", file |-> 1]

PendingInit ==
  /\ target = [i \in File |-> IF i \in Added THEN None ELSE 1]
  /\ staged = NoFiles /\ displaced = NoFiles
  /\ pending = None
  /\ apply = Idle
  /\ relaunch = FALSE

-------------------------------------------------------------------------------

At(phase, i) == apply = [phase |-> phase, file |-> i]
Go(phase, i) == apply' = [phase |-> phase, file |-> i]

\* Mutant: the loop over pending.mf looks for one line too many.
GoPast(i, phase, last) == IF i > Files THEN last ELSE Go(phase, i + 1)

\* Installer_EachPending goes on to the next line of pending.mf.
GoAfter(i, phase, last) == IF i = Files THEN last ELSE Go(phase, i + 1)

\* One failed file: everything is rolled back, from the first file on.
GiveUp == Go("restage", 1)

BeginApply == pending # None /\ apply = Idle /\ Go("displace", 1) /\ UNCHANGED
  <<staged, target, displaced, pending, relaunch, troubles>>

\* Installer_Install, first half: an older ".old" goes, and the file takes its place.
Displace(i) ==
  /\ At("displace", i)
  /\ \/ /\ target[i] = None
        /\ Go("place", i)
        /\ UNCHANGED <<target, displaced, troubles>>
     \/ /\ target[i] # None
        /\ displaced' = [displaced EXCEPT ![i] = target[i]]
        /\ target' = [target EXCEPT ![i] = None]
        /\ Go("place", i)
        /\ UNCHANGED troubles
     \/ /\ target[i] # None /\ Trouble("rename")
        /\ displaced' = [displaced EXCEPT ![i] = None]
        /\ GiveUp
        /\ UNCHANGED target
  /\ UNCHANGED <<staged, pending, relaunch>>

\* Installer_Install, second half; a staged file that is gone cannot be renamed.
Place(i) ==
  /\ At("place", i)
  /\ \/ /\ staged[i] # None
        /\ target' = [target EXCEPT ![i] = staged[i]]
        /\ staged' = [staged EXCEPT ![i] = None]
        /\ GoAfter(i, "displace", Go("commit", 1))
        /\ UNCHANGED troubles
     \/ staged[i] = None /\ GiveUp /\ UNCHANGED <<target, staged, troubles>>
     \/ staged[i] # None /\ Trouble("rename") /\ GiveUp /\ UNCHANGED <<target, staged>>
  /\ UNCHANGED <<displaced, pending, relaunch>>

\* Installer_Commit_ of each file, then Installer_RemoveTree of the staging area.
CommitFile(i) ==
  /\ At("commit", i)
  /\ displaced' = [displaced EXCEPT ![i] = None]
  /\ GoAfter(i, "commit", apply' = Idle)
  /\ IF i = Files THEN pending' = None /\ staged' = NoFiles
                  ELSE UNCHANGED <<pending, staged>>
  /\ UNCHANGED <<target, relaunch, troubles>>

\* Mutant: the relaunch is kept although the update was rolled back.
AfterRollbackRelaunching(i) == GoAfter(i, "restage", apply' = Idle) /\ UNCHANGED relaunch

\* The end of a rollback: module.relaunch is cleared, pending.mf is kept for a retry.
AfterRollback(i) ==
  /\ GoAfter(i, "restage", apply' = Idle)
  /\ relaunch' = (relaunch /\ i # Files)

\* Mutant: the new file is overwritten by the former one, and not staged again.
RestageNot(i) ==
  /\ At("restage", i)
  /\ IF displaced[i] = None
       THEN AfterRollback(i)
       ELSE Go("restore", i) /\ UNCHANGED relaunch
  /\ UNCHANGED <<target, staged, displaced, pending, troubles>>

\* Installer_Rollback, first half: the new file goes back to the staging area.
Restage(i) ==
  /\ At("restage", i)
  /\ IF displaced[i] = None
       THEN AfterRollback(i) /\ UNCHANGED <<target, staged, troubles>>
       ELSE /\ Go("restore", i)
            /\ \/ /\ staged[i] = None /\ target[i] # None
                  /\ staged' = [staged EXCEPT ![i] = target[i]]
                  /\ target' = [target EXCEPT ![i] = None]
                  /\ UNCHANGED troubles
               \/ /\ staged[i] # None \/ target[i] = None
                  /\ UNCHANGED <<target, staged, troubles>>
               \/ /\ staged[i] = None /\ target[i] # None /\ Trouble("rollback")
                  /\ UNCHANGED <<target, staged>>
            /\ UNCHANGED relaunch
  /\ UNCHANGED <<displaced, pending>>

\* ... and the former file returns.
Restore(i) ==
  /\ At("restore", i)
  /\ \/ /\ target' = [target EXCEPT ![i] = displaced[i]]
        /\ displaced' = [displaced EXCEPT ![i] = None]
        /\ UNCHANGED troubles
     \/ Trouble("rollback") /\ UNCHANGED <<target, displaced>>
  /\ AfterRollback(i)
  /\ UNCHANGED <<staged, pending>>

ApplyStep == \E i \in File :
  Displace(i) \/ Place(i) \/ CommitFile(i) \/ Restage(i) \/ Restore(i)

-------------------------------------------------------------------------------

\* Installer_RemoveTree(pending), entry by entry, in the order of the directory.
DiscardEntry ==
  \/ pending # None /\ pending' = None /\ UNCHANGED staged
  \/ \E i \in File :
       staged[i] # None /\ staged' = [staged EXCEPT ![i] = None] /\ UNCHANGED pending

Discarded == pending = None /\ staged = NoFiles
===============================================================================
