---------------------------- MODULE SupportFiles ----------------------------
(***************************************************************************)
(* The files behind the support features: the settings and the audit       *)
(* (codex/support_control.rs). A save writes a private temporary file and  *)
(* publishes it: it keeps a hard link to the present file, exchanges the   *)
(* two names in one step, and takes the spare names away; if anything      *)
(* fails on the way, the link is renamed back.                             *)
(*                                                                         *)
(* An inode stands for its content and is named by the save that wrote it. *)
(* A call of the file system may fail; the application may end anywhere,   *)
(* and the power with it: then the directory is as it was at the last sync *)
(* or at any point since, and a file that was not synced is torn. Saves    *)
(* hold a lock, so one runs at a time. Files put there by others, which    *)
(* the identity checks are for, are left out.                              *)
(***************************************************************************)
EXTENDS Naturals

CONSTANTS MaxSave,         \* bound on the saves
          MaxSlip,         \* bound on failed calls
          MaxPowerLoss     \* bound on restarts

ASSUME SupportFilesAssumption == MaxSave \in Nat /\ MaxSlip \in Nat /\ MaxPowerLoss \in Nat

NoFile == 0
Names == {"main", "temp", "backup"}

VARIABLES
  pins,        \* whether the store holds on to the identity of its file: the audit does
  directory,   \* the inode under each name
  mayBe,       \* the directories that a loss of power may leave
  whole,       \* the inodes that are complete on disk
  support,     \* SupportAuditStore or SupportSettingsStore: whether it is there, entry_identity
  saving,      \* where a save is, and what it expects the file to be
  saved,       \* history: the last save that was answered with success
  slips, losses

filesVars == <<pins, directory, mayBe, whole, support, saving, saved, slips, losses>>

SaveRests == [at |-> "rest", inode |-> NoFile, expected |-> NoFile, slips |-> 0, answer |-> "none"]
NoDirectory == [n \in Names |-> NoFile]

FilesInit ==
  /\ pins \in BOOLEAN
  /\ directory = NoDirectory /\ mayBe = {NoDirectory} /\ whole = {}
  /\ support = [store |-> "closed", known |-> NoFile]
  /\ saving = SaveRests /\ saved = NoFile
  /\ slips = 0 /\ losses = 0

Slips == slips < MaxSlip /\ slips' = slips + 1
Becomes(d) == directory' = d /\ mayBe' = mayBe \union {d}
Stays == UNCHANGED <<directory, mayBe>>

\* Seeded bug: the directory is not synced.
BugFlushed == Stays

Flushed == mayBe' = {directory} /\ UNCHANGED directory
Unlinked(name) == [directory EXCEPT ![name] = NoFile]

GoesTo(at) == saving' = [saving EXCEPT !.at = at]
FileFails(at, answer) ==
  /\ Slips
  /\ saving' = [saving EXCEPT !.at = at, !.answer = answer, !.slips = @ + 1]
Inside == UNCHANGED <<pins, whole, support, saved, losses>>

-----------------------------------------------------------------------------
(* open, and save up to the publication.                                   *)

\* A save names the next inode.
NewInode(expected) == [SaveRests EXCEPT !.at = "temp", !.inode = saving.inode + 1, !.expected = expected]

\* A store opens on the file that is there; without one it saves the defaults first.
OpenStore ==
  /\ support.store = "closed"
  /\ support' = [store |-> "open", known |-> directory["main"]]
  /\ IF directory["main"] # NoFile THEN UNCHANGED saving
     ELSE saving.inode < MaxSave /\ saving' = NewInode(NoFile)
  /\ UNCHANGED <<pins, directory, mayBe, whole, saved, slips, losses>>

\* The settings look their file up again; the audit holds on to the identity it knows.
Save ==
  /\ support.store = "open" /\ saving.at = "rest" /\ saving.inode < MaxSave
  /\ LET expected == IF pins THEN support.known ELSE directory["main"] IN
     saving' = IF expected = directory["main"] THEN NewInode(expected)
               ELSE [SaveRests EXCEPT !.inode = saving.inode, !.answer = "unsafe"]
  /\ UNCHANGED <<pins, directory, mayBe, whole, support, saved, slips, losses>>

\* Seeded bug: the temporary file is not synced.
BugWriteTemporary ==
  /\ saving.at = "temp"
  /\ \/ Becomes([directory EXCEPT !["temp"] = saving.inode])
          /\ GoesTo(IF saving.expected = NoFile THEN "place" ELSE "link") /\ UNCHANGED slips
     \/ Stays /\ FileFails("clean", "failed")
  /\ Inside

\* The temporary file is made, written and synced; a failure leaves it to the end.
WriteTemporary ==
  /\ saving.at = "temp"
  /\ \/ /\ Becomes([directory EXCEPT !["temp"] = saving.inode])
        /\ whole' = whole \union {saving.inode}
        /\ GoesTo(IF saving.expected = NoFile THEN "place" ELSE "link") /\ UNCHANGED slips
     \/ Stays /\ FileFails("clean", "failed") /\ UNCHANGED whole
     \/ /\ Becomes([directory EXCEPT !["temp"] = saving.inode])
        /\ FileFails("clean", "failed") /\ UNCHANGED whole
  /\ UNCHANGED <<pins, support, saved, losses>>

-----------------------------------------------------------------------------
(* publish_private_entry_with_hook.                                        *)

\* There is no file yet: the name is given only if it is still free.
Place ==
  /\ saving.at = "place"
  /\ \/ Becomes([directory EXCEPT !["main"] = saving.inode, !["temp"] = NoFile])
          /\ GoesTo("sync") /\ UNCHANGED slips
     \/ Stays /\ FileFails("clean", "unsafe")
  /\ Inside

LinkBackup ==
  /\ saving.at = "link"
  /\ \/ Becomes([directory EXCEPT !["backup"] = directory["main"]])
          /\ GoesTo("before") /\ UNCHANGED slips
     \/ Stays /\ FileFails("clean", "unsafe")
  /\ Inside

\* The link is made durable before the names are exchanged.
SyncBackup ==
  /\ saving.at = "before"
  /\ \/ Flushed /\ GoesTo("exchange") /\ UNCHANGED slips
     \/ Becomes(Unlinked("backup")) /\ FileFails("clean", "sync")
  /\ Inside

Exchange ==
  /\ saving.at = "exchange"
  /\ \/ /\ Becomes([directory EXCEPT !["main"] = directory["temp"], !["temp"] = directory["main"]])
        /\ GoesTo("unlinkTemp") /\ UNCHANGED slips
     \/ Stays /\ FileFails("restore", "unsafe")
  /\ Inside

UnlinkTemporary ==
  /\ saving.at = "unlinkTemp"
  /\ \/ Becomes(Unlinked("temp")) /\ GoesTo("unlinkBackup") /\ UNCHANGED slips
     \/ Stays /\ FileFails("restore", "unsafe")
  /\ Inside

UnlinkBackup ==
  /\ saving.at = "unlinkBackup"
  /\ \/ Becomes(Unlinked("backup")) /\ GoesTo("sync") /\ UNCHANGED slips
     \/ Stays /\ FileFails("restore", "unsafe")
  /\ Inside

\* Seeded bug: the link is taken away instead of being renamed back.
BugRenamedBack == Unlinked("backup")

\* rename of two names of one inode does nothing: the link stays behind.
RenamedBack ==
  IF directory["backup"] = directory["main"] THEN directory
  ELSE [directory EXCEPT !["main"] = directory["backup"], !["backup"] = NoFile]

\* restore_canonical_from_backup; what it answers is not looked at.
RestoreMain ==
  /\ saving.at = "restore"
  /\ \/ Becomes(RenamedBack) /\ GoesTo("settle") /\ UNCHANGED slips
     \/ Stays /\ FileFails("clean", "unsafe")
  /\ Inside

SyncRestored ==
  /\ saving.at = "settle"
  /\ \/ Flushed /\ GoesTo("clean") /\ UNCHANGED slips
     \/ Stays /\ FileFails("clean", "unsafe")
  /\ Inside

\* The last sync. The audit holds on to the new inode only when it succeeds.
SyncPublished ==
  /\ saving.at = "sync"
  /\ \/ /\ Flushed /\ UNCHANGED slips
        /\ saving' = [saving EXCEPT !.at = "rest", !.answer = "ok"]
        /\ support' = [support EXCEPT !.known = saving.inode]
        /\ saved' = saving.inode
     \/ Stays /\ FileFails("clean", "sync") /\ UNCHANGED <<support, saved>>
  /\ UNCHANGED <<pins, whole, losses>>

\* A save that fails takes its temporary name away, if it can. Unlinked a file the store
\* that was to open is not there, and the features stay off.
CleanUp ==
  /\ saving.at = "clean"
  /\ saving' = [saving EXCEPT !.at = "rest"]
  /\ \/ Becomes(Unlinked("temp")) /\ UNCHANGED slips
     \/ directory["temp"] # NoFile /\ Stays /\ Slips
  /\ support' = IF saving.expected = NoFile THEN [support EXCEPT !.store = "none"] ELSE support
  /\ UNCHANGED <<pins, whole, saved, losses>>

-----------------------------------------------------------------------------

\* The power goes. Names whose inode never reached the disk are torn files.
LosePower ==
  /\ losses < MaxPowerLoss /\ losses' = losses + 1
  /\ \E d \in mayBe : directory' = d /\ mayBe' = {d}
  /\ support' = [store |-> "closed", known |-> NoFile]
  /\ saving' = [SaveRests EXCEPT !.inode = saving.inode]
  /\ UNCHANGED <<pins, whole, saved, slips>>

FilesNext ==
  \/ OpenStore \/ Save \/ WriteTemporary
  \/ Place \/ LinkBackup \/ SyncBackup \/ Exchange \/ UnlinkTemporary \/ UnlinkBackup
  \/ RestoreMain \/ SyncRestored \/ SyncPublished \/ CleanUp
  \/ LosePower

FilesSpec == FilesInit /\ [][FilesNext]_filesVars

-----------------------------------------------------------------------------
(* Properties.                                                             *)

\* Whatever is lost, the file is a whole one: what a loss of power may leave under the
\* name is complete, and a file that was once saved is never missing.
FileIsWhole ==
  \A d \in mayBe \union {directory} :
    /\ d["main"] # NoFile => d["main"] \in whole
    /\ saved # NoFile => d["main"] # NoFile

\* What was answered with success is not undone by a later save that fails, nor by a
\* loss of power: the file is that save's or a later one's.
SavedIsDurable == \A d \in mayBe \union {directory} : d["main"] >= saved

\* A save that is refused as unsafe has changed nothing, unless a second call failed
\* while it was undone: the file is the one it began with, and a loss of power does not
\* bring up what was refused.
UnsafeIsUnchanged ==
  saving.at = "rest" /\ saving.answer = "unsafe" /\ saving.slips = 1 =>
    /\ directory["main"] = saving.expected
    /\ \A d \in mayBe : d["main"] # saving.inode

FilesAreSafe == FileIsWhole /\ SavedIsDurable /\ UnsafeIsUnchanged

=============================================================================
