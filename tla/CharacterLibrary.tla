--------------------------- MODULE CharacterLibrary ---------------------------
(***************************************************************************)
(* The library of character packs (character/service.rs, storage.rs): a    *)
(* pack is copied into the quarantine, previewed, attested by the renderer *)
(* and then confirmed, which replaces the pack that is there. Replacing    *)
(* and deleting are sequences of renames between the library and the       *)
(* quarantine around one atomic write of the state file.                   *)
(*                                                                         *)
(* Operations hold one lock from end to end, so at most one is under way.  *)
(* Those on the library begin by reading it, which moves a pack that       *)
(* cannot be read into the directory of broken ones, and end by reading it *)
(* again, for the snapshot they answer. A read, a rename, a sync or a      *)
(* write may fail, and the process may end between any two of them; it     *)
(* loses the previews, and the next start empties the quarantine.          *)
(*                                                                         *)
(* External: the files, which stay as they were written.                   *)
(***************************************************************************)
EXTENDS Naturals, Sequences, FiniteSets

CONSTANTS Packs,            \* packs by their id, each imported once
          MaxFault,         \* bound on failing calls of the file system
          MaxRestart        \* bound on crashes

ASSUME LibraryAssumption == MaxFault \in Nat /\ MaxRestart \in Nat

Builtin == "builtin"

VARIABLES
  library, quarantine, broken,  \* the directories with a pack in them
  chosen, mapped,           \* state.json: selected_pack_id, semantic_mappings
  previews,                 \* pending: the sessions and whether they are attested
  change,                   \* the operation under way: an import, a deletion, or a snapshot
  imported,                 \* history: ids that were given to a pack
  faults, restarts

stateFile == <<chosen, mapped>>
disk == <<library, quarantine, broken>>
counts == <<imported, restarts>>
libraryVars == <<disk, stateFile, previews, change, counts, faults>>

NoChange == [at |-> "rest", answer |-> "none", faults |-> 0]

LibraryInit ==
  /\ library = {} /\ quarantine = {} /\ broken = {} /\ chosen = Builtin /\ mapped = {}
  /\ previews = [p \in Packs |-> "none"] /\ change = NoChange
  /\ imported = {} /\ faults = 0 /\ restarts = 0

Resting == change.at = "rest"
Faulty == faults < MaxFault /\ faults' = faults + 1
\* The change goes on at a step, without or with a fault.
Goes(step) == change' = [change EXCEPT !.at = step] /\ UNCHANGED faults
Fails(step) == change' = [change EXCEPT !.at = step, !.faults = @ + 1] /\ Faulty
Answers(answer) == change' = [NoChange EXCEPT !.answer = answer]
Costs(k) == faults + k <= MaxFault /\ faults' = faults + k

-----------------------------------------------------------------------------
(* Reading the library.                                                    *)

\* load_custom_packs: what cannot be read or verified is moved to broken/ and not found.
\* One fault may concern several packs; the move may fail as well, and they stay.
Loads(found, k) ==
  /\ found \subseteq library
  /\ \E moved \in SUBSET (library \ found) :
       /\ k = IF found = library THEN 0 ELSE IF moved = library \ found THEN 1 ELSE 2
       /\ library' = library \ moved /\ broken' = broken \union moved
  /\ UNCHANGED quarantine

\* An operation has read the library and does its work, with what it has found.
Begins(kind, p, step, todo, found) ==
  change' = [at |-> step, kind |-> kind, pack |-> p, todo |-> todo, archived |-> <<>>,
             from |-> "archive", before |-> [library |-> found, chosen |-> chosen],
             faults |-> 0, answer |-> "none"]

Shows == Begins("show", Builtin, "snapshot", {}, {})

GetLibrary ==
  /\ Resting /\ Shows
  /\ UNCHANGED <<disk, stateFile, previews, counts, faults>>

\* An operation that has read the library and does not accept what it was asked.
Refuse ==
  /\ Resting /\ \E found \in SUBSET library, k \in 1..2 : Loads(found, k) /\ Costs(k)
  /\ Answers("error")
  /\ UNCHANGED <<stateFile, previews, counts>>

\* snapshot, at the end of an operation: a selection that is not found gives way to the
\* pack that always is, and its save may fail, written or not.
Snapshot ==
  /\ change.at = "snapshot"
  /\ \/ /\ Faulty /\ UNCHANGED <<disk, chosen>>
        /\ change' = [NoChange EXCEPT !.answer = "error", !.faults = change.faults + 1]
     \/ \E found \in SUBSET library, k \in 0..2 :
          /\ Loads(found, k)
          /\ \/ /\ chosen' = IF chosen \in found THEN chosen ELSE Builtin
                /\ Costs(k)
                /\ change' = [NoChange EXCEPT !.answer = "done", !.faults = change.faults + k]
             \/ /\ chosen \notin found \union {Builtin} /\ chosen' \in {chosen, Builtin}
                /\ Costs(k + 1)
                /\ change' = [NoChange EXCEPT !.answer = "error",
                                              !.faults = change.faults + k + 1]
  /\ UNCHANGED <<mapped, previews, counts>>

-----------------------------------------------------------------------------
(* Previews: pick_import, attest_preview, cancel_import, cleanup_expired.  *)

\* Copying into the quarantine is undone when it fails.
PickImport(p) ==
  /\ Resting /\ p \notin imported
  /\ imported' = imported \union {p}
  /\ quarantine' = quarantine \union {p} /\ previews' = [previews EXCEPT ![p] = "picked"]
  /\ UNCHANGED <<library, broken, stateFile, change, restarts, faults>>

AttestPreview(p) ==
  /\ Resting /\ previews[p] = "picked" /\ previews' = [previews EXCEPT ![p] = "attested"]
  /\ UNCHANGED <<disk, stateFile, change, counts, faults>>

CancelImport(p) ==
  /\ Resting /\ previews[p] # "none"
  /\ \/ previews' = [previews EXCEPT ![p] = "none"] /\ quarantine' = quarantine \ {p}
        /\ UNCHANGED faults
     \/ Faulty /\ UNCHANGED <<previews, quarantine>>
  /\ UNCHANGED <<library, broken, stateFile, change, counts>>

\* At the next import or confirmation; it does not mind if the directory stays.
Expire(p) ==
  /\ Resting /\ previews[p] # "none" /\ previews' = [previews EXCEPT ![p] = "none"]
  /\ \/ quarantine' = quarantine \ {p} /\ UNCHANGED faults
     \/ Faulty /\ UNCHANGED quarantine
  /\ UNCHANGED <<library, broken, stateFile, change, counts>>

-----------------------------------------------------------------------------
(* select_pack and save_semantic_mapping.                                  *)

\* The state is saved; when that is reported as failed it may be there all the same.
StateSaved(k) ==
  \/ Costs(k) /\ Shows
  \/ Costs(k + 1) /\ Answers("error")

SelectPack(p) ==
  /\ Resting /\ chosen' = p
  /\ \E found \in SUBSET library, k \in 0..2 :
       p \in found \union {Builtin} /\ Loads(found, k) /\ StateSaved(k)
  /\ UNCHANGED <<mapped, previews, counts>>

SaveMapping ==
  /\ Resting /\ mapped' = mapped \union {chosen}
  /\ \E found \in SUBSET library, k \in 0..2 :
       chosen \in found /\ Loads(found, k) /\ StateSaved(k)
  /\ UNCHANGED <<chosen, previews, counts>>

-----------------------------------------------------------------------------
(* confirm_import and delete_pack.                                         *)

\* Seeded bug: what is there is taken away before the new pack is published.
BugConfirmImport(p) ==
  /\ Resting /\ previews[p] = "attested"
  /\ library' = {} /\ quarantine' = quarantine \union library /\ UNCHANGED <<broken, faults>>
  /\ Begins("import", p, "publish", {}, library)
  /\ UNCHANGED <<stateFile, previews, counts>>

\* All the packs that are found are to be replaced.
ConfirmImport(p) ==
  /\ Resting /\ previews[p] = "attested"
  /\ \E found \in SUBSET library, k \in 0..2 :
       Loads(found, k) /\ Costs(k) /\ Begins("import", p, "publish", found, found)
  /\ UNCHANGED <<stateFile, previews, counts>>

DeletePack(p) ==
  /\ Resting
  /\ \E found \in SUBSET library, k \in 0..2 :
       p \in found /\ Loads(found, k) /\ Costs(k) /\ Begins("delete", p, "archive", {p}, found)
  /\ UNCHANGED <<stateFile, previews, counts>>

\* The rename into the library; when the sync behind it fails the pack stays there.
Publish ==
  /\ change.at = "publish"
  /\ \/ change.pack \in quarantine /\ Goes("archive")
        /\ library' = library \union {change.pack} /\ quarantine' = quarantine \ {change.pack}
     \/ Fails("failed") /\ change.pack \in quarantine
        /\ library' \in {library, library \union {change.pack}}
        /\ quarantine' = quarantine \ library'
     \/ change.pack \notin quarantine /\ Goes("failed") /\ UNCHANGED <<library, quarantine>>
  /\ UNCHANGED <<broken, stateFile, previews, counts>>

\* archive_packs, one rename at a time, and the syncs.
ArchivePack ==
  /\ change.at = "archive"
  /\ \/ \E q \in change.todo :
          /\ library' = library \ {q} /\ quarantine' = quarantine \union {q}
          /\ change' = [change EXCEPT !.todo = @ \ {q}, !.archived = Append(@, q)]
          /\ UNCHANGED <<broken, faults>>
     \/ change.todo = {} /\ Goes("save") /\ UNCHANGED disk
     \/ Fails("restore") /\ UNCHANGED disk
  /\ UNCHANGED <<stateFile, previews, counts>>

Last == change.archived[Len(change.archived)]
AfterRestore == IF change.kind = "import" THEN "unpublish" ELSE "failed"

\* Seeded bug: what was archived is left where it is.
BugRestorePack ==
  /\ change.at = "restore" /\ Goes(AfterRestore)
  /\ UNCHANGED <<disk, stateFile, previews, counts>>

\* restore_archived_packs, the last one first. When it fails after the state could not
\* be saved the publication is not taken back.
RestorePack ==
  /\ change.at = "restore"
  /\ \/ /\ change.archived # <<>>
        /\ library' = library \union {Last} /\ quarantine' = quarantine \ {Last}
        /\ change' = [change EXCEPT !.archived = SubSeq(@, 1, Len(@) - 1)]
        /\ UNCHANGED <<broken, faults>>
     \/ change.archived = <<>> /\ Goes(AfterRestore) /\ UNCHANGED disk
     \/ Fails(IF change.from = "save" THEN "failed" ELSE AfterRestore) /\ UNCHANGED disk
  /\ UNCHANGED <<stateFile, previews, counts>>

\* rollback_publish: the preview can be confirmed once more.
Unpublish ==
  /\ change.at = "unpublish"
  /\ \/ library' = library \ {change.pack} /\ quarantine' = quarantine \union {change.pack}
        /\ Goes("failed") /\ UNCHANGED broken
     \/ Fails("failed") /\ UNCHANGED disk
  /\ UNCHANGED <<stateFile, previews, counts>>

Fail ==
  /\ change.at = "failed"
  /\ change' = [NoChange EXCEPT !.answer = "error", !.faults = change.faults]
  /\ UNCHANGED <<disk, stateFile, previews, counts, faults>>

\* The state after the change: replace_custom_packs and select, or remove_custom_pack.
Replaced == {change.archived[i] : i \in DOMAIN change.archived}
Saved ==
  /\ chosen' = IF change.kind = "import" THEN change.pack
               ELSE IF chosen = change.pack THEN Builtin ELSE chosen
  /\ mapped' = mapped \ Replaced

\* save_state. What was written although the write is reported as failed is recognised,
\* unless it cannot be read either.
SaveState ==
  /\ change.at = "save"
  /\ \/ Saved /\ Goes("discard")
     \/ /\ faults < MaxFault /\ faults' = faults + 1
        /\ \/ Saved /\ change' = [change EXCEPT !.at = "discard", !.faults = @ + 1]
           \/ UNCHANGED stateFile
              /\ change' = [change EXCEPT !.at = "restore", !.from = "save", !.faults = @ + 1]
     \/ /\ faults + 1 < MaxFault /\ faults' = faults + 2 /\ Saved
        /\ change' = [change EXCEPT !.at = "restore", !.from = "save", !.faults = @ + 2]
  /\ UNCHANGED <<disk, previews, counts>>

\* discard_archived_packs, which may leave some, and the end of the session.
Discard ==
  /\ change.at = "discard"
  /\ \/ quarantine' = quarantine \ Replaced /\ Goes("snapshot")
     \/ Fails("snapshot") /\ UNCHANGED quarantine
  /\ previews' = IF change.kind = "import" THEN [previews EXCEPT ![change.pack] = "none"]
                 ELSE previews
  /\ UNCHANGED <<library, broken, stateFile, counts>>

-----------------------------------------------------------------------------
\* The process ends and is started again: cleanup_interrupted_quarantine.
Restart ==
  /\ restarts < MaxRestart /\ restarts' = restarts + 1
  /\ quarantine' = {} /\ previews' = [p \in Packs |-> "none"]
  /\ change' = [NoChange EXCEPT !.answer = "lost"]
  /\ UNCHANGED <<library, broken, stateFile, imported, faults>>

LibraryNext ==
  \/ \E p \in Packs : PickImport(p) \/ AttestPreview(p) \/ CancelImport(p) \/ Expire(p)
  \/ GetLibrary \/ Refuse \/ Snapshot
  \/ \E p \in Packs \union {Builtin} : SelectPack(p)
  \/ SaveMapping
  \/ \E p \in Packs : ConfirmImport(p) \/ DeletePack(p)
  \/ Publish \/ ArchivePack \/ RestorePack \/ Unpublish \/ Fail \/ SaveState \/ Discard
  \/ Restart

LibrarySpec == LibraryInit /\ [][LibraryNext]_libraryVars

-----------------------------------------------------------------------------
(* Properties.                                                             *)

Changing == ~Resting /\ change.kind \in {"import", "delete"}

\* What the operation has found is there, and so is the selection.
Kept ==
  change.before.library \subseteq library' /\ change.before.chosen = chosen'

\* The change has been made, and the selection is there, if it was. The new pack counts
\* as installed when the snapshot behind the import could not read it.
ChangeIsMade ==
  IF change.kind = "import"
  THEN /\ change.before.library \intersect library' = {}
       /\ \/ change.pack \in library' /\ chosen' = change.pack
          \/ change.pack \in broken' /\ chosen' = Builtin
  ELSE /\ change.pack \notin library'
       /\ change.before.library \ {change.pack} \subseteq library' \union broken'
       /\ change.before.chosen \in change.before.library =>
            chosen' \in library' \union {Builtin}

\* An import or a deletion that is answered, with a success or an error, and in which no
\* more than one call has failed since it read the library, has been made as a whole or
\* has not cost the user anything it had found. (It may answer with an error although
\* it was made, when the snapshot behind it fails; a success has been made.)
FailureKeepsPacks ==
  [][Changing /\ change'.at = "rest" /\ change'.faults <= 1 =>
       /\ change'.answer = "error" => Kept \/ ChangeIsMade
       /\ change'.answer = "done" => ChangeIsMade]_libraryVars

\* While an import replaces what is there, the new pack or all that was found is in the
\* library, so that a process that ends at any moment finds a pack when it starts again:
\* the quarantine, where the others are, is emptied then.
ImportNeverEmpties ==
  Changing /\ change.kind = "import" /\ change.faults <= 1 =>
    change.pack \in library \/ change.before.library \subseteq library
=============================================================================
