--------------------------- MODULE ContextEditing ---------------------------
(***************************************************************************)
(* The contexts a user edits in the settings: one of each project, one of  *)
(* each character pack. The window keeps a section for each of them        *)
(* (workspace-view/useEditableSettingsContext.ts) with what it last read   *)
(* and the draft; the history keeps the versions (workspace_history, the   *)
(* tables project_contexts and character_contexts).                        *)
(*                                                                         *)
(* Every call is answered late. The editor of projects lives as long as    *)
(* the window; that of characters ends when the settings are closed, while *)
(* a call it made goes on. A text is the number of the edit that typed it. *)
(* Not modelled: which texts and references are well-formed, the files the *)
(* references lead to (a save may be refused for them), and the content of *)
(* the manifest that is stored with a project's text.                      *)
(***************************************************************************)
EXTENDS Naturals, Sequences, FiniteSets

CONSTANTS Projects, Packs,
          NoContext,    \* no project or pack is shown
          MaxEdit,      \* bound on the edits
          MaxRefusal,   \* bound on failed calls, and on invalid drafts that are saved
          MaxVisit      \* bound on how often something is shown

ASSUME ContextEditingAssumption ==
  /\ Projects \intersect Packs = {} /\ NoContext \notin Projects \union Packs
  /\ MaxEdit \in Nat /\ MaxRefusal \in Nat /\ MaxVisit \in Nat

Contexts == Projects \union Packs

VARIABLES
  versions,   \* the stored versions of each context: their text and the version they replaced
  looked,     \* what the editor of projects and that of characters show
  sections,   \* states of the two hooks
  loadTokens, saveTokens, \* loadGenerations, projectSaveGenerations, characterSaveGenerations
  contextCalls, \* calls under way
  edits, refusals, visits,
  kept        \* history: the text the user typed and has not given up, 0 if none

contextVars == <<versions, looked, sections, loadTokens, saveTokens, contextCalls,
                 edits, refusals, visits, kept>>

\* loadingState. persisted is the version that was read, 0 before.
LoadingSection == [persisted |-> 0, draft |-> 0, status |-> "loading", dirty |-> FALSE]

\* insert_default_project_context; a character without a row has version 1.
ContextInit ==
  /\ versions = [t \in Contexts |-> <<[text |-> 0, over |-> 0]>>]
  /\ looked = [editor \in {"project", "character"} |-> NoContext]
  /\ sections = [t \in Contexts |-> LoadingSection]
  /\ loadTokens = [t \in Contexts |-> 0] /\ saveTokens = [t \in Contexts |-> 0]
  /\ contextCalls = {} /\ edits = 0 /\ refusals = 0 /\ visits = 0
  /\ kept = [t \in Contexts |-> 0]

Version(t) == Len(versions[t])
EditorOf(t) == IF t \in Projects THEN "project" ELSE "character"
Looks(t) == looked[EditorOf(t)] = t

\* A section with a draft is offered for input unless it is saving.
Offered(t) == Looks(t) /\ sections[t].persisted # 0 /\ sections[t].status \notin {"loading", "saving"}

NewCall(t, kind, token) ==
  [about |-> t, kind |-> kind, token |-> token, live |-> TRUE, answer |-> "none", base |-> 0, text |-> 0]

\* load, loadCharacter. The token is raised before what was read is used.
LoadContext(t) ==
  /\ loadTokens' = [loadTokens EXCEPT ![t] = @ + 1]
  /\ IF sections[t].persisted # 0 THEN UNCHANGED <<sections, contextCalls>>
     ELSE /\ sections' = [sections EXCEPT ![t] = LoadingSection]
          /\ contextCalls' = contextCalls \union {NewCall(t, "load", loadTokens'[t])}

\* A project is opened, or the details of a pack: the effect of the hook follows.
Show(t) ==
  /\ visits < MaxVisit /\ visits' = visits + 1 /\ ~Looks(t)
  /\ looked' = [looked EXCEPT ![EditorOf(t)] = t]
  /\ LoadContext(t)
  /\ UNCHANGED <<versions, saveTokens, edits, refusals, kept>>

\* The project or the pack is left, its section stays.
Leave(t) ==
  /\ Looks(t)
  /\ looked' = [looked EXCEPT ![EditorOf(t)] = NoContext]
  /\ UNCHANGED <<versions, sections, loadTokens, saveTokens, contextCalls, edits, refusals,
                 visits, kept>>

\* The settings are closed, and the editor of characters with its sections is gone.
CloseSettings ==
  /\ \E t \in Packs : loadTokens[t] # 0
  /\ looked' = [editor \in DOMAIN looked |-> NoContext]
  /\ sections' = [t \in Contexts |-> IF t \in Packs THEN LoadingSection ELSE sections[t]]
  /\ loadTokens' = [t \in Contexts |-> IF t \in Packs THEN 0 ELSE loadTokens[t]]
  /\ saveTokens' = [t \in Contexts |-> IF t \in Packs THEN 0 ELSE saveTokens[t]]
  /\ contextCalls' = {IF c.about \in Packs THEN [c EXCEPT !.live = FALSE] ELSE c :
                        c \in {d \in contextCalls : d.about \in Projects \/ (d.kind = "save" /\ d.answer = "none")}}
  /\ kept' = [t \in Contexts |-> IF t \in Packs THEN 0 ELSE kept[t]]
  /\ UNCHANGED <<versions, edits, refusals, visits>>

\* retryLoad, offered when nothing was read
RetryLoad(t) ==
  /\ Looks(t) /\ sections[t].status = "error" /\ sections[t].persisted = 0
  /\ LoadContext(t)
  /\ UNCHANGED <<versions, looked, saveTokens, edits, refusals, visits, kept>>

\* updateProject, updateProjectList, updateCharacter, updateCharacterList
Edit(t) ==
  /\ Offered(t) /\ edits < MaxEdit /\ edits' = edits + 1
  /\ sections' = [sections EXCEPT ![t].draft = edits', ![t].status = "ready", ![t].dirty = TRUE]
  /\ kept' = [kept EXCEPT ![t] = edits']
  /\ UNCHANGED <<versions, looked, loadTokens, saveTokens, contextCalls, refusals, visits>>

\* discardProject, discardCharacter, and as reload after a conflict
Discard(t) ==
  /\ Offered(t) /\ (sections[t].dirty \/ sections[t].status = "conflict")
  /\ sections' = [sections EXCEPT ![t] = [@ EXCEPT !.draft = versions[t][sections[t].persisted].text,
                                                   !.status = "ready", !.dirty = FALSE]]
  /\ kept' = [kept EXCEPT ![t] = 0]
  /\ UNCHANGED <<versions, looked, loadTokens, saveTokens, contextCalls, edits, refusals,
                 visits>>

\* saveProject, saveCharacter up to the call; an invalid draft is not sent
Save(t) ==
  /\ Offered(t) /\ sections[t].dirty
  /\ saveTokens' = [saveTokens EXCEPT ![t] = @ + 1]
  /\ \/ /\ refusals < MaxRefusal /\ refusals' = refusals + 1
        /\ sections' = [sections EXCEPT ![t].status = "error"]
        /\ UNCHANGED contextCalls
     \/ /\ sections' = [sections EXCEPT ![t].status = "saving"]
        /\ contextCalls' = contextCalls \union
             {[NewCall(t, "save", saveTokens'[t]) EXCEPT !.base = sections[t].persisted,
                                                         !.text = sections[t].draft]}
        /\ UNCHANGED refusals
  /\ UNCHANGED <<versions, looked, loadTokens, edits, visits, kept>>

Answered(c, d) == contextCalls' = (contextCalls \ {c}) \union {d}

(***************************************************************************)
(* The service. A read takes no lock; a save is one transaction.           *)
(***************************************************************************)
\* project_context, character_context: an answer to a load is the version.
Read(c) ==
  /\ c \in contextCalls /\ c.kind \in {"load", "reread"} /\ c.answer = "none"
  /\ Answered(c, [c EXCEPT !.answer = "read", !.base = Version(c.about)])
  /\ UNCHANGED <<versions, looked, sections, loadTokens, saveTokens, edits, refusals, visits,
                 kept>>

BugCommitAlways(c) ==
  /\ c \in contextCalls /\ c.kind = "save" /\ c.answer = "none"
  /\ versions' = [versions EXCEPT ![c.about] = Append(@, [text |-> c.text, over |-> c.base])]
  /\ Answered(c, [c EXCEPT !.answer = "saved", !.base = Version(c.about) + 1])
  /\ UNCHANGED <<looked, sections, loadTokens, saveTokens, edits, refusals, visits, kept>>

\* save_project_context, save_character_context
Commit(c) ==
  /\ c \in contextCalls /\ c.kind = "save" /\ c.answer = "none"
  /\ IF c.base = Version(c.about)
     THEN /\ versions' = [versions EXCEPT ![c.about] = Append(@, [text |-> c.text, over |-> c.base])]
          /\ Answered(c, [c EXCEPT !.answer = "saved", !.base = Version(c.about) + 1])
     ELSE Answered(c, [c EXCEPT !.answer = "conflict"]) /\ UNCHANGED versions
  /\ UNCHANGED <<looked, sections, loadTokens, saveTokens, edits, refusals, visits, kept>>

\* A call fails before it changed anything, or the answer to it is not understood.
Refuse(c) ==
  /\ c \in contextCalls /\ c.answer \in {"none", "saved"}
  /\ refusals < MaxRefusal /\ refusals' = refusals + 1
  /\ Answered(c, [c EXCEPT !.answer = "failed"])
  /\ UNCHANGED <<versions, looked, sections, loadTokens, saveTokens, edits, visits, kept>>

(***************************************************************************)
(* Answers in the window.                                                  *)
(***************************************************************************)
BugIsLatestLoad(c) == c.live

IsLatestLoad(c) == c.live /\ c.token = loadTokens[c.about]

ReadSection(version, text, status) ==
  [persisted |-> version, draft |-> text, status |-> status, dirty |-> FALSE]

LoadAnswered(c) ==
  /\ c \in contextCalls /\ c.kind = "load" /\ c.answer # "none"
  /\ contextCalls' = contextCalls \ {c}
  /\ sections' =
       IF ~IsLatestLoad(c) THEN sections
       ELSE IF c.answer = "failed" THEN [sections EXCEPT ![c.about].status = "error"]
       ELSE [sections EXCEPT ![c.about] = ReadSection(c.base, versions[c.about][c.base].text, "ready")]
  /\ UNCHANGED <<versions, looked, loadTokens, saveTokens, edits, refusals, visits, kept>>

IsLatestSave(c) == c.live /\ c.token = saveTokens[c.about]

\* A conflict is followed by a read, with the token of the save.
SaveAnswered(c) ==
  /\ c \in contextCalls /\ c.kind = "save" /\ c.answer # "none"
  /\ LET t == c.about IN
     IF ~IsLatestSave(c) THEN contextCalls' = contextCalls \ {c} /\ UNCHANGED <<sections, kept>>
     ELSE \/ /\ c.answer = "saved" /\ contextCalls' = contextCalls \ {c}
             /\ sections' = [sections EXCEPT ![t] = ReadSection(c.base, c.text, "saved")]
             /\ kept' = [kept EXCEPT ![t] = 0]
          \/ /\ c.answer = "conflict"
             /\ Answered(c, NewCall(t, "reread", c.token)) /\ UNCHANGED <<sections, kept>>
          \/ /\ c.answer = "failed" /\ contextCalls' = contextCalls \ {c}
             /\ sections' = [sections EXCEPT ![t].status = "error"] /\ UNCHANGED <<kept>>
  /\ UNCHANGED <<versions, looked, loadTokens, saveTokens, edits, refusals, visits>>

BugRereadAnswered(c) ==
  /\ c \in contextCalls /\ c.kind = "reread" /\ c.answer # "none"
  /\ contextCalls' = contextCalls \ {c}
  /\ sections' =
       IF ~IsLatestSave(c) THEN sections
       ELSE IF c.answer = "failed" THEN [sections EXCEPT ![c.about].status = "error"]
       ELSE [sections EXCEPT ![c.about] = ReadSection(c.base, versions[c.about][c.base].text, "conflict")]
  /\ UNCHANGED <<versions, looked, loadTokens, saveTokens, edits, refusals, visits, kept>>

\* After a conflict the draft stays, beside the version that was read.
RereadAnswered(c) ==
  /\ c \in contextCalls /\ c.kind = "reread" /\ c.answer # "none"
  /\ contextCalls' = contextCalls \ {c}
  /\ sections' =
       IF ~IsLatestSave(c) THEN sections
       ELSE IF c.answer = "failed" THEN [sections EXCEPT ![c.about].status = "error"]
       ELSE [sections EXCEPT ![c.about].persisted = c.base, ![c.about].status = "conflict"]
  /\ UNCHANGED <<versions, looked, loadTokens, saveTokens, edits, refusals, visits, kept>>

ContextCallStep ==
  \E c \in contextCalls :
    Read(c) \/ Commit(c) \/ Refuse(c) \/ LoadAnswered(c) \/ SaveAnswered(c) \/ RereadAnswered(c)

ContextNext ==
  \/ \E t \in Contexts : Show(t) \/ Leave(t) \/ RetryLoad(t) \/ Edit(t) \/ Discard(t) \/ Save(t)
  \/ CloseSettings
  \/ ContextCallStep

ContextSpec == ContextInit /\ [][ContextNext]_contextVars

(***************************************************************************)
(* Properties                                                              *)
(***************************************************************************)
\* What the user typed stays in the draft until it is saved, discarded or its editor is closed, whatever
\* is answered meanwhile: no late load and no conflict replaces it (useEditableSettingsContext.ts).
TypedTextSurvives == \A t \in Contexts : kept[t] # 0 => sections[t].draft = kept[t] /\ sections[t].dirty

\* A version was only ever replaced by a save whose editor had read that version: two editors of the
\* same context, one of them closed while it saves, do not overwrite each other (store.rs, both saves).
NothingUnseenIsOverwritten == \A t \in Contexts : \A v \in 1..Version(t) : versions[t][v].over = v - 1

\* A section without a draft of its own shows a version that is stored.
ShownIsStored ==
  \A t \in Contexts : LET s == sections[t] IN
    /\ s.persisted <= Version(t)
    /\ s.persisted # 0 /\ ~s.dirty => s.draft = versions[t][s.persisted].text

\* The drafts of the settings are safe, and what they are based on is what is stored.
DraftsAreSafe == TypedTextSurvives /\ NothingUnseenIsOverwritten /\ ShownIsStored
=============================================================================
