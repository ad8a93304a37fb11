------------------------------ MODULE MCParts ------------------------------
(***************************************************************************)
(* Small instances, for TLC, of the parts that share no variables: one run *)
(* checks all of them. A behaviour is a behaviour of one part, the subject,*)
(* while the others stay in an initial state, in which their invariants    *)
(* hold and none of their fair actions is enabled: the sum of the parts    *)
(* has the behaviours of each of them and no other.                        *)
(***************************************************************************)
EXTENDS Transport, Presence, CommitExplanation, SupportRun, Narration, WorkspaceHistory,
        CharacterLibrary, UiSession, Preferences, SupportFiles, WorkUnitCommits

CONSTANT Parts

VARIABLE subject

\* Two parts begin in several states: only their own behaviours take all of them.
PartsInit ==
  /\ subject \in Parts
  /\ TransportInit /\ PresenceInit /\ ExplainInit /\ RunInit
  /\ NarrationInit /\ HistoryInit /\ LibraryInit /\ UiInit
  /\ PrefInit /\ (subject # "preferences" => prefFile.kind = "missing")
  /\ FilesInit /\ (subject # "files" => pins)
  /\ ProofInit

codexVars == <<transportVars, presenceVars, explainVars, runVars>>
appVars == <<narrationVars, historyVars, libraryVars, uiVars>>
storeVars == <<prefVars, filesVars, proofVars>>

StepOf(part) == subject = part /\ UNCHANGED subject

PartsNext ==
  \/ StepOf("transport") /\ TransportNext
       /\ UNCHANGED <<presenceVars, explainVars, runVars, appVars, storeVars>>
  \/ StepOf("presence") /\ PresenceNext
       /\ UNCHANGED <<transportVars, explainVars, runVars, appVars, storeVars>>
  \/ StepOf("explanation") /\ ExplainNext
       /\ UNCHANGED <<transportVars, presenceVars, runVars, appVars, storeVars>>
  \/ StepOf("run") /\ RunNext
       /\ UNCHANGED <<transportVars, presenceVars, explainVars, appVars, storeVars>>
  \/ StepOf("narration") /\ NarrationNext
       /\ UNCHANGED <<codexVars, historyVars, libraryVars, uiVars, storeVars>>
  \/ StepOf("history") /\ HistoryNext
       /\ UNCHANGED <<codexVars, narrationVars, libraryVars, uiVars, storeVars>>
  \/ StepOf("library") /\ LibraryNext
       /\ UNCHANGED <<codexVars, narrationVars, historyVars, uiVars, storeVars>>
  \/ StepOf("session") /\ UiNext
       /\ UNCHANGED <<codexVars, narrationVars, historyVars, libraryVars, storeVars>>
  \/ StepOf("preferences") /\ PrefNext /\ UNCHANGED <<codexVars, appVars, filesVars, proofVars>>
  \/ StepOf("files") /\ FilesNext /\ UNCHANGED <<codexVars, appVars, prefVars, proofVars>>
  \/ StepOf("commits") /\ ProofNext /\ UNCHANGED <<codexVars, appVars, prefVars, filesVars>>

partsVars == <<subject, codexVars, appVars, storeVars>>

PartsSpec == PartsInit /\ [][PartsNext]_partsVars

\* Of the fair steps only the history's start and the first of the preferences are
\* enabled initially.
PartsFairSpec ==
  /\ PartsSpec
  /\ TransportFairness /\ PresenceFairness /\ ExplainFairness /\ RunFairness
  /\ NarrationFairness
  /\ WF_historyVars(subject = "history" /\ HistoryStep)
  /\ WF_prefVars(subject = "preferences" /\ PrefProgress)
=============================================================================
