---------------------------- MODULE WindowProofs ----------------------------
(***************************************************************************)
(* Proofs about the settings of the window and about its narration:        *)
(* ContextEditing, NarrationView.                                          *)
(***************************************************************************)
EXTENDS ContextEditing, NarrationView, TLAPS, SequenceTheorems
LOCAL INSTANCE SequencesExt

-----------------------------------------------------------------------------
(* Contexts: the inductive invariant.                                      *)

Statuses == {"loading", "ready", "saving", "saved", "conflict", "error"}
StoredVersions == [text : Nat, over : Nat]
Sections == [persisted : Nat, draft : Nat, status : Statuses, dirty : BOOLEAN]
ContextCalls ==
  [about : Contexts, kind : {"load", "save", "reread"}, token : Nat, live : BOOLEAN,
   answer : {"none", "read", "saved", "conflict", "failed"}, base : Nat, text : Nat]

ContextTypeOK ==
  /\ versions \in [Contexts -> Seq(StoredVersions)] /\ \A t \in Contexts : Version(t) # 0
  /\ DOMAIN looked = {"project", "character"}
  /\ sections \in [Contexts -> Sections]
  /\ loadTokens \in [Contexts -> Nat] /\ saveTokens \in [Contexts -> Nat]
  /\ contextCalls \in SUBSET ContextCalls
  /\ edits \in Nat /\ refusals \in Nat /\ visits \in Nat
  /\ kept \in [Contexts -> Nat]

\* Answers tell what is or was stored.
AnswersAreStored ==
  \A c \in contextCalls :
    /\ c.answer = "read" => c.kind # "save"
    /\ c.answer \in {"saved", "conflict"} => c.kind = "save"
    /\ c.answer \in {"read", "saved"} => c.base \in 1..Version(c.about)
    /\ c.answer = "saved" => versions[c.about][c.base].text = c.text

\* A latest call is the only one with its token, and holds its section: a load one that
\* has nothing yet, a save one that is saving what the user typed.
TokensAreDrawn ==
  \A c \in contextCalls : c.live =>
    /\ c.kind = "load" => c.token <= loadTokens[c.about]
    /\ c.kind # "load" => c.token <= saveTokens[c.about]
LoadsAreAlone ==
  \A c, d \in contextCalls :
    /\ c.live /\ d.live /\ c.about = d.about /\ c.token = d.token
    /\ c.kind = "load" /\ d.kind = "load"
    => c = d
SavesAreAlone ==
  \A c, d \in contextCalls :
    /\ c.live /\ d.live /\ c.about = d.about /\ c.token = d.token
    /\ c.kind # "load" /\ d.kind # "load"
    => c = d
LoadsHold ==
  \A c \in contextCalls : c.kind = "load" /\ IsLatestLoad(c) => sections[c.about].persisted = 0
SavesHold ==
  \A c \in contextCalls : c.kind # "load" /\ IsLatestSave(c) =>
    /\ sections[c.about].persisted # 0 /\ sections[c.about].status = "saving"
    /\ sections[c.about].dirty
    /\ c.kind = "save" => c.text = sections[c.about].draft

\* What has not been read has not been edited.
UnreadIsUnedited == \A t \in Contexts : sections[t].persisted = 0 => kept[t] = 0 /\ ~sections[t].dirty

ContextInv ==
  /\ ContextTypeOK /\ AnswersAreStored /\ TokensAreDrawn /\ LoadsAreAlone /\ SavesAreAlone
  /\ LoadsHold /\ SavesHold /\ UnreadIsUnedited /\ DraftsAreSafe

-----------------------------------------------------------------------------
(* Contexts: the steps.                                                    *)

\* A context has versions, the latest of which is its present one.
LEMMA VersionAt ==
  ASSUME ContextTypeOK, NEW t \in Contexts
  PROVE  /\ versions[t] \in Seq(StoredVersions) /\ Version(t) \in Nat \ {0}
         /\ DOMAIN versions[t] = 1..Version(t)
         /\ \A v \in 1..Version(t) : versions[t][v] \in StoredVersions
BY LenProperties, ElementOfSeq DEF ContextTypeOK, Version

\* Before anything is shown there is neither draft nor call.
LEMMA ContextInitial == ContextInit => ContextInv
<1> SUFFICES ASSUME ContextInit PROVE ContextInv
  OBVIOUS
<1>1. \A t \in Contexts : versions[t] = <<[text |-> 0, over |-> 0]>> /\ Version(t) = 1
  BY DEF ContextInit, Version
<1>2. <<[text |-> 0, over |-> 0]>> \in Seq(StoredVersions)
  BY DEF StoredVersions
<1>3. ContextTypeOK
  BY <1>1, <1>2 DEF ContextInit, ContextTypeOK, LoadingSection, Sections, Statuses
<1>4. DraftsAreSafe
  BY <1>1 DEF ContextInit, DraftsAreSafe, TypedTextSurvives, NothingUnseenIsOverwritten,
     ShownIsStored, LoadingSection
<1> QED BY <1>3, <1>4 DEF ContextInv, ContextInit, LoadingSection, AnswersAreStored, TokensAreDrawn,
        LoadsAreAlone, SavesAreAlone, LoadsHold, SavesHold, UnreadIsUnedited

\* A section becomes s, and what is kept of it k, where that is as the invariant wants it.
LEMMA SectionChanged ==
  ASSUME ContextInv, NEW t \in Contexts, NEW s \in Sections, NEW k \in Nat,
         sections' = [sections EXCEPT ![t] = s], kept' = [kept EXCEPT ![t] = k],
         UNCHANGED versions,
         s.persisted <= Version(t), k # 0 => s.draft = k /\ s.dirty,
         s.persisted # 0 /\ ~s.dirty => s.draft = versions[t][s.persisted].text,
         s.persisted = 0 => k = 0 /\ ~s.dirty
  PROVE  /\ sections' \in [Contexts -> Sections] /\ kept' \in [Contexts -> Nat]
         /\ sections'[t] = s /\ \A u \in Contexts \ {t} : sections'[u] = sections[u]
         /\ DraftsAreSafe' /\ UnreadIsUnedited'
<1>1. /\ sections' \in [Contexts -> Sections] /\ kept' \in [Contexts -> Nat]
      /\ sections'[t] = s /\ kept'[t] = k
      /\ \A u \in Contexts \ {t} : sections'[u] = sections[u] /\ kept'[u] = kept[u]
  BY DEF ContextInv, ContextTypeOK
<1>2. TypedTextSurvives' /\ UnreadIsUnedited'
  BY <1>1 DEF ContextInv, DraftsAreSafe, TypedTextSurvives, UnreadIsUnedited
<1>3. NothingUnseenIsOverwritten'
  BY DEF ContextInv, DraftsAreSafe, NothingUnseenIsOverwritten, Version
<1>4. ShownIsStored'
  BY <1>1 DEF ContextInv, DraftsAreSafe, ShownIsStored, Version
<1> QED BY <1>1, <1>2, <1>3, <1>4 DEF DraftsAreSafe

\* What a new call is about.
LEMMA NewCallIs ==
  ASSUME NEW t \in Contexts, NEW kind \in {"load", "save", "reread"}, NEW token \in Nat
  PROVE  LET d == NewCall(t, kind, token) IN
         /\ d \in ContextCalls /\ d.about = t /\ d.kind = kind /\ d.token = token /\ d.live
         /\ d.answer = "none"
BY DEF NewCall, ContextCalls

\* A section is shown or read again: a call with a new token is made for one that has nothing.
LEMMA LoadKeeps ==
  ASSUME ContextInv, NEW t \in Contexts, LoadContext(t),
         UNCHANGED <<versions, saveTokens, kept>>, DOMAIN looked' = DOMAIN looked,
         edits' \in Nat, refusals' \in Nat, visits' \in Nat
  PROVE  ContextInv'
<1> USE DEF ContextInv
<1>1. /\ loadTokens' \in [Contexts -> Nat] /\ loadTokens'[t] = loadTokens[t] + 1
      /\ loadTokens[t] \in Nat
      /\ \A u \in Contexts \ {t} : loadTokens'[u] = loadTokens[u]
  BY DEF LoadContext, ContextTypeOK
<1>2. \A c \in contextCalls : c.about \in Contexts /\ c.token \in Nat
  BY DEF ContextTypeOK, ContextCalls
\* The calls there were are not the latest any more.
<1>3. \A c \in contextCalls : c.kind = "load" /\ IsLatestLoad(c)' => c.about # t /\ IsLatestLoad(c)
  BY <1>1, <1>2 DEF IsLatestLoad, TokensAreDrawn
<1>4. CASE sections[t].persisted # 0
  <2>1. UNCHANGED <<sections, contextCalls>>
    BY <1>4 DEF LoadContext
  <2>2. ContextTypeOK' /\ AnswersAreStored'
    BY <1>1, <2>1 DEF ContextTypeOK, AnswersAreStored, Version
  <2>3. TokensAreDrawn' /\ LoadsAreAlone' /\ SavesAreAlone'
    BY <1>1, <1>2, <2>1 DEF TokensAreDrawn, LoadsAreAlone, SavesAreAlone
  <2>4. LoadsHold' /\ SavesHold'
    BY <1>3, <2>1 DEF LoadsHold, SavesHold, IsLatestSave
  <2>5. UnreadIsUnedited' /\ DraftsAreSafe'
    BY <2>1 DEF UnreadIsUnedited, DraftsAreSafe, TypedTextSurvives, NothingUnseenIsOverwritten,
       ShownIsStored, Version
  <2> QED BY <2>2, <2>3, <2>4, <2>5
<1>5. CASE sections[t].persisted = 0
  <2>1. /\ sections' = [sections EXCEPT ![t] = LoadingSection]
        /\ contextCalls' = contextCalls \union {NewCall(t, "load", loadTokens'[t])}
    BY <1>5 DEF LoadContext
  <2>2. PICK d \in ContextCalls :
          /\ contextCalls' = contextCalls \union {d}
          /\ d.about = t /\ d.kind = "load" /\ d.token = loadTokens[t] + 1 /\ d.live
          /\ d.answer = "none"
    BY <1>1, <2>1, NewCallIs
  <2>3. LoadingSection \in Sections /\ LoadingSection.persisted = 0 /\ ~LoadingSection.dirty
    BY DEF LoadingSection, Sections, Statuses
  <2>4. kept' = [kept EXCEPT ![t] = 0] /\ 0 <= Version(t) /\ 0 \in Nat
    BY <1>5, VersionAt DEF UnreadIsUnedited, ContextTypeOK
  <2>5. /\ sections' \in [Contexts -> Sections] /\ sections'[t] = LoadingSection
        /\ \A u \in Contexts \ {t} : sections'[u] = sections[u]
        /\ DraftsAreSafe' /\ UnreadIsUnedited'
    <3>1. PICK s \in Sections : s = LoadingSection
      BY <2>3
    <3>2. s.persisted <= Version(t) /\ s.persisted = 0 /\ ~s.dirty
      BY <2>3, <2>4, <3>1
    <3> QED BY <2>1, <2>4, <3>1, <3>2, SectionChanged
  <2>6. ContextTypeOK' /\ AnswersAreStored'
    BY <1>1, <2>2, <2>5 DEF ContextTypeOK, AnswersAreStored, Version
  <2>7. TokensAreDrawn' /\ LoadsAreAlone' /\ SavesAreAlone'
    BY <1>1, <1>2, <2>2 DEF TokensAreDrawn, LoadsAreAlone, SavesAreAlone
  <2>8. LoadsHold'
    BY <1>2, <1>3, <2>2, <2>3, <2>5 DEF LoadsHold
  <2>9. SavesHold'
    BY <1>2, <1>5, <2>2, <2>5 DEF SavesHold, IsLatestSave
  <2> QED BY <2>5, <2>6, <2>7, <2>8, <2>9
<1> QED BY <1>4, <1>5

\* Showing a section, leaving it and reading it again keep the drafts.
LEMMA LookKeeps ==
  ASSUME ContextInv, NEW t \in Contexts, Show(t) \/ Leave(t) \/ RetryLoad(t)
  PROVE  ContextInv'
<1>1. CASE Show(t) \/ RetryLoad(t)
  <2>1. /\ UNCHANGED <<versions, saveTokens, kept>> /\ DOMAIN looked' = DOMAIN looked
        /\ edits' \in Nat /\ refusals' \in Nat /\ visits' \in Nat /\ LoadContext(t)
    BY <1>1 DEF Show, RetryLoad, ContextInv, ContextTypeOK
  <2> QED BY <2>1, LoadKeeps
<1>2. CASE Leave(t)
  <2>1. /\ UNCHANGED <<versions, sections, loadTokens, saveTokens, contextCalls, edits, refusals,
                       visits, kept>>
        /\ DOMAIN looked' = DOMAIN looked
    BY <1>2 DEF Leave
  <2>2. ContextTypeOK' /\ AnswersAreStored' /\ TokensAreDrawn' /\ LoadsAreAlone' /\ SavesAreAlone'
    BY <2>1 DEF ContextInv, ContextTypeOK, AnswersAreStored, TokensAreDrawn, LoadsAreAlone,
       SavesAreAlone, Version
  <2>3. LoadsHold' /\ SavesHold' /\ UnreadIsUnedited' /\ DraftsAreSafe'
    BY <2>1 DEF ContextInv, LoadsHold, SavesHold, UnreadIsUnedited, DraftsAreSafe,
       TypedTextSurvives, NothingUnseenIsOverwritten, ShownIsStored, IsLatestLoad, IsLatestSave,
       Version
  <2> QED BY <2>2, <2>3 DEF ContextInv
<1> QED BY <1>1, <1>2

\* What is typed and given up; nothing is saving then, and nothing being read.
LEMMA EditKeeps ==
  ASSUME ContextInv, NEW t \in Contexts, Edit(t) \/ Discard(t)
  PROVE  ContextInv'
<1> USE DEF ContextInv
<1>1. /\ sections[t] \in Sections /\ sections[t].persisted # 0 /\ sections[t].status # "saving"
      /\ sections[t].persisted \in 1..Version(t)
  <2>1. sections[t] \in Sections /\ sections[t].persisted # 0 /\ sections[t].status # "saving"
    BY DEF Edit, Discard, Offered, ContextTypeOK
  <2>2. sections[t].persisted \in Nat /\ sections[t].persisted <= Version(t)
    BY <2>1 DEF Sections, DraftsAreSafe, ShownIsStored
  <2> QED BY <2>1, <2>2, VersionAt
<1>2. PICK s \in Sections, k \in Nat :
        /\ sections' = [sections EXCEPT ![t] = s] /\ kept' = [kept EXCEPT ![t] = k]
        /\ s.persisted = sections[t].persisted
        /\ k # 0 => s.draft = k /\ s.dirty
        /\ ~s.dirty => s.draft = versions[t][s.persisted].text
  <2>1. CASE Edit(t)
    <3> DEFINE s == [sections[t] EXCEPT !.draft = edits', !.status = "ready", !.dirty = TRUE]
    <3>1. edits' \in Nat
      BY <2>1 DEF Edit, ContextTypeOK
    <3>2. s \in Sections /\ s.persisted = sections[t].persisted /\ s.draft = edits' /\ s.dirty
      BY <1>1, <3>1 DEF Sections, Statuses
    <3>3. sections' = [sections EXCEPT ![t] = s] /\ kept' = [kept EXCEPT ![t] = edits']
      BY <2>1 DEF Edit, ContextTypeOK
    <3> HIDE DEF s
    <3> QED BY <3>1, <3>2, <3>3
  <2>2. CASE Discard(t)
    <3> DEFINE x == versions[t][sections[t].persisted].text
               s == [sections[t] EXCEPT !.draft = x, !.status = "ready", !.dirty = FALSE]
    <3>1. x \in Nat
      BY <1>1, VersionAt DEF StoredVersions
    <3>2. s \in Sections /\ s.persisted = sections[t].persisted /\ s.draft = x
      BY <1>1, <3>1 DEF Sections, Statuses
    <3>3. sections' = [sections EXCEPT ![t] = s] /\ kept' = [kept EXCEPT ![t] = 0]
      BY <2>2 DEF Discard, ContextTypeOK
    <3> HIDE DEF s
    <3> QED BY <3>2, <3>3
  <2> QED BY <2>1, <2>2
<1>3. /\ UNCHANGED <<versions, looked, loadTokens, saveTokens, contextCalls, refusals, visits>>
      /\ edits' \in Nat
  BY DEF Edit, Discard, ContextTypeOK
<1>4. /\ sections' \in [Contexts -> Sections] /\ kept' \in [Contexts -> Nat]
      /\ sections'[t] = s /\ \A u \in Contexts \ {t} : sections'[u] = sections[u]
      /\ DraftsAreSafe' /\ UnreadIsUnedited'
  <2>1. s.persisted <= Version(t) /\ s.persisted # 0
    BY <1>1, <1>2, VersionAt
  <2> QED BY <1>2, <1>3, <2>1, SectionChanged
<1>5. ContextTypeOK' /\ AnswersAreStored' /\ TokensAreDrawn' /\ LoadsAreAlone' /\ SavesAreAlone'
  BY <1>3, <1>4 DEF ContextTypeOK, AnswersAreStored, TokensAreDrawn, LoadsAreAlone, SavesAreAlone,
     Version
<1>6. \A c \in contextCalls : c.about \in Contexts
  BY DEF ContextTypeOK, ContextCalls
<1>7. LoadsHold' /\ SavesHold'
  BY <1>1, <1>2, <1>3, <1>4, <1>6 DEF LoadsHold, SavesHold, IsLatestLoad, IsLatestSave
<1> QED BY <1>4, <1>5, <1>7

\* A save has its own token and sends the draft.
LEMMA SaveKeeps ==
  ASSUME ContextInv, NEW t \in Contexts, Save(t)
  PROVE  ContextInv'
<1> USE DEF ContextInv
<1>1. /\ sections[t] \in Sections /\ sections[t].persisted # 0 /\ sections[t].status # "saving"
      /\ sections[t].dirty
  BY DEF Save, Offered, ContextTypeOK
<1>2. /\ saveTokens' \in [Contexts -> Nat] /\ saveTokens'[t] = saveTokens[t] + 1
      /\ saveTokens[t] \in Nat
      /\ \A u \in Contexts \ {t} : saveTokens'[u] = saveTokens[u]
  BY DEF Save, ContextTypeOK
<1>3. \A c \in contextCalls : c.about \in Contexts /\ c.token \in Nat
  BY DEF ContextTypeOK, ContextCalls
<1>4. \A c \in contextCalls : c.kind # "load" /\ IsLatestSave(c)' => c.about # t /\ IsLatestSave(c)
  BY <1>2, <1>3 DEF IsLatestSave, TokensAreDrawn
<1>5. /\ UNCHANGED <<versions, looked, loadTokens, edits, visits, kept>> /\ refusals' \in Nat
      /\ kept' = [kept EXCEPT ![t] = kept[t]] /\ kept[t] \in Nat
  BY DEF Save, ContextTypeOK
<1>6. PICK s \in Sections :
        /\ sections' = [sections EXCEPT ![t] = s]
        /\ s.persisted = sections[t].persisted /\ s.draft = sections[t].draft
        /\ s.dirty = sections[t].dirty
        /\ \/ contextCalls' = contextCalls
           \/ /\ s.status = "saving"
              /\ \E d \in ContextCalls :
                   /\ contextCalls' = contextCalls \union {d}
                   /\ d.about = t /\ d.kind = "save" /\ d.token = saveTokens[t] + 1
                   /\ d.answer = "none" /\ d.text = s.draft
  <2>1. ASSUME NEW status \in {"error", "saving"}
        PROVE  LET s == [sections[t] EXCEPT !.status = status] IN
               /\ s \in Sections /\ s.status = status
               /\ s.persisted = sections[t].persisted /\ s.draft = sections[t].draft
               /\ s.dirty = sections[t].dirty
               /\ [sections EXCEPT ![t].status = status] = [sections EXCEPT ![t] = s]
    BY <1>1 DEF Sections, Statuses, ContextTypeOK
  <2>2. LET d == [NewCall(t, "save", saveTokens'[t]) EXCEPT !.base = sections[t].persisted,
                                                            !.text = sections[t].draft]
        IN /\ d \in ContextCalls /\ d.about = t /\ d.kind = "save"
           /\ d.token = saveTokens[t] + 1 /\ d.answer = "none" /\ d.text = sections[t].draft
    BY <1>1, <1>2 DEF NewCall, ContextCalls, Sections
  <2>3. CASE sections' = [sections EXCEPT ![t].status = "error"] /\ UNCHANGED contextCalls
    BY <2>1, <2>3
  <2>4. CASE /\ sections' = [sections EXCEPT ![t].status = "saving"]
             /\ contextCalls' = contextCalls \union
                  {[NewCall(t, "save", saveTokens'[t]) EXCEPT !.base = sections[t].persisted,
                                                              !.text = sections[t].draft]}
    BY <2>1, <2>2, <2>4
  <2> QED BY <2>3, <2>4 DEF Save
<1>7. /\ sections' \in [Contexts -> Sections] /\ kept' \in [Contexts -> Nat]
      /\ sections'[t] = s /\ \A u \in Contexts \ {t} : sections'[u] = sections[u]
      /\ DraftsAreSafe' /\ UnreadIsUnedited'
  <2>1. /\ s.persisted <= Version(t) /\ s.dirty /\ s.persisted # 0
        /\ kept[t] # 0 => s.draft = kept[t]
    BY <1>1, <1>6 DEF DraftsAreSafe, ShownIsStored, TypedTextSurvives
  <2> QED BY <1>5, <1>6, <2>1, SectionChanged
<1>8. CASE contextCalls' = contextCalls
  <2>1. ContextTypeOK' /\ AnswersAreStored'
    BY <1>2, <1>5, <1>7, <1>8 DEF ContextTypeOK, AnswersAreStored, Version
  <2>2. TokensAreDrawn' /\ LoadsAreAlone' /\ SavesAreAlone'
    BY <1>2, <1>3, <1>5, <1>8 DEF TokensAreDrawn, LoadsAreAlone, SavesAreAlone
  <2>3. LoadsHold' /\ SavesHold'
    BY <1>3, <1>4, <1>5, <1>6, <1>7, <1>8 DEF LoadsHold, SavesHold, IsLatestLoad
  <2> QED BY <1>7, <2>1, <2>2, <2>3
<1>9. ASSUME s.status = "saving", NEW d \in ContextCalls, contextCalls' = contextCalls \union {d},
             d.about = t, d.kind = "save", d.token = saveTokens[t] + 1, d.answer = "none",
             d.text = s.draft
      PROVE  ContextInv'
  <2>1. ContextTypeOK' /\ AnswersAreStored'
    BY <1>2, <1>5, <1>7, <1>9 DEF ContextTypeOK, AnswersAreStored, Version
  <2>2. TokensAreDrawn' /\ LoadsAreAlone' /\ SavesAreAlone'
    BY <1>2, <1>3, <1>5, <1>9 DEF TokensAreDrawn, LoadsAreAlone, SavesAreAlone
  <2>3. LoadsHold'
    BY <1>1, <1>3, <1>5, <1>6, <1>7, <1>9 DEF LoadsHold, IsLatestLoad
  <2>4. SavesHold'
    <3>1. /\ s.persisted # 0 /\ s.status = "saving" /\ s.dirty /\ d.text = s.draft
      BY <1>1, <1>6, <1>9
    <3> SUFFICES ASSUME NEW c \in contextCalls', c.kind # "load", IsLatestSave(c)'
                 PROVE  /\ sections'[c.about].persisted # 0
                        /\ sections'[c.about].status = "saving" /\ sections'[c.about].dirty
                        /\ c.kind = "save" => c.text = sections'[c.about].draft
      BY DEF SavesHold
    <3>2. CASE c = d
      BY <1>7, <1>9, <3>1, <3>2
    <3>3. CASE c \in contextCalls
      <4>1. c.about # t /\ IsLatestSave(c) /\ c.about \in Contexts
        BY <1>3, <1>4, <3>3
      <4> QED BY <1>7, <3>3, <4>1 DEF SavesHold
    <3> QED BY <1>9, <3>2, <3>3
  <2> QED BY <1>7, <2>1, <2>2, <2>3, <2>4
<1> QED BY <1>6, <1>8, <1>9

\* Closing the settings ends the sections of packs, and the calls that only read.
LEMMA CloseKeeps ==
  ASSUME ContextInv, CloseSettings
  PROVE  ContextInv'
<1> USE DEF ContextInv
\* Of the calls about packs only saves go on, and they belong to nobody.
<1>1. \A c \in contextCalls' :
        \/ c \in contextCalls /\ c.about \in Contexts \ Packs
        \/ ~c.live /\ c.kind = "save" /\ c.answer = "none" /\ c \in ContextCalls
  <2> SUFFICES ASSUME NEW d \in contextCalls, d.about \in Projects \/ (d.kind = "save" /\ d.answer = "none"),
                      NEW c, c = IF d.about \in Packs THEN [d EXCEPT !.live = FALSE] ELSE d
               PROVE  \/ c \in contextCalls /\ c.about \in Contexts \ Packs
                      \/ ~c.live /\ c.kind = "save" /\ c.answer = "none" /\ c \in ContextCalls
    BY DEF CloseSettings
  <2>1. d \in ContextCalls /\ d.about \in Contexts
    BY DEF ContextTypeOK, ContextCalls
  <2>2. CASE d.about \in Packs
    <3>1. d.about \notin Projects
      BY <2>2, ContextEditingAssumption
    <3> QED BY <2>1, <2>2, <3>1 DEF ContextCalls
  <2>3. CASE d.about \notin Packs
    BY <2>1, <2>3
  <2> QED BY <2>2, <2>3
<1>2. /\ UNCHANGED <<versions, edits, refusals, visits>>
      /\ \A t \in Contexts \ Packs :
           /\ sections'[t] = sections[t] /\ loadTokens'[t] = loadTokens[t]
           /\ saveTokens'[t] = saveTokens[t] /\ kept'[t] = kept[t]
      /\ \A t \in Packs : sections'[t] = LoadingSection /\ kept'[t] = 0
      /\ DOMAIN looked' = DOMAIN looked
  BY DEF CloseSettings, Contexts
<1>3. LoadingSection \in Sections /\ LoadingSection.persisted = 0 /\ ~LoadingSection.dirty
  BY DEF LoadingSection, Sections, Statuses
<1>4. /\ loadTokens' \in [Contexts -> Nat] /\ saveTokens' \in [Contexts -> Nat]
      /\ kept' \in [Contexts -> Nat] /\ sections' \in [Contexts -> Sections]
  BY <1>3 DEF CloseSettings, ContextTypeOK
<1>5. ContextTypeOK'
  <2>1. versions' = versions /\ versions \in [Contexts -> Seq(StoredVersions)]
    BY <1>2 DEF ContextTypeOK
  <2>2. \A t \in Contexts : Version(t)' # 0
    BY <2>1, VersionAt DEF Version
  <2> QED BY <1>1, <1>2, <1>4, <2>1, <2>2 DEF ContextTypeOK
<1>6. AnswersAreStored'
  BY <1>1, <1>2 DEF AnswersAreStored, Version
<1>7. TokensAreDrawn' /\ LoadsAreAlone' /\ SavesAreAlone'
  BY <1>1, <1>2 DEF TokensAreDrawn, LoadsAreAlone, SavesAreAlone
<1>8. LoadsHold' /\ SavesHold'
  BY <1>1, <1>2 DEF LoadsHold, SavesHold, IsLatestLoad, IsLatestSave
<1>9. UnreadIsUnedited' /\ TypedTextSurvives'
  BY <1>2, <1>3 DEF UnreadIsUnedited, DraftsAreSafe, TypedTextSurvives
<1>10. NothingUnseenIsOverwritten' /\ ShownIsStored'
  BY <1>2, <1>3, VersionAt DEF DraftsAreSafe, NothingUnseenIsOverwritten, ShownIsStored, Version
<1> QED BY <1>5, <1>6, <1>7, <1>8, <1>9, <1>10 DEF DraftsAreSafe

\* The service answers; a save that is not behind adds a version.
LEMMA ServiceKeeps ==
  ASSUME ContextInv, NEW c \in contextCalls, Read(c) \/ Commit(c) \/ Refuse(c)
  PROVE  ContextInv'
<1> USE DEF ContextInv
<1>0. c \in ContextCalls /\ c.about \in Contexts
  BY DEF ContextTypeOK, ContextCalls
<1>1. /\ \A t \in Contexts :
           /\ Version(t)' \in Nat \ {0} /\ Version(t) <= Version(t)'
           /\ \A v \in 1..Version(t) : versions'[t][v] = versions[t][v]
           /\ \A v \in 1..Version(t)' : versions'[t][v].over = v - 1
      /\ versions' \in [Contexts -> Seq(StoredVersions)]
  <2>1. CASE UNCHANGED versions
    BY <2>1, VersionAt DEF Version, DraftsAreSafe, NothingUnseenIsOverwritten, ContextTypeOK
  <2>2. CASE /\ c.base = Version(c.about)
             /\ versions' = [versions EXCEPT ![c.about] = Append(@, [text |-> c.text, over |-> c.base])]
    <3>1. [text |-> c.text, over |-> c.base] \in StoredVersions
      BY <1>0 DEF ContextCalls, StoredVersions
    <3>2. ASSUME NEW t \in Contexts
          PROVE  /\ Version(t)' \in Nat \ {0} /\ Version(t) <= Version(t)'
                 /\ \A v \in 1..Version(t) : versions'[t][v] = versions[t][v]
                 /\ \A v \in 1..Version(t)' : versions'[t][v].over = v - 1
      <4>1. CASE t = c.about
        <5>1. /\ versions'[t] = Append(versions[t], [text |-> c.text, over |-> c.base])
              /\ versions[t] \in Seq(StoredVersions) /\ Version(t) \in Nat
          BY <1>0, <2>2, <4>1, VersionAt DEF ContextTypeOK
        <5>2. /\ Version(t)' = Version(t) + 1
              /\ \A v \in 1..Version(t) : versions'[t][v] = versions[t][v]
              /\ versions'[t][Version(t) + 1] = [text |-> c.text, over |-> c.base]
          BY <3>1, <5>1, AppendProperties DEF Version
        <5>3. \A v \in 1..Version(t) : versions[t][v].over = v - 1
          BY DEF DraftsAreSafe, NothingUnseenIsOverwritten
        <5>4. PICK n \in Nat : n = Version(t) /\ c.base = n
          BY <2>2, <4>1, <5>1
        <5>5. versions'[t][n + 1].over = n
          BY <5>2, <5>4
        <5>6. Version(t)' = n + 1
          BY <5>2, <5>4
        <5>7. \A v \in 1..n : versions'[t][v] = versions[t][v] /\ versions'[t][v].over = v - 1
          BY <5>2, <5>3, <5>4
        <5>8. \A v \in 1..n + 1 : versions'[t][v].over = v - 1
          BY <5>5, <5>7
        <5> QED BY <5>4, <5>6, <5>7, <5>8
      <4>2. CASE t # c.about
        BY <2>2, <4>2, VersionAt
           DEF Version, DraftsAreSafe, NothingUnseenIsOverwritten, ContextTypeOK
      <4> QED BY <4>1, <4>2
    <3>3. versions' \in [Contexts -> Seq(StoredVersions)]
      BY <1>0, <2>2, <3>1, AppendProperties DEF ContextTypeOK
    <3> QED BY <3>2, <3>3
  <2> QED BY <2>1, <2>2 DEF Read, Commit, Refuse
<1>2. PICK d \in ContextCalls :
        /\ contextCalls' = (contextCalls \ {c}) \union {d}
        /\ d.about = c.about /\ d.kind = c.kind /\ d.token = c.token /\ d.live = c.live
        /\ d.text = c.text
        /\ \/ d.answer = "read" /\ d.kind # "save" /\ d.base = Version(c.about)
           \/ d.answer = "saved" /\ d.kind = "save" /\ d.base = Version(c.about)'
              /\ versions'[c.about][d.base].text = c.text
           \/ d.answer = "conflict" /\ d.kind = "save"
           \/ d.answer = "failed"
  <2>1. CASE Read(c)
    <3>1. [c EXCEPT !.answer = "read", !.base = Version(c.about)] \in ContextCalls
      BY <1>0, VersionAt DEF ContextCalls
    <3> QED BY <1>0, <2>1, <3>1 DEF Read, Answered, ContextCalls
  <2>2. CASE Commit(c)
    <3>1. CASE c.base = Version(c.about)
      <4> DEFINE d == [c EXCEPT !.answer = "saved", !.base = Version(c.about) + 1]
      <4>1. Version(c.about) \in Nat /\ versions[c.about] \in Seq(StoredVersions)
        BY <1>0, VersionAt
      <4>2. [text |-> c.text, over |-> c.base] \in StoredVersions
        BY <1>0 DEF ContextCalls, StoredVersions
      <4>3. versions'[c.about] = Append(versions[c.about], [text |-> c.text, over |-> c.base])
        BY <1>0, <2>2, <3>1 DEF Commit, ContextTypeOK
      <4>4. /\ Version(c.about)' = Version(c.about) + 1
            /\ versions'[c.about][Version(c.about) + 1].text = c.text
        BY <4>1, <4>2, <4>3, AppendProperties DEF Version
      <4>5. d \in ContextCalls
        <5>1. Version(c.about) + 1 \in Nat
          BY <4>1
        <5> QED BY <1>0, <5>1 DEF ContextCalls
      <4> QED BY <1>0, <2>2, <3>1, <4>4, <4>5 DEF Commit, Answered, ContextCalls
    <3>2. CASE c.base # Version(c.about)
      <4>1. [c EXCEPT !.answer = "conflict"] \in ContextCalls
        BY <1>0 DEF ContextCalls
      <4> QED BY <1>0, <2>2, <3>2, <4>1 DEF Commit, Answered, ContextCalls
    <3> QED BY <3>1, <3>2
  <2>3. CASE Refuse(c)
    <3>1. [c EXCEPT !.answer = "failed"] \in ContextCalls
      BY <1>0 DEF ContextCalls
    <3> QED BY <1>0, <2>3, <3>1 DEF Refuse, Answered, ContextCalls
  <2> QED BY <2>1, <2>2, <2>3
<1>3. /\ UNCHANGED <<looked, sections, loadTokens, saveTokens, edits, visits, kept>>
      /\ refusals' \in Nat
  BY DEF Read, Commit, Refuse, ContextTypeOK
<1>4. ContextTypeOK'
  BY <1>1, <1>2, <1>3 DEF ContextTypeOK
<1>5. AnswersAreStored'
  <2> SUFFICES ASSUME NEW e \in contextCalls'
               PROVE  /\ e.answer = "read" => e.kind # "save"
                      /\ e.answer \in {"saved", "conflict"} => e.kind = "save"
                      /\ e.answer \in {"read", "saved"} => e.base \in 1..Version(e.about)'
                      /\ e.answer = "saved" => versions'[e.about][e.base].text = e.text
    BY DEF AnswersAreStored
  <2>1. CASE e = d
    <3>1. Version(c.about) \in 1..Version(c.about)' /\ Version(c.about)' \in 1..Version(c.about)'
      BY <1>0, <1>1, VersionAt DEF DraftsAreSafe
    <3> QED BY <1>2, <2>1, <3>1
  <2>2. CASE e \in contextCalls
    <3>1. e.about \in Contexts /\ Version(e.about) \in Nat
      BY <2>2, VersionAt DEF ContextTypeOK, ContextCalls
    <3> QED BY <1>1, <2>2, <3>1 DEF AnswersAreStored
  <2> QED BY <1>2, <2>1, <2>2
<1>6. TokensAreDrawn' /\ LoadsAreAlone' /\ SavesAreAlone'
  BY <1>2, <1>3 DEF TokensAreDrawn, LoadsAreAlone, SavesAreAlone
<1>7. LoadsHold' /\ SavesHold' /\ UnreadIsUnedited'
  BY <1>2, <1>3 DEF LoadsHold, SavesHold, UnreadIsUnedited, IsLatestLoad, IsLatestSave
<1>8. TypedTextSurvives' /\ NothingUnseenIsOverwritten'
  BY <1>1, <1>3 DEF DraftsAreSafe, TypedTextSurvives, NothingUnseenIsOverwritten
<1>9. ShownIsStored'
  <2> SUFFICES ASSUME NEW t \in Contexts
               PROVE  /\ sections[t].persisted <= Version(t)'
                      /\ sections[t].persisted # 0 /\ ~sections[t].dirty =>
                           sections[t].draft = versions'[t][sections[t].persisted].text
    BY <1>3 DEF ShownIsStored
  <2>1. sections[t].persisted \in Nat /\ sections[t].persisted <= Version(t)
    BY DEF DraftsAreSafe, ShownIsStored, ContextTypeOK, Sections
  <2>2. /\ Version(t) \in Nat /\ Version(t)' \in Nat /\ Version(t) <= Version(t)'
        /\ \A v \in 1..Version(t) : versions'[t][v] = versions[t][v]
    BY <1>1, VersionAt
  <2>3. sections[t].persisted # 0 /\ ~sections[t].dirty =>
          sections[t].draft = versions[t][sections[t].persisted].text
    BY DEF DraftsAreSafe, ShownIsStored
  <2>4. sections[t].persisted # 0 => sections[t].persisted \in 1..Version(t)
    BY <2>1, <2>2
  <2> QED BY <2>1, <2>2, <2>3, <2>4
<1> QED BY <1>4, <1>5, <1>6, <1>7, <1>8, <1>9 DEF DraftsAreSafe

\* An answer comes into the window: one that is not the latest changes nothing.
LEMMA AnswerKeeps ==
  ASSUME ContextInv, NEW c \in contextCalls, LoadAnswered(c) \/ SaveAnswered(c) \/ RereadAnswered(c)
  PROVE  ContextInv'
<1> USE DEF ContextInv
<1>0. PICK t \in Contexts : t = c.about /\ c \in ContextCalls
  BY DEF ContextTypeOK, ContextCalls
<1>1. /\ UNCHANGED <<versions, looked, loadTokens, saveTokens, edits, refusals, visits>>
      /\ sections[t] \in Sections /\ kept[t] \in Nat /\ sections[t].persisted <= Version(t)
  BY DEF LoadAnswered, SaveAnswered, RereadAnswered, ContextTypeOK, DraftsAreSafe, ShownIsStored
<1>2. \A e \in contextCalls : e.about \in Contexts /\ e \in ContextCalls
  BY DEF ContextTypeOK, ContextCalls
<1>3. /\ c.answer \in {"read", "saved"} => c.base \in 1..Version(t) /\ c.base \in Nat \ {0}
                                           /\ c.base <= Version(t)
                                           /\ versions[t][c.base].text \in Nat
      /\ c.kind = "load" /\ c.answer \notin {"none", "failed"} => c.answer = "read"
      /\ c.kind = "reread" /\ c.answer \notin {"none", "failed"} => c.answer = "read"
      /\ c.answer = "saved" => versions[t][c.base].text = c.text
  <2>1. c.answer \in {"read", "saved"} => c.base \in 1..Version(t)
    BY <1>0 DEF AnswersAreStored
  <2>2. c.base \in 1..Version(t) => versions[t][c.base] \in StoredVersions
    BY VersionAt
  <2>3. c.base \in 1..Version(t) => c.base \in Nat \ {0} /\ c.base <= Version(t)
    BY VersionAt
  <2> QED BY <1>0, <2>1, <2>2, <2>3 DEF AnswersAreStored, ContextCalls, StoredVersions
\* It is not the latest, and nothing changes in the section; or a read follows a conflict.
<1>4. ASSUME UNCHANGED <<sections, kept>>,
             \/ contextCalls' = contextCalls \ {c}
             \/ /\ contextCalls' = (contextCalls \ {c}) \union {NewCall(t, "reread", c.token)}
                /\ c.kind = "save" /\ IsLatestSave(c)
      PROVE  ContextInv'
  <2>1. PICK d \in ContextCalls :
          /\ \/ contextCalls' = contextCalls \ {c}
             \/ /\ contextCalls' = (contextCalls \ {c}) \union {d}
                /\ c.kind = "save" /\ IsLatestSave(c)
          /\ d.about = t /\ d.kind = "reread" /\ d.token = c.token /\ d.answer = "none"
    <3>1. c.token \in Nat
      BY <1>0 DEF ContextCalls
    <3> QED BY <1>4, <3>1, NewCallIs
  <2>2. ContextTypeOK' /\ AnswersAreStored'
    BY <1>1, <1>4, <2>1 DEF ContextTypeOK, AnswersAreStored, Version
  <2>3. TokensAreDrawn' /\ LoadsAreAlone' /\ SavesAreAlone'
    BY <1>0, <1>1, <2>1 DEF TokensAreDrawn, LoadsAreAlone, SavesAreAlone, IsLatestSave
  <2>4. LoadsHold' /\ SavesHold'
    BY <1>0, <1>1, <1>4, <2>1 DEF LoadsHold, SavesHold, IsLatestLoad, IsLatestSave
  <2>5. UnreadIsUnedited' /\ DraftsAreSafe'
    BY <1>1, <1>4 DEF UnreadIsUnedited, DraftsAreSafe, TypedTextSurvives,
       NothingUnseenIsOverwritten, ShownIsStored, Version
  <2> QED BY <2>2, <2>3, <2>4, <2>5
\* It is the latest, and makes s of the section.
<1>5. ASSUME contextCalls' = contextCalls \ {c},
             \/ c.kind = "load" /\ IsLatestLoad(c)
             \/ c.kind # "load" /\ IsLatestSave(c),
             NEW s \in Sections, NEW k \in Nat,
             sections' = [sections EXCEPT ![t] = s], kept' = [kept EXCEPT ![t] = k],
             s.persisted <= Version(t), k # 0 => s.draft = k /\ s.dirty,
             s.persisted # 0 /\ ~s.dirty => s.draft = versions[t][s.persisted].text,
             s.persisted = 0 => k = 0 /\ ~s.dirty
      PROVE  ContextInv'
  <2>1. /\ sections' \in [Contexts -> Sections] /\ kept' \in [Contexts -> Nat]
        /\ sections'[t] = s /\ \A u \in Contexts \ {t} : sections'[u] = sections[u]
        /\ DraftsAreSafe' /\ UnreadIsUnedited'
    BY <1>1, <1>5, SectionChanged
  <2>2. ContextTypeOK' /\ AnswersAreStored'
    BY <1>1, <1>5, <2>1 DEF ContextTypeOK, AnswersAreStored, Version
  <2>3. TokensAreDrawn' /\ LoadsAreAlone' /\ SavesAreAlone'
    BY <1>1, <1>5 DEF TokensAreDrawn, LoadsAreAlone, SavesAreAlone
  \* No other call holds the section.
  <2>4. \A e \in contextCalls' :
          e.about = t => /\ ~(e.kind = "load" /\ IsLatestLoad(e))
                         /\ ~(e.kind # "load" /\ IsLatestSave(e))
    <3> SUFFICES ASSUME NEW e \in contextCalls, e # c, e.about = t,
                        \/ e.kind = "load" /\ IsLatestLoad(e)
                        \/ e.kind # "load" /\ IsLatestSave(e)
                 PROVE  FALSE
      BY <1>5
    <3>1. CASE e.kind = "load" /\ c.kind = "load"
      BY <1>0, <1>5, <3>1 DEF LoadsAreAlone, IsLatestLoad
    <3>2. CASE e.kind # "load" /\ c.kind # "load"
      BY <1>0, <1>5, <3>2 DEF SavesAreAlone, IsLatestSave
    <3>3. CASE (e.kind = "load" /\ c.kind # "load") \/ (e.kind # "load" /\ c.kind = "load")
      BY <1>0, <1>5, <3>3 DEF LoadsHold, SavesHold
    <3> QED BY <3>1, <3>2, <3>3
  <2>5. LoadsHold' /\ SavesHold'
    BY <1>1, <1>2, <1>5, <2>1, <2>4 DEF LoadsHold, SavesHold, IsLatestLoad, IsLatestSave
  <2> QED BY <2>1, <2>2, <2>3, <2>5
<1>6. ASSUME contextCalls' = contextCalls \ {c}, UNCHANGED kept,
             sections' = [sections EXCEPT ![t].status = "error"],
             \/ c.kind = "load" /\ IsLatestLoad(c)
             \/ c.kind # "load" /\ IsLatestSave(c)
      PROVE  ContextInv'
  <2> DEFINE s == [sections[t] EXCEPT !.status = "error"]
  <2>1. /\ s \in Sections /\ s.persisted = sections[t].persisted /\ s.draft = sections[t].draft
        /\ s.dirty = sections[t].dirty
    BY <1>1 DEF Sections, Statuses
  <2>2. sections' = [sections EXCEPT ![t] = s] /\ kept' = [kept EXCEPT ![t] = kept[t]]
    BY <1>6 DEF ContextTypeOK
  <2> HIDE DEF s
  <2>3. /\ kept[t] # 0 => s.draft = kept[t] /\ s.dirty
        /\ s.persisted # 0 /\ ~s.dirty => s.draft = versions[t][s.persisted].text
        /\ s.persisted = 0 => kept[t] = 0 /\ ~s.dirty
        /\ s.persisted <= Version(t)
    BY <1>1, <2>1 DEF DraftsAreSafe, TypedTextSurvives, ShownIsStored, UnreadIsUnedited
  <2> QED BY <1>1, <1>5, <1>6, <2>1, <2>2, <2>3
<1>7. ASSUME contextCalls' = contextCalls \ {c}, c.answer \in {"read", "saved"},
             NEW status \in {"ready", "saved"}, kept' = [kept EXCEPT ![t] = 0],
             sections' = [sections EXCEPT ![t] =
                            ReadSection(c.base, versions[t][c.base].text, status)],
             \/ c.kind = "load" /\ IsLatestLoad(c)
             \/ c.kind # "load" /\ IsLatestSave(c)
      PROVE  ContextInv'
  <2> DEFINE s == ReadSection(c.base, versions[t][c.base].text, status)
  <2>1. /\ s \in Sections /\ s.persisted = c.base /\ s.draft = versions[t][c.base].text /\ ~s.dirty
    BY <1>3, <1>7 DEF ReadSection, Sections, Statuses
  <2> HIDE DEF s
  <2>2. s.persisted <= Version(t) /\ 0 \in Nat
    BY <1>3, <1>7, <2>1
  <2>3. sections' = [sections EXCEPT ![t] = s]
    BY <1>7 DEF s
  <2> QED BY <1>5, <1>7, <2>1, <2>2, <2>3
<1>8. CASE LoadAnswered(c)
  <2>1. IsLatestLoad(c) => kept' = [kept EXCEPT ![t] = 0]
    BY <1>0, <1>8 DEF LoadAnswered, LoadsHold, UnreadIsUnedited, ContextTypeOK
  <2>2. c.kind = "load" /\ c.answer # "none" /\ contextCalls' = contextCalls \ {c} /\ UNCHANGED kept
    BY <1>8 DEF LoadAnswered
  <2>3. CASE ~IsLatestLoad(c)
    BY <1>4, <1>8, <2>2, <2>3 DEF LoadAnswered
  <2>4. CASE IsLatestLoad(c) /\ c.answer = "failed"
    BY <1>0, <1>6, <1>8, <2>2, <2>4 DEF LoadAnswered
  <2>5. CASE IsLatestLoad(c) /\ c.answer # "failed"
    BY <1>0, <1>3, <1>7, <1>8, <2>1, <2>2, <2>5 DEF LoadAnswered
  <2> QED BY <2>3, <2>4, <2>5
<1>9. CASE SaveAnswered(c)
  <2>1. CASE /\ IsLatestSave(c) /\ c.kind = "save" /\ c.answer = "saved"
             /\ contextCalls' = contextCalls \ {c}
             /\ sections' = [sections EXCEPT ![t] = ReadSection(c.base, c.text, "saved")]
             /\ kept' = [kept EXCEPT ![t] = 0]
    BY <1>3, <1>7, <2>1
  <2>2. CASE /\ IsLatestSave(c) /\ c.kind = "save" /\ contextCalls' = contextCalls \ {c}
             /\ sections' = [sections EXCEPT ![t].status = "error"] /\ UNCHANGED kept
    BY <1>6, <2>2
  <2>3. CASE /\ IsLatestSave(c) /\ c.kind = "save" /\ UNCHANGED <<sections, kept>>
             /\ contextCalls' = (contextCalls \ {c}) \union {NewCall(t, "reread", c.token)}
    BY <1>4, <2>3
  <2>4. CASE contextCalls' = contextCalls \ {c} /\ UNCHANGED <<sections, kept>>
    BY <1>4, <2>4
  <2> QED BY <1>0, <1>9, <2>1, <2>2, <2>3, <2>4 DEF SaveAnswered, Answered
<1>10. CASE RereadAnswered(c)
  <2>1. c.kind = "reread" /\ c.answer # "none" /\ contextCalls' = contextCalls \ {c} /\ UNCHANGED kept
    BY <1>10 DEF RereadAnswered
  <2>2. CASE ~IsLatestSave(c)
    BY <1>4, <1>10, <2>1, <2>2 DEF RereadAnswered
  <2>3. CASE IsLatestSave(c) /\ c.answer = "failed"
    BY <1>0, <1>6, <1>10, <2>1, <2>3 DEF RereadAnswered
  <2>4. CASE IsLatestSave(c) /\ c.answer # "failed"
    <3> DEFINE s == [sections[t] EXCEPT !.persisted = c.base, !.status = "conflict"]
    <3>1. c.base \in Nat \ {0} /\ c.base <= Version(t)
      BY <1>3, <2>1, <2>4
    <3>2. /\ s \in Sections /\ s.persisted = c.base /\ s.draft = sections[t].draft
          /\ s.dirty = sections[t].dirty
      BY <1>1, <3>1 DEF Sections, Statuses
    <3>3. sections' = [sections EXCEPT ![t] = s] /\ kept' = [kept EXCEPT ![t] = kept[t]]
      BY <1>0, <1>10, <2>4 DEF RereadAnswered, ContextTypeOK
    <3> HIDE DEF s
    <3>4. s.dirty /\ (kept[t] # 0 => s.draft = kept[t])
      BY <1>0, <2>1, <2>4, <3>2 DEF SavesHold, DraftsAreSafe, TypedTextSurvives
    <3> QED BY <1>1, <1>5, <2>1, <2>4, <3>1, <3>2, <3>3, <3>4
  <2> QED BY <2>2, <2>3, <2>4
<1> QED BY <1>8, <1>9, <1>10

\* The invariant of the contexts holds throughout.
LEMMA ContextInvHolds == ContextSpec => []ContextInv
<1>1. ContextInit => ContextInv
  BY ContextInitial
<1>2. ContextInv /\ [ContextNext]_contextVars => ContextInv'
  <2> SUFFICES ASSUME ContextInv, [ContextNext]_contextVars PROVE ContextInv'
    OBVIOUS
  <2>1. CASE UNCHANGED contextVars
    BY <2>1 DEF contextVars, ContextInv, ContextTypeOK, AnswersAreStored, TokensAreDrawn,
       LoadsAreAlone, SavesAreAlone, LoadsHold, SavesHold, UnreadIsUnedited, DraftsAreSafe,
       TypedTextSurvives, NothingUnseenIsOverwritten, ShownIsStored, IsLatestLoad, IsLatestSave,
       Version
  <2> QED BY <2>1, LookKeeps, EditKeeps, SaveKeeps, CloseKeeps, ServiceKeeps, AnswerKeeps
          DEF ContextNext, ContextCallStep
<1> QED BY <1>1, <1>2, PTL DEF ContextSpec

\* What the user types in the settings is safe, with every number of contexts, edits and calls
\* that fail or are answered late.
THEOREM DraftsAreSafeHolds == ContextSpec => []DraftsAreSafe
BY ContextInvHolds, PTL DEF ContextInv

-----------------------------------------------------------------------------
(* What is shown and spoken: the inductive invariant.                      *)

Speeches == {"idle", "off", "queued", "playing", "unavailable"}
Shown == [about : Explanations, show : Nat \ {0}, parts : Nat, speech : Speeches,
          st : {"preparing", "streaming", "ready", "canceled", "unavailable"}]
PartStates == {"waiting", "leading", "scheduled", "skipped"}
Gates == [show : Nat \ {0}, parts : Seq(PartStates), over : BOOLEAN]
SpeechTasks == [part : Nat \ {0}, show : Nat \ {0}, at : {"next", "speak", "play"},
                live : BOOLEAN, old : BOOLEAN]

\* What is prepared has chunks once it streams or is ready.
PreparedOK(e) ==
  prepared[e].st # "none" =>
    /\ {"st", "parts", "scope"} \subseteq DOMAIN prepared[e] /\ prepared[e].parts \in Nat
    /\ prepared[e].st \in {"preparing", "streaming", "ready", "failed", "canceled"}
    /\ prepared[e].st \in {"streaming", "ready"} => prepared[e].parts # 0

\* The captions are those of the explanation that is shown, the latest there was.
ScreenOK ==
  /\ {"explanation", "remark", "on", "scope"} \subseteq DOMAIN screen
  /\ screen.explanation \in Shown \union {Nothing}
  /\ captions \in Gates \union {NoCaptions}
  /\ screen.explanation.show <= shows
  /\ captions # NoCaptions => captions.show = screen.explanation.show
  /\ screen.explanation # Nothing => prepared[screen.explanation.about].st # "none"

SpeechTypeOK ==
  /\ shows \in Nat /\ chain \in Seq(SpeechTasks)
  /\ DOMAIN prepared = Explanations /\ \A e \in Explanations : "st" \in DOMAIN prepared[e] /\ PreparedOK(e)
  /\ \A r \in releases : "show" \in DOMAIN r
  /\ \A d \in called : d[2] \in Nat

\* A caption that leads has been confirmed; captions are scheduled one after the other.
CaptionsAreOrdered ==
  captions # NoCaptions =>
    \A k \in DOMAIN captions.parts :
      /\ captions.parts[k] \in {"leading", "scheduled"} => <<captions.show, k>> \in confirmed
      /\ captions.parts[k] = "scheduled" =>
           \A j \in 1..k-1 : captions.parts[j] \in {"scheduled", "skipped"}

\* Chunk k of what was shown as s was scheduled, and still is if it is shown.
WasScheduled(s, k) ==
  /\ s <= shows
  /\ s = screen.explanation.show =>
       captions # NoCaptions /\ k \in DOMAIN captions.parts /\ captions.parts[k] = "scheduled"

\* The tasks of a show follow each other, and what was spoken of it.
ChainIsOrdered ==
  \A i \in 1..Len(chain) :
    /\ chain[i].old => ~chain[i].live
    /\ \A j \in 1..i-1 : chain[j].show = chain[i].show => chain[j].part < chain[i].part
ChainIsBacked ==
  \A i \in 1..Len(chain) :
    /\ <<chain[i].show, chain[i].part>> \in confirmed
    /\ WasScheduled(chain[i].show, chain[i].part)
    /\ chain[i].live /\ chain[i].at = "next" =>
         \A d \in called : d[1] = chain[i].show => d[2] < chain[i].part
CallsAreBacked ==
  /\ \A d \in called : d[2] # 0 => d[1] \in Nat \ {0} /\ WasScheduled(d[1], d[2])
  /\ \A r \in releases : <<r.show, 0>> \in confirmed

SpeechInv == /\ SpeechTypeOK /\ ScreenOK /\ CaptionsAreOrdered
             /\ ChainIsOrdered /\ ChainIsBacked /\ CallsAreBacked

\* Before anything is shown nothing is confirmed, scheduled or called.
LEMMA SpeechBegins == NarrationViewInit => SpeechInv
<1> SUFFICES ASSUME NarrationViewInit PROVE SpeechInv
  OBVIOUS
<1>1. /\ screen.explanation = Nothing /\ {"explanation", "remark", "on", "scope"} \subseteq DOMAIN screen
      /\ captions = NoCaptions /\ chain = << >> /\ releases = {} /\ shows = 0 /\ called = {}
  BY DEF NarrationViewInit
<1>2. /\ DOMAIN prepared = Explanations
      /\ \A e \in Explanations : prepared[e] = [st |-> "none"]
  BY DEF NarrationViewInit, NotPrepared
<1>3. Len(chain) = 0 /\ chain \in Seq(SpeechTasks)
  BY <1>1
<1>4. SpeechTypeOK /\ ScreenOK
  BY <1>1, <1>2, <1>3 DEF SpeechTypeOK, ScreenOK, PreparedOK, Nothing, NoCaptions
<1> QED BY <1>1, <1>3, <1>4 DEF SpeechInv, CaptionsAreOrdered, ChainIsOrdered, ChainIsBacked, CallsAreBacked

\* A function over 1..n is a sequence.
LEMMA ListIsSeq ==
  ASSUME NEW S, NEW n \in Nat, NEW f \in [1..n -> S]
  PROVE  f \in Seq(S) /\ Len(f) = n
<1>1. f \in Seq(S)
  BY SeqDef
<1> QED BY <1>1, LenProperties

\* c has tasks of the chain in their order, and none of them more alive.
Thinned(c) ==
  /\ c \in Seq(SpeechTasks)
  /\ \A i \in 1..Len(c) :
       /\ c[i].old => ~c[i].live
       /\ \A j \in 1..i-1 : c[j].show = c[i].show => c[j].part < c[i].part
       /\ \E k \in 1..Len(chain) :
            /\ chain[k].show = c[i].show /\ chain[k].part = c[i].part
            /\ c[i].live /\ c[i].at = "next" => chain[k].live /\ chain[k].at = "next"

\* A new epoch, in the chain or in a new one, keeps the tasks.
LEMMA EpochThins ==
  ASSUME NEW c, Thinned(c)
  PROVE  Thinned(Staled(c)) /\ Thinned(Staled(Left(c)))
<1>1. c \in Seq(SpeechTasks) /\ Len(c) \in Nat /\ DOMAIN c = 1..Len(c)
      /\ \A i \in 1..Len(c) : c[i] \in SpeechTasks
  BY ElementOfSeq, LenProperties DEF Thinned
<1>2. ASSUME NEW s \in [1..Len(c) -> SpeechTasks],
             \A i \in 1..Len(c) : ~s[i].live /\ s[i].show = c[i].show /\ s[i].part = c[i].part
      PROVE  Thinned(s)
  <2>1. s \in Seq(SpeechTasks) /\ Len(s) = Len(c)
    BY <1>1, ListIsSeq
  <2> QED BY <1>1, <1>2, <2>1 DEF Thinned
<1>3. /\ Staled(c) \in [1..Len(c) -> SpeechTasks]
      /\ \A i \in 1..Len(c) :
           ~Staled(c)[i].live /\ Staled(c)[i].show = c[i].show /\ Staled(c)[i].part = c[i].part
  BY <1>1 DEF Staled, SpeechTasks
<1>4. /\ Left(c) \in [1..Len(c) -> SpeechTasks]
      /\ \A i \in 1..Len(c) : Left(c)[i].show = c[i].show /\ Left(c)[i].part = c[i].part
  BY <1>1 DEF Left, SpeechTasks
<1>5. /\ Staled(Left(c)) \in [1..Len(c) -> SpeechTasks]
      /\ \A i \in 1..Len(c) :
           /\ ~Staled(Left(c))[i].live
           /\ Staled(Left(c))[i].show = c[i].show /\ Staled(Left(c))[i].part = c[i].part
  <2> DEFINE d == Left(c)
  <2> HIDE DEF d
  <2>1. /\ d \in [1..Len(c) -> SpeechTasks]
        /\ \A i \in 1..Len(c) : d[i].show = c[i].show /\ d[i].part = c[i].part
    BY <1>4 DEF d
  <2>2. /\ Staled(d) \in [1..Len(c) -> SpeechTasks]
        /\ \A i \in 1..Len(c) :
             ~Staled(d)[i].live /\ Staled(d)[i].show = d[i].show /\ Staled(d)[i].part = d[i].part
    BY <2>1 DEF Staled, SpeechTasks
  <2> QED BY <2>1, <2>2 DEF d
<1> QED BY <1>2, <1>3, <1>5

\* The chain without one of its tasks.
LEMMA FinishedThins ==
  ASSUME SpeechInv, NEW i \in 1..Len(chain)
  PROVE  Thinned(Finished(i))
<1>1. /\ chain \in Seq(SpeechTasks) /\ Len(chain) \in Nat
      /\ \A k \in 1..Len(chain) : chain[k] \in SpeechTasks
  BY ElementOfSeq, LenProperties DEF SpeechInv, SpeechTypeOK
<1> DEFINE a == SubSeq(chain, 1, i - 1)
           b == SubSeq(chain, i + 1, Len(chain))
           c == Finished(i)
<1>2. /\ a \in Seq(SpeechTasks) /\ Len(a) = i - 1
      /\ \A k \in 1..i-1 : a[k] = chain[k]
  BY <1>1, SubSeqProperties
<1>3. /\ b \in Seq(SpeechTasks) /\ Len(b) = Len(chain) - i
      /\ \A k \in 1..Len(chain)-i : b[k] = chain[i + k]
  BY <1>1, SubSeqProperties
<1>4. /\ c \in Seq(SpeechTasks) /\ Len(c) = Len(chain) - 1
      /\ \A k \in 1..Len(c) : c[k] = IF k < i THEN chain[k] ELSE chain[k + 1]
  <2> HIDE DEF a, b
  <2>1. c = a \o b
    BY DEF Finished, RemoveAt, a, b
  <2> HIDE DEF c
  <2>2. c \in Seq(SpeechTasks) /\ Len(c) = Len(a) + Len(b)
        /\ \A k \in 1..Len(a)+Len(b) : c[k] = IF k <= Len(a) THEN a[k] ELSE b[k - Len(a)]
    BY <1>2, <1>3, <2>1, ConcatProperties
  <2>3. Len(c) = Len(chain) - 1
    BY <1>1, <1>2, <1>3, <2>2
  <2>4. ASSUME NEW k \in 1..Len(c) PROVE c[k] = IF k < i THEN chain[k] ELSE chain[k + 1]
    <3>1. CASE k < i
      <4>1. k \in 1..i-1 /\ k \in 1..Len(a)+Len(b) /\ k <= Len(a)
        BY <1>1, <1>2, <1>3, <2>3, <3>1
      <4> QED BY <1>2, <2>2, <3>1, <4>1
    <3>2. CASE ~(k < i)
      <4>1. /\ k - Len(a) \in 1..Len(chain)-i /\ k \in 1..Len(a)+Len(b) /\ ~(k <= Len(a))
            /\ i + (k - Len(a)) = k + 1
        BY <1>1, <1>2, <1>3, <2>3, <3>2
      <4> QED BY <1>3, <2>2, <3>2, <4>1
    <3> QED BY <3>1, <3>2
  <2> QED BY <2>2, <2>3, <2>4
<1> HIDE DEF a, b, c
<1>5. ASSUME NEW k \in 1..Len(c) PROVE
        \E m \in 1..Len(chain) : c[k] = chain[m] /\ (m = IF k < i THEN k ELSE k + 1)
  BY <1>1, <1>4
<1>6. ChainIsOrdered
  BY DEF SpeechInv
<1>7. ASSUME NEW k \in 1..Len(c), NEW j \in 1..k-1, c[j].show = c[k].show PROVE c[j].part < c[k].part
  <2>1. PICK m \in 1..Len(chain) : c[k] = chain[m] /\ (m = IF k < i THEN k ELSE k + 1)
    BY <1>5
  <2>2. j \in 1..Len(c)
    BY <1>1, <1>4
  <2>3. PICK n \in 1..Len(chain) : c[j] = chain[n] /\ (n = IF j < i THEN j ELSE j + 1)
    BY <1>5, <2>2
  <2>4. n \in 1..m-1
    BY <1>1, <2>1, <2>3
  <2> QED BY <1>6, <1>7, <2>1, <2>3, <2>4 DEF ChainIsOrdered
<1>8. ASSUME NEW k \in 1..Len(c) PROVE c[k].old => ~c[k].live
  BY <1>5, <1>6 DEF ChainIsOrdered
<1>9. Thinned(c)
  BY <1>4, <1>5, <1>7, <1>8 DEF Thinned
<1> QED BY <1>9 DEF c

\* The chain itself, and the chain with a task of which the speech goes on.
LEMMA ChainThins == ASSUME SpeechInv PROVE Thinned(chain)
<1>1. chain \in Seq(SpeechTasks) /\ Len(chain) \in Nat
  BY LenProperties DEF SpeechInv, SpeechTypeOK
<1> QED BY <1>1 DEF SpeechInv, ChainIsOrdered, Thinned

Goings == {"speak", "play"}
\* A task that goes on leaves the chain in its order.
LEMMA TaskThins ==
  ASSUME SpeechInv, NEW i \in 1..Len(chain), NEW s \in Goings, chain' = [chain EXCEPT ![i].at = s]
  PROVE  /\ Thinned(chain') /\ Len(chain') = Len(chain)
         /\ \A k \in 1..Len(chain) :
              /\ chain'[k].show = chain[k].show /\ chain'[k].part = chain[k].part
              /\ chain'[k].live = chain[k].live /\ chain'[k].old = chain[k].old
              /\ chain'[k].at = IF k = i THEN s ELSE chain[k].at
<1>0. /\ Len(chain) \in Nat /\ DOMAIN chain = 1..Len(chain)
      /\ chain \in [1..Len(chain) -> SpeechTasks]
      /\ \A k \in 1..Len(chain) : chain[k] \in SpeechTasks
  BY ElementOfSeq, LenProperties DEF SpeechInv, SpeechTypeOK
<1>1. /\ chain' \in [1..Len(chain) -> SpeechTasks]
      /\ \A k \in 1..Len(chain) :
           /\ chain'[k].show = chain[k].show /\ chain'[k].part = chain[k].part
           /\ chain'[k].live = chain[k].live /\ chain'[k].old = chain[k].old
           /\ chain'[k].at = IF k = i THEN s ELSE chain[k].at
  BY <1>0 DEF SpeechTasks, Goings
<1>2. chain' \in Seq(SpeechTasks) /\ Len(chain') = Len(chain)
  BY <1>0, <1>1, ListIsSeq
<1>3. ChainIsOrdered
  BY DEF SpeechInv
<1>4. Thinned(chain')
  <2>1. ASSUME NEW k \in 1..Len(chain)
        PROVE  /\ chain'[k].old => ~chain'[k].live
               /\ \A j \in 1..k-1 : chain'[j].show = chain'[k].show => chain'[j].part < chain'[k].part
    <3>1. \A j \in 1..k-1 : j \in 1..Len(chain)
      BY <1>0
    <3> QED BY <1>1, <1>3, <3>1 DEF ChainIsOrdered
  <2>2. \A k \in 1..Len(chain) :
          /\ chain[k].show = chain'[k].show /\ chain[k].part = chain'[k].part
          /\ chain'[k].live /\ chain'[k].at = "next" => chain[k].live /\ chain[k].at = "next"
    BY <1>1 DEF Goings
  <2> QED BY <1>2, <2>1, <2>2 DEF Thinned
<1> QED BY <1>1, <1>2, <1>4

\* Captions that go on: what was scheduled stays so, and what is new was not confirmed.
GoesOn(g) ==
  /\ captions # NoCaptions /\ g # NoCaptions
  /\ g.show = captions.show /\ DOMAIN captions.parts \subseteq DOMAIN g.parts
  /\ \A k \in DOMAIN captions.parts :
       g.parts[k] = captions.parts[k] \/ (captions.parts[k] # "scheduled" /\ g.parts[k] = "skipped")
  /\ \A k \in DOMAIN g.parts \ DOMAIN captions.parts : g.parts[k] \in {"waiting", "skipped"}

\* Captions of another show, or the first of this one.
IsFresh(g) ==
  g # NoCaptions => \A k \in DOMAIN g.parts : g.parts[k] \in {"waiting", "skipped"}
CaptionsMove ==
  \/ GoesOn(captions') /\ screen'.explanation.show = screen.explanation.show
  \/ /\ IsFresh(captions')
     /\ \/ screen'.explanation.show = 0 \/ screen'.explanation.show > shows
        \/ captions = NoCaptions /\ screen'.explanation.show = screen.explanation.show

\* Steps in which nothing is scheduled and nothing spoken.
LEMMA SpeechKeeps ==
  ASSUME SpeechInv, Thinned(chain'), called' = called, confirmed' = confirmed,
         shows' \in Nat, shows <= shows', CaptionsMove, ScreenOK',
         \A r \in releases' : "show" \in DOMAIN r /\ \E q \in releases : q.show = r.show,
         DOMAIN prepared' = Explanations,
         \A e \in Explanations : "st" \in DOMAIN prepared'[e] /\ PreparedOK(e)'
  PROVE  SpeechInv'
<1>1. /\ SpeechTypeOK /\ ScreenOK /\ CaptionsAreOrdered /\ ChainIsOrdered /\ ChainIsBacked /\ CallsAreBacked
      /\ shows \in Nat /\ Len(chain) \in Nat
  BY LenProperties DEF SpeechInv, SpeechTypeOK
<1>2. /\ chain' \in Seq(SpeechTasks) /\ Len(chain') \in Nat /\ \A i \in 1..Len(chain') : chain'[i] \in SpeechTasks
  BY ElementOfSeq, LenProperties DEF Thinned
<1>3. SpeechTypeOK'
  BY <1>1, <1>2 DEF SpeechTypeOK
<1>4. screen.explanation.show \in Nat /\ screen'.explanation.show \in Nat
  BY <1>1 DEF ScreenOK, Shown, Nothing
<1>5. ASSUME NEW s \in Nat \ {0}, NEW k, WasScheduled(s, k) PROVE WasScheduled(s, k)'
  <2>1. s <= shows'
    BY <1>1, <1>5 DEF WasScheduled
  <2>2. CASE GoesOn(captions') /\ screen'.explanation.show = screen.explanation.show
    BY <1>5, <2>1, <2>2 DEF WasScheduled, GoesOn
  <2>3. CASE screen'.explanation.show = 0 \/ screen'.explanation.show > shows
    BY <1>1, <1>4, <1>5, <2>1, <2>3 DEF WasScheduled
  <2>4. CASE captions = NoCaptions /\ screen'.explanation.show = screen.explanation.show
    BY <1>5, <2>1, <2>4 DEF WasScheduled
  <2> QED BY <2>2, <2>3, <2>4 DEF CaptionsMove
<1>6. CaptionsAreOrdered'
  <2>1. CASE IsFresh(captions')
    BY <2>1 DEF IsFresh, CaptionsAreOrdered
  <2>2. CASE GoesOn(captions')
    <3>1. SUFFICES ASSUME NEW k \in DOMAIN captions'.parts
                   PROVE  /\ captions'.parts[k] \in {"leading", "scheduled"} => <<captions'.show, k>> \in confirmed
                          /\ captions'.parts[k] = "scheduled" =>
                               \A j \in 1..k-1 : captions'.parts[j] \in {"scheduled", "skipped"}
      BY DEF CaptionsAreOrdered
    <3>2. CASE k \notin DOMAIN captions.parts
      BY <2>2, <3>2 DEF GoesOn
    <3>3. CASE k \in DOMAIN captions.parts /\ captions'.parts[k] = "skipped"
      BY <3>3
    <3>4. CASE k \in DOMAIN captions.parts /\ captions'.parts[k] = captions.parts[k]
      <4>1. captions \in Gates /\ captions.parts \in Seq(PartStates)
        BY <1>1, <2>2 DEF ScreenOK, GoesOn, Gates
      <4>2. DOMAIN captions.parts = 1..Len(captions.parts) /\ Len(captions.parts) \in Nat
        BY <4>1, LenProperties
      <4>3. \A j \in 1..k-1 : j \in DOMAIN captions.parts
        BY <3>4, <4>2
      <4> QED BY <1>1, <2>2, <3>4, <4>3 DEF CaptionsAreOrdered, GoesOn
    <3> QED BY <2>2, <3>2, <3>3, <3>4 DEF GoesOn
  <2> QED BY <2>1, <2>2 DEF CaptionsMove
<1>7. ChainIsOrdered'
  BY DEF Thinned, ChainIsOrdered
<1>8. ChainIsBacked'
  <2>1. ASSUME NEW i \in 1..Len(chain')
        PROVE  /\ <<chain'[i].show, chain'[i].part>> \in confirmed
               /\ WasScheduled(chain[i].show, chain[i].part)'
               /\ chain'[i].live /\ chain'[i].at = "next" =>
                    \A d \in called : d[1] = chain'[i].show => d[2] < chain'[i].part
    <3>1. PICK k \in 1..Len(chain) :
            /\ chain[k].show = chain'[i].show /\ chain[k].part = chain'[i].part
            /\ chain'[i].live /\ chain'[i].at = "next" => chain[k].live /\ chain[k].at = "next"
      BY <2>1 DEF Thinned
    <3>2. PICK s \in Nat \ {0}, p \in Nat \ {0} : s = chain'[i].show /\ p = chain'[i].part
      BY <1>2, <2>1 DEF SpeechTasks
    <3>3. WasScheduled(s, p)'
      BY <1>1, <1>5, <3>1, <3>2 DEF ChainIsBacked
    <3>4. WasScheduled(chain[i].show, chain[i].part)'
      BY <3>2, <3>3 DEF WasScheduled
    <3> QED BY <1>1, <3>1, <3>4 DEF ChainIsBacked
  <2> QED BY <2>1 DEF ChainIsBacked
<1>9. CallsAreBacked'
  <2>1. ASSUME NEW d \in called, d[2] # 0 PROVE d[1] \in Nat \ {0} /\ WasScheduled(d[1], d[2])'
    <3>1. d[1] \in Nat \ {0} /\ WasScheduled(d[1], d[2])
      BY <1>1, <2>1 DEF CallsAreBacked
    <3> QED BY <1>5, <3>1
  <2> QED BY <1>1, <2>1 DEF CallsAreBacked
<1> QED BY <1>3, <1>6, <1>7, <1>8, <1>9 DEF SpeechInv

\* The same explanation is shown, as its status or speech may change; its captions go on.
SameShown(x) ==
  /\ x \in Shown \union {Nothing} /\ x.show = screen.explanation.show
  /\ x # Nothing => x.about = screen.explanation.about
GateStays(g) == IF captions = NoCaptions THEN g = NoCaptions ELSE g \in Gates /\ GoesOn(g)
ReleasesStay(rs) == \A r \in rs : "show" \in DOMAIN r /\ \E q \in releases : q.show = r.show
ScreenStays(s) ==
  {"explanation", "remark", "on", "scope"} \subseteq DOMAIN s /\ SameShown(s.explanation)

\* A step that only ends tasks, releases and captions keeps the invariant.
LEMMA SpeechStays ==
  ASSUME SpeechInv, Thinned(chain'), called' = called, confirmed' = confirmed, prepared' = prepared,
         shows' \in Nat, shows <= shows', ScreenStays(screen'), GateStays(captions'), ReleasesStay(releases')
  PROVE  SpeechInv'
<1>1. SpeechTypeOK /\ ScreenOK
  BY DEF SpeechInv
<1>2. screen.explanation.show \in Nat /\ shows \in Nat
  BY <1>1 DEF ScreenOK, SpeechTypeOK, Shown, Nothing
<1>3. CaptionsMove
  BY DEF GateStays, ScreenStays, SameShown, CaptionsMove, IsFresh
<1>4. ScreenOK'
  BY <1>1, <1>2 DEF ScreenOK, GateStays, GoesOn, ScreenStays, SameShown, Shown, Nothing, Gates, NoCaptions
<1>5. \A e \in Explanations : "st" \in DOMAIN prepared'[e] /\ PreparedOK(e)'
  BY <1>1 DEF SpeechTypeOK, PreparedOK
<1>6. DOMAIN prepared' = Explanations
  BY <1>1 DEF SpeechTypeOK
<1> QED BY <1>3, <1>4, <1>5, <1>6, SpeechKeeps DEF ReleasesStay

\* Skipping what has not been scheduled leaves a gate with its other parts.
LEMMA SkippedGate ==
  ASSUME NEW g \in Gates
  PROVE  /\ Skipped(g) \in Gates /\ Skipped(g).show = g.show
         /\ Skipped(g) = NoCaptions <=> g = NoCaptions
         /\ DOMAIN Skipped(g).parts = DOMAIN g.parts
         /\ \A k \in DOMAIN g.parts :
              Skipped(g).parts[k] = IF g.parts[k] \in {"waiting", "leading"} THEN "skipped" ELSE g.parts[k]
<1>1. g # NoCaptions /\ g.parts \in Seq(PartStates) /\ Len(g.parts) \in Nat
      /\ DOMAIN g.parts = 1..Len(g.parts) /\ \A k \in DOMAIN g.parts : g.parts[k] \in PartStates
  BY LenProperties, ElementOfSeq DEF Gates, NoCaptions
<1> DEFINE q == [k \in DOMAIN g.parts |-> IF g.parts[k] \in {"waiting", "leading"} THEN "skipped" ELSE g.parts[k]]
<1>2. Skipped(g) = [g EXCEPT !.parts = q]
  BY <1>1 DEF Skipped, Gates
<1>3. q \in [1..Len(g.parts) -> PartStates]
  BY <1>1 DEF PartStates
<1>4. q \in Seq(PartStates)
  BY <1>1, <1>3, ListIsSeq
<1>5. /\ DOMAIN q = DOMAIN g.parts
      /\ \A k \in DOMAIN g.parts :
           q[k] = IF g.parts[k] \in {"waiting", "leading"} THEN "skipped" ELSE g.parts[k]
  OBVIOUS
<1> HIDE DEF q
<1>6. Skipped(g) \in Gates /\ Skipped(g).show = g.show /\ Skipped(g).parts = q
  BY <1>2, <1>4 DEF Gates
<1>7. Skipped(g) # NoCaptions
  BY <1>6 DEF Gates, NoCaptions
<1> QED BY <1>1, <1>5, <1>6, <1>7

\* A gate may be kept, closed or skipped.
LEMMA GatesStay ==
  ASSUME SpeechInv
  PROVE  /\ GateStays(captions) /\ GateStays(Skipped(captions))
         /\ captions # NoCaptions =>
              /\ GateStays([captions EXCEPT !.over = TRUE])
              /\ GateStays(Skipped([captions EXCEPT !.over = TRUE]))
<1>1. captions \in Gates \union {NoCaptions}
  BY DEF SpeechInv, ScreenOK
<1>2. CASE captions = NoCaptions
  BY <1>2 DEF GateStays, Skipped
<1>3. CASE captions # NoCaptions
  <2>1. captions \in Gates /\ \A k \in DOMAIN captions.parts : captions.parts[k] \in PartStates
    <3>1. captions \in Gates /\ captions.parts \in Seq(PartStates)
      BY <1>1, <1>3 DEF Gates
    <3> QED BY <3>1, LenProperties, ElementOfSeq
  <2> DEFINE g == [captions EXCEPT !.over = TRUE]
  <2>2. g \in Gates /\ g.show = captions.show /\ g.parts = captions.parts /\ g # NoCaptions
    BY <2>1 DEF Gates, NoCaptions
  <2> HIDE DEF g
  <2>3. GateStays(captions) /\ GateStays(g)
    BY <1>3, <2>1, <2>2 DEF GateStays, GoesOn
  <2>4. GateStays(Skipped(captions))
    BY <1>3, <2>1, SkippedGate DEF GateStays, GoesOn
  <2>5. /\ Skipped(g) \in Gates /\ Skipped(g) # NoCaptions /\ Skipped(g).show = captions.show
        /\ DOMAIN Skipped(g).parts = DOMAIN captions.parts
        /\ \A k \in DOMAIN captions.parts :
             Skipped(g).parts[k] = IF captions.parts[k] \in {"waiting", "leading"} THEN "skipped" ELSE captions.parts[k]
    BY <1>3, <2>2, SkippedGate
  <2>6. GateStays(Skipped(g))
    BY <1>3, <2>5 DEF GateStays, GoesOn
  <2> QED BY <2>3, <2>4, <2>6 DEF g
<1> QED BY <1>2, <1>3

\* A new epoch, which may be one of a new chain.
LEMMA EpochStays ==
  ASSUME SpeechInv
  PROVE  /\ UNCHANGED <<chain, releases>> => Thinned(chain') /\ ReleasesStay(releases')
         /\ NewEpoch(chain) => Thinned(chain') /\ ReleasesStay(releases')
         /\ NewChain => Thinned(chain') /\ ReleasesStay(releases')
<1>1. Thinned(chain) /\ Thinned(Staled(chain)) /\ Thinned(Staled(Left(chain)))
  BY ChainThins, EpochThins
<1>2. \A r \in releases : "show" \in DOMAIN r
  BY DEF SpeechInv, SpeechTypeOK
<1>3. ReleasesStay(releases) /\ ReleasesStay({[r EXCEPT !.live = FALSE] : r \in releases})
  BY <1>2 DEF ReleasesStay
<1>4. UNCHANGED <<chain, releases>> => Thinned(chain') /\ ReleasesStay(releases')
  <2>1. SUFFICES ASSUME chain' = chain, releases' = releases PROVE Thinned(chain') /\ ReleasesStay(releases')
    OBVIOUS
  <2> QED BY <1>1, <1>3, <2>1
<1>5. ASSUME NewEpoch(chain) PROVE Thinned(chain') /\ ReleasesStay(releases')
  <2>1. chain' = Staled(chain) /\ releases' = {[r EXCEPT !.live = FALSE] : r \in releases}
    BY <1>5 DEF NewEpoch
  <2> QED BY <1>1, <1>3, <2>1
<1>6. ASSUME NewChain PROVE Thinned(chain') /\ ReleasesStay(releases')
  <2>1. chain' = Staled(Left(chain)) /\ releases' = {[r EXCEPT !.live = FALSE] : r \in releases}
    BY <1>6 DEF NewChain, NewEpoch
  <2> QED BY <1>1, <1>3, <2>1
<1> QED BY <1>4, <1>5, <1>6

\* What changes nothing of what is shown, and what a silence makes of it.
LEMMA ScreenIsSame ==
  ASSUME SpeechInv
  PROVE  /\ ScreenStays(screen) /\ ScreenStays(Silenced(screen)) /\ ScreenStays([Silenced(screen) EXCEPT !.on = FALSE])
         /\ \A r : ScreenStays([screen EXCEPT !.remark = r])
         /\ \A b : ScreenStays([screen EXCEPT !.on = b])
         /\ \A s : ScreenStays([screen EXCEPT !.scope = s])
         /\ \A speech : ScreenStays([screen EXCEPT !.remark.speech = speech])
         /\ \A speech \in Speeches : /\ ScreenStays([screen EXCEPT !.explanation.speech = speech])
                                     /\ ScreenStays([screen EXCEPT !.explanation = WithSpeech(@, speech)])
<1>1. /\ {"explanation", "remark", "on", "scope"} \subseteq DOMAIN screen
      /\ screen.explanation \in Shown \union {Nothing}
  BY DEF SpeechInv, ScreenOK
<1>2. SameShown(screen.explanation)
  BY <1>1 DEF SameShown
<1>3. ASSUME NEW speech \in Speeches
      PROVE  SameShown(WithSpeech(screen.explanation, speech)) /\ SameShown([screen.explanation EXCEPT !.speech = speech])
  <2>1. CASE screen.explanation = Nothing
    <3>1. [screen.explanation EXCEPT !.speech = speech] = Nothing
      BY <2>1 DEF Nothing
    <3> QED BY <2>1, <3>1 DEF SameShown, WithSpeech
  <2>2. CASE screen.explanation \in Shown
    <3>1. screen.explanation # Nothing
      BY <2>2 DEF Shown, Nothing
    <3>2. /\ [screen.explanation EXCEPT !.speech = speech] \in Shown
          /\ [screen.explanation EXCEPT !.speech = speech].show = screen.explanation.show
          /\ [screen.explanation EXCEPT !.speech = speech].about = screen.explanation.about
      BY <2>2 DEF Shown
    <3> QED BY <3>1, <3>2 DEF SameShown, WithSpeech
  <2> QED BY <1>1, <2>1, <2>2
<1>4. ASSUME NEW speech \in Speeches
      PROVE  /\ ScreenStays([screen EXCEPT !.explanation.speech = speech])
             /\ ScreenStays([screen EXCEPT !.explanation = WithSpeech(@, speech)])
  BY <1>1, <1>3 DEF ScreenStays
<1>5. /\ ScreenStays(screen)
      /\ \A r : ScreenStays([screen EXCEPT !.remark = r])
      /\ \A b : ScreenStays([screen EXCEPT !.on = b])
      /\ \A s : ScreenStays([screen EXCEPT !.scope = s])
      /\ \A speech : ScreenStays([screen EXCEPT !.remark.speech = speech])
  BY <1>1, <1>2 DEF ScreenStays
<1>6. ScreenStays(Silenced(screen)) /\ ScreenStays([Silenced(screen) EXCEPT !.on = FALSE])
  <2>1. IdleSpeech(screen.on) \in Speeches
    BY DEF IdleSpeech, Speeches
  <2>2. PICK x : /\ x = screen.explanation \/ x = WithSpeech(screen.explanation, IdleSpeech(screen.on))
                 /\ x = IF screen.explanation = Nothing \/ screen.explanation.st = "unavailable"
                           \/ (captions # NoCaptions /\ captions.over)
                        THEN screen.explanation ELSE WithSpeech(screen.explanation, IdleSpeech(screen.on))
    OBVIOUS
  <2>3. SameShown(x)
    BY <1>2, <1>3, <2>1, <2>2
  <2>4. PICK m : m = WithSpeech(screen.remark, IdleSpeech(screen.on))
    OBVIOUS
  <2>5. Silenced(screen) = [screen EXCEPT !.remark = m, !.explanation = x]
    BY <1>1, <2>2, <2>4 DEF Silenced
  <2>6. Silenced(screen).explanation = x /\ DOMAIN Silenced(screen) = DOMAIN screen
        /\ [Silenced(screen) EXCEPT !.on = FALSE].explanation = x
        /\ DOMAIN [Silenced(screen) EXCEPT !.on = FALSE] = DOMAIN screen
    BY <1>1, <2>5
  <2> QED BY <1>1, <2>3, <2>6 DEF ScreenStays
<1> QED BY <1>4, <1>5, <1>6

\* Nothing that is spoken about changes but the releases and the screen.
LEMMA QuietKeeps ==
  ASSUME SpeechInv, UNCHANGED <<captions, chain, prepared, shows, confirmed, called>>,
         ScreenStays(screen'), ReleasesStay(releases')
  PROVE  SpeechInv'
<1>1. Thinned(chain') /\ GateStays(captions')
  <2>1. Thinned(chain) /\ GateStays(captions)
    BY ChainThins, GatesStay
  <2>2. chain' = chain /\ captions' = captions
    OBVIOUS
  <2> QED BY <2>1, <2>2
<1>2. shows' \in Nat /\ shows <= shows'
  BY DEF SpeechInv, SpeechTypeOK
<1> QED BY <1>1, <1>2, SpeechStays

\* A silence or the end of the speech, in a new epoch; the screen may follow.
LEMMA SilenceKeeps ==
  ASSUME SpeechInv, NewChain, UNCHANGED <<prepared, shows, confirmed, called>>, ScreenStays(screen'),
         \/ captions' = Skipped(captions) \/ captions' = captions
         \/ captions # NoCaptions /\ captions' = [captions EXCEPT !.over = TRUE]
  PROVE  SpeechInv'
<1>1. Thinned(chain') /\ ReleasesStay(releases')
  BY EpochStays
<1>2. GateStays(captions')
  <2>1. GateStays(captions) /\ GateStays(Skipped(captions))
        /\ (captions # NoCaptions => GateStays([captions EXCEPT !.over = TRUE]))
    BY GatesStay
  <2>2. CASE captions' = captions
    BY <2>1, <2>2
  <2>3. CASE captions' = Skipped(captions)
    BY <2>1, <2>3
  <2>4. CASE captions # NoCaptions /\ captions' = [captions EXCEPT !.over = TRUE]
    BY <2>1, <2>4
  <2> QED BY <2>2, <2>3, <2>4
<1>3. shows' \in Nat /\ shows <= shows'
  BY DEF SpeechInv, SpeechTypeOK
<1> QED BY <1>1, <1>2, <1>3, SpeechStays

\* Dismissing a remark ends its own speech only.
LEMMA DismissStays ==
  ASSUME SpeechInv, DismissesRemark
  PROVE  /\ Thinned(chain') /\ ReleasesStay(releases') /\ ScreenStays(screen')
         /\ shows' \in Nat /\ shows <= shows'
<1>1. shows \in Nat
  BY DEF SpeechInv, SpeechTypeOK
<1>2. ScreenStays(screen) /\ ScreenStays([screen EXCEPT !.remark = Nothing])
  BY ScreenIsSame
<1>3. CASE screen.remark = Nothing
  <2>1. UNCHANGED <<screen, chain, releases, shows>>
    BY <1>3 DEF DismissesRemark
  <2>2. screen' = screen
    BY <2>1
  <2> QED BY <1>1, <1>2, <2>1, <2>2, EpochStays
<1>4. CASE screen.remark # Nothing
  <2>1. screen' = [screen EXCEPT !.remark = Nothing] /\ NewChain /\ shows' = shows + 1
    BY <1>4 DEF DismissesRemark
  <2> QED BY <1>1, <1>2, <2>1, EpochStays
<1> QED BY <1>3, <1>4

\* Dismissing a remark keeps the invariant.
LEMMA DismissalKeeps ==
  ASSUME SpeechInv, DismissesRemark, UNCHANGED <<captions, prepared, confirmed, called>>
  PROVE  SpeechInv'
<1>1. GateStays(captions')
  <2>1. GateStays(captions) /\ captions' = captions
    BY GatesStay
  <2> QED BY <2>1
<1> QED BY <1>1, DismissStays, SpeechStays

\* Remarks and their releases.
LEMMA ReleaseKeeps ==
  ASSUME SpeechInv, NEW t \in releases, ReleaseWaits(t) \/ ReleaseAnswered(t) \/ ReleaseSpeaks(t)
  PROVE  SpeechInv'
<1>1. \A r \in releases : "show" \in DOMAIN r
  BY DEF SpeechInv, SpeechTypeOK
<1>2. /\ ScreenStays(screen)
      /\ \A speech : ScreenStays([screen EXCEPT !.remark.speech = speech])
  BY ScreenIsSame
<1>3. CASE ReleaseWaits(t)
  <2>1. releases' = (releases \ {t}) \union {[t EXCEPT !.at = "hold", !.left = cancels]}
    BY <1>3 DEF ReleaseWaits, ReleaseBecomes
  <2>2. ReleasesStay(releases')
    BY <1>1, <2>1 DEF ReleasesStay
  <2>3. UNCHANGED <<screen, captions, chain, prepared, shows, confirmed, called>>
    BY <1>3 DEF ReleaseWaits, StillHere
  <2>4. ScreenStays(screen')
    BY <1>2, <2>3
  <2> QED BY <2>2, <2>3, <2>4, QuietKeeps
<1>4. CASE ReleaseAnswered(t)
  <2>1. releases' = releases \ {t} \/ releases' = (releases \ {t}) \union {[t EXCEPT !.at = "play"]}
    BY <1>4 DEF ReleaseAnswered, ReleaseBecomes
  <2>2. ReleasesStay(releases')
    BY <1>1, <2>1 DEF ReleasesStay
  <2>3. UNCHANGED <<captions, chain, prepared, shows, confirmed, called>>
    BY <1>4 DEF ReleaseAnswered, StillHere
  <2>4. screen' = screen \/ \E speech : screen' = [screen EXCEPT !.remark.speech = speech]
    BY <1>4 DEF ReleaseAnswered, RemarkIs
  <2>5. ScreenStays(screen')
    BY <1>2, <2>4
  <2> QED BY <2>2, <2>3, <2>5, QuietKeeps
<1>5. CASE ReleaseSpeaks(t)
  <2>1. /\ UNCHANGED <<captions, chain, prepared, shows, confirmed>>
        /\ called' = called \union {<<t.show, 0>>} \/ called' = called
    BY <1>5 DEF ReleaseSpeaks, StillHere
  <2>2. releases' = releases \ {t} \/ releases' = (releases \ {t}) \union {[t EXCEPT !.at = "speak"]}
    BY <1>5 DEF ReleaseSpeaks, ReleaseBecomes
  <2>3. ReleasesStay(releases')
    BY <1>1, <2>2 DEF ReleasesStay
  <2>4. screen' = screen \/ screen' = [screen EXCEPT !.remark.speech = "off"]
    BY <1>5 DEF ReleaseSpeaks, RemarkIs
  <2>5. ScreenStays(screen')
    BY <1>2, <2>4
  <2>6. CASE called' = called
    BY <2>1, <2>3, <2>5, <2>6, QuietKeeps
  <2>7. CASE called' = called \union {<<t.show, 0>>}
    <3>1. SpeechTypeOK /\ ScreenOK /\ CaptionsAreOrdered /\ ChainIsOrdered /\ ChainIsBacked /\ CallsAreBacked
      BY DEF SpeechInv
    <3>2. \A d \in called' : d \in called \/ d[2] = 0
      BY <2>7
    <3>3. SpeechTypeOK'
      BY <2>1, <2>3, <3>1, <3>2 DEF SpeechTypeOK, ReleasesStay, PreparedOK
    <3>4. ScreenOK'
      BY <2>1, <2>5, <3>1 DEF ScreenOK, ScreenStays, SameShown, Shown, Nothing
    <3>5. screen'.explanation.show = screen.explanation.show
      BY <2>5 DEF ScreenStays, SameShown
    <3>6. /\ \A i \in 1..Len(chain) : WasScheduled(chain[i].show, chain[i].part)'
          /\ \A d \in called : d[2] # 0 => WasScheduled(d[1], d[2])'
      BY <2>1, <3>1, <3>5 DEF WasScheduled, ChainIsBacked, CallsAreBacked
    <3>7. ChainIsBacked'
      <4>1. \A i \in 1..Len(chain) : chain[i].part \in Nat \ {0}
        <5>1. \A i \in 1..Len(chain) : chain[i] \in SpeechTasks
          BY <3>1, ElementOfSeq DEF SpeechTypeOK
        <5> QED BY <5>1 DEF SpeechTasks
      <4>2. \A i \in 1..Len(chain) : 0 < chain[i].part
        BY <4>1
      <4> QED BY <2>1, <3>1, <3>2, <3>6, <4>2 DEF ChainIsBacked
    <3>8. CallsAreBacked'
      BY <2>1, <2>3, <3>1, <3>2, <3>6 DEF CallsAreBacked, ReleasesStay
    <3>9. CaptionsAreOrdered' /\ ChainIsOrdered'
      BY <2>1, <3>1 DEF CaptionsAreOrdered, ChainIsOrdered
    <3> QED BY <3>3, <3>4, <3>7, <3>8, <3>9 DEF SpeechInv
  <2> QED BY <2>1, <2>6, <2>7
<1> QED BY <1>3, <1>4, <1>5

\* What happens to a remark keeps the invariant.
LEMMA RemarkKeeps ==
  ASSUME SpeechInv, RemarkUnseen \/ ConfirmRemark \/ CancelAnswered \/ \E r \in Remarks : RemarkArrives(r)
  PROVE  SpeechInv'
<1>1. \A r \in releases : "show" \in DOMAIN r
  BY DEF SpeechInv, SpeechTypeOK
<1>2. /\ ScreenStays(screen) /\ \A r : ScreenStays([screen EXCEPT !.remark = r])
      /\ \A speech : ScreenStays([screen EXCEPT !.remark.speech = speech])
  BY ScreenIsSame
<1>3. shows \in Nat
  BY DEF SpeechInv, SpeechTypeOK
<1>4. CASE RemarkUnseen
  <2>1. /\ UNCHANGED <<captions, chain, releases, prepared, shows, confirmed, called>>
        /\ screen' = [screen EXCEPT !.remark.speech = "unavailable"]
    BY <1>4 DEF RemarkUnseen, StillHere
  <2>2. ReleasesStay(releases')
    BY <1>1, <2>1 DEF ReleasesStay
  <2> QED BY <1>2, <2>1, <2>2, QuietKeeps
<1>5. CASE CancelAnswered
  <2>1. /\ UNCHANGED <<screen, captions, chain, prepared, shows, confirmed, called>>
        /\ releases' = {IF r.left > 0 THEN [r EXCEPT !.left = @ - 1] ELSE r : r \in releases}
    BY <1>5 DEF CancelAnswered
  <2>2. ReleasesStay(releases')
    BY <1>1, <2>1 DEF ReleasesStay
  <2>3. ScreenStays(screen')
    BY <1>2, <2>1
  <2> QED BY <2>1, <2>2, <2>3, QuietKeeps
<1>6. ASSUME NEW r \in Remarks, RemarkArrives(r) PROVE SpeechInv'
  <2>1. /\ UNCHANGED <<captions, prepared, confirmed, called>> /\ NewChain
        /\ shows' = shows + 1 /\ \E m : screen' = [screen EXCEPT !.remark = m]
    BY <1>6 DEF RemarkArrives
  <2>2. Thinned(chain') /\ ReleasesStay(releases')
    BY <2>1, EpochStays
  <2>3. ScreenStays(screen')
    BY <1>2, <2>1
  <2>4. GateStays(captions) /\ captions' = captions
    BY <2>1, GatesStay
  <2>5. GateStays(captions')
    BY <2>4
  <2> QED BY <1>3, <2>1, <2>2, <2>3, <2>5, SpeechStays
<1>7. CASE ConfirmRemark
  <2>1. /\ UNCHANGED <<screen, captions, chain, prepared, shows, called>>
        /\ releases' = releases \union {[show |-> remarkGate.show, at |-> "lead", live |-> TRUE, left |-> 0]}
        /\ confirmed' = confirmed \union {<<remarkGate.show, 0>>}
    BY <1>7 DEF ConfirmRemark
  <2>2. SpeechTypeOK'
    BY <1>1, <2>1 DEF SpeechInv, SpeechTypeOK, PreparedOK
  <2>3. ScreenOK'
    BY <2>1 DEF SpeechInv, ScreenOK
  <2>4. CaptionsAreOrdered' /\ ChainIsOrdered'
    BY <2>1 DEF SpeechInv, CaptionsAreOrdered, ChainIsOrdered
  <2>5. ChainIsBacked' /\ CallsAreBacked'
    BY <2>1 DEF SpeechInv, ChainIsBacked, CallsAreBacked, WasScheduled
  <2> QED BY <2>2, <2>3, <2>4, <2>5 DEF SpeechInv
<1> QED BY <1>4, <1>5, <1>6, <1>7

\* A caption that is confirmed may lead.
LEMMA ConfirmKeeps ==
  ASSUME SpeechInv, NEW k, ConfirmCaption(k)
  PROVE  SpeechInv'
<1>1. /\ SpeechTypeOK /\ ScreenOK /\ CaptionsAreOrdered /\ ChainIsOrdered /\ ChainIsBacked /\ CallsAreBacked
  BY DEF SpeechInv
<1>2. /\ captions # NoCaptions /\ k \in DOMAIN captions.parts /\ captions.parts[k] = "waiting"
      /\ captions' = [captions EXCEPT !.parts[k] = "leading"]
      /\ confirmed' = confirmed \union {<<captions.show, k>>}
      /\ UNCHANGED <<screen, chain, releases, prepared, shows, called>>
  BY DEF ConfirmCaption
<1>3. captions \in Gates /\ captions.parts \in Seq(PartStates)
  BY <1>1, <1>2 DEF ScreenOK, Gates
<1>4. Len(captions.parts) \in Nat /\ DOMAIN captions.parts = 1..Len(captions.parts)
      /\ captions.parts \in [1..Len(captions.parts) -> PartStates]
  BY <1>3, LenProperties
<1> DEFINE ps == [captions.parts EXCEPT ![k] = "leading"]
<1>5. ps \in [1..Len(captions.parts) -> PartStates]
  BY <1>2, <1>4 DEF PartStates
<1>6. /\ DOMAIN ps = DOMAIN captions.parts /\ ps \in Seq(PartStates)
      /\ \A j \in DOMAIN ps : ps[j] = IF j = k THEN "leading" ELSE captions.parts[j]
  BY <1>2, <1>4, <1>5, ListIsSeq
<1> HIDE DEF ps
<1>7. /\ captions' \in Gates /\ captions' # NoCaptions /\ captions'.show = captions.show /\ captions'.parts = ps
  <2>1. captions' = [captions EXCEPT !.parts = ps]
    BY <1>2, <1>3 DEF Gates, ps
  <2> QED BY <1>3, <1>6, <2>1 DEF Gates, NoCaptions
<1>8. SpeechTypeOK'
  BY <1>1, <1>2 DEF SpeechTypeOK, PreparedOK
<1>9. ScreenOK'
  BY <1>1, <1>2, <1>7 DEF ScreenOK
<1>10. CaptionsAreOrdered'
  <2>1. \A m \in DOMAIN ps : \A j \in 1..m-1 : j \in DOMAIN ps
    BY <1>4, <1>6
  <2>2. ASSUME NEW m \in DOMAIN ps
        PROVE  /\ ps[m] \in {"leading", "scheduled"} => <<captions.show, m>> \in confirmed'
               /\ ps[m] = "scheduled" => \A j \in 1..m-1 : ps[j] \in {"scheduled", "skipped"}
    BY <1>1, <1>2, <1>6, <2>1 DEF CaptionsAreOrdered
  <2> QED BY <1>7, <2>2 DEF CaptionsAreOrdered
<1>11. \A s, m : WasScheduled(s, m) => WasScheduled(s, m)'
  BY <1>2, <1>6, <1>7 DEF WasScheduled
<1>12. ChainIsOrdered' /\ ChainIsBacked' /\ CallsAreBacked'
  BY <1>1, <1>2, <1>11 DEF ChainIsOrdered, ChainIsBacked, CallsAreBacked
<1> QED BY <1>8, <1>9, <1>10, <1>12 DEF SpeechInv

\* A caption that was not seen ends the speech of its explanation.
LEMMA CaptionEndKeeps ==
  ASSUME SpeechInv, NEW k, CaptionUnseen(k)
  PROVE  SpeechInv'
<1>1. /\ captions # NoCaptions /\ captions' = [captions EXCEPT !.over = TRUE] /\ NewChain
      /\ UNCHANGED <<prepared, shows, confirmed, called>>
      /\ screen' = [screen EXCEPT !.explanation = WithSpeech(@, "unavailable")]
  BY DEF CaptionUnseen, Terminates, StillHere
<1>2. ScreenStays([screen EXCEPT !.explanation = WithSpeech(@, "unavailable")])
  BY ScreenIsSame DEF Speeches
<1>3. ScreenStays(screen')
  BY <1>1, <1>2
<1> QED BY <1>1, <1>3, SilenceKeeps

\* A caption is scheduled when it leads and those before it are done.
LEMMA DrainKeeps ==
  ASSUME SpeechInv, NEW k, DrainCaption(k)
  PROVE  SpeechInv'
<1>1. /\ SpeechTypeOK /\ ScreenOK /\ CaptionsAreOrdered /\ ChainIsOrdered /\ ChainIsBacked /\ CallsAreBacked
  BY DEF SpeechInv
<1>2. /\ captions # NoCaptions /\ k \in DOMAIN captions.parts /\ captions.parts[k] = "leading"
      /\ \A j \in 1..k-1 : captions.parts[j] \in {"scheduled", "skipped"}
      /\ UNCHANGED <<releases, prepared, shows, confirmed, called>>
  BY DEF DrainCaption, StillHere
<1>3. captions \in Gates /\ captions.parts \in Seq(PartStates) /\ captions.show \in Nat \ {0}
  BY <1>1, <1>2 DEF ScreenOK, Gates
<1>4. Len(captions.parts) \in Nat /\ DOMAIN captions.parts = 1..Len(captions.parts)
      /\ captions.parts \in [1..Len(captions.parts) -> PartStates] /\ k \in Nat \ {0}
  BY <1>2, <1>3, LenProperties
<1>5. ASSUME NEW st \in {"scheduled", "skipped"}, captions' = [captions EXCEPT !.parts[k] = st]
      PROVE  /\ captions' \in Gates /\ captions' # NoCaptions /\ captions'.show = captions.show
             /\ DOMAIN captions'.parts = DOMAIN captions.parts
             /\ \A j \in DOMAIN captions.parts : captions'.parts[j] = IF j = k THEN st ELSE captions.parts[j]
  <2> DEFINE ps == [captions.parts EXCEPT ![k] = st]
  <2>1. ps \in [1..Len(captions.parts) -> PartStates]
    BY <1>2, <1>4 DEF PartStates
  <2>2. /\ DOMAIN ps = DOMAIN captions.parts /\ ps \in Seq(PartStates)
        /\ \A j \in DOMAIN ps : ps[j] = IF j = k THEN st ELSE captions.parts[j]
    BY <1>2, <1>4, <2>1, ListIsSeq
  <2>3. captions' = [captions EXCEPT !.parts = ps]
    BY <1>3, <1>5 DEF Gates
  <2> HIDE DEF ps
  <2>4. /\ captions' \in Gates /\ captions' # NoCaptions /\ captions'.show = captions.show /\ captions'.parts = ps
    BY <1>3, <2>2, <2>3 DEF Gates, NoCaptions
  <2> QED BY <2>2, <2>4
<1>6. CASE ~screen.on
  <2>1. captions' = [captions EXCEPT !.parts[k] = "skipped"] /\ UNCHANGED <<chain, screen>>
    BY <1>6 DEF DrainCaption
  <2>2. GateStays(captions')
    BY <1>2, <1>5, <2>1 DEF GateStays, GoesOn
  <2>3. Thinned(chain) /\ ScreenStays(screen) /\ chain' = chain /\ screen' = screen
    BY <2>1, ChainThins, ScreenIsSame
  <2>4. Thinned(chain') /\ ScreenStays(screen')
    BY <2>3
  <2>5. ReleasesStay(releases')
    BY <1>1, <1>2 DEF ReleasesStay, SpeechTypeOK
  <2>6. shows' \in Nat /\ shows <= shows'
    BY <1>1, <1>2 DEF SpeechTypeOK
  <2> QED BY <1>2, <2>2, <2>4, <2>5, <2>6, SpeechStays
<1>7. CASE screen.on
  <2> DEFINE new == [part |-> k, show |-> captions.show, at |-> "next", live |-> TRUE, old |-> FALSE]
  <2>1. /\ captions' = [captions EXCEPT !.parts[k] = "scheduled"] /\ chain' = Append(chain, new)
        /\ screen' = [screen EXCEPT !.explanation.speech = "queued"]
    BY <1>7 DEF DrainCaption
  <2>2. new \in SpeechTasks /\ new.part = k /\ new.show = captions.show /\ ~new.old
    BY <1>3, <1>4 DEF SpeechTasks
  <2> HIDE DEF new
  <2>3. ScreenStays([screen EXCEPT !.explanation.speech = "queued"])
    BY ScreenIsSame DEF Speeches
  <2>4. ScreenStays(screen')
    BY <2>1, <2>3
  <2>5. /\ captions' \in Gates /\ captions' # NoCaptions /\ captions'.show = captions.show
        /\ DOMAIN captions'.parts = DOMAIN captions.parts
        /\ \A j \in DOMAIN captions.parts : captions'.parts[j] = IF j = k THEN "scheduled" ELSE captions.parts[j]
    BY <1>5, <2>1
  <2>6. /\ chain \in Seq(SpeechTasks) /\ Len(chain) \in Nat /\ \A i \in 1..Len(chain) : chain[i] \in SpeechTasks
    BY <1>1, ElementOfSeq, LenProperties DEF SpeechTypeOK
  <2>7. /\ chain' \in Seq(SpeechTasks) /\ Len(chain') = Len(chain) + 1
        /\ \A i \in 1..Len(chain) : chain'[i] = chain[i]
        /\ chain'[Len(chain) + 1] = new
    BY <2>1, <2>2, <2>6, AppendProperties
  <2>8. SpeechTypeOK'
    BY <1>1, <1>2, <2>7 DEF SpeechTypeOK, PreparedOK
  <2>9. ScreenOK'
    BY <1>1, <1>2, <2>4, <2>5 DEF ScreenOK, ScreenStays, SameShown, Shown, Nothing
  <2>10. CaptionsAreOrdered'
    <3>1. \A m \in DOMAIN captions.parts : \A j \in 1..m-1 : j \in DOMAIN captions.parts
      BY <1>4
    <3>2. ASSUME NEW m \in DOMAIN captions.parts
          PROVE  /\ captions'.parts[m] \in {"leading", "scheduled"} => <<captions.show, m>> \in confirmed
                 /\ captions'.parts[m] = "scheduled" =>
                      \A j \in 1..m-1 : captions'.parts[j] \in {"scheduled", "skipped"}
      BY <1>1, <1>2, <2>5, <3>1 DEF CaptionsAreOrdered
    <3> QED BY <1>2, <2>5, <3>2 DEF CaptionsAreOrdered
  <2>11. screen'.explanation.show = screen.explanation.show /\ captions.show = screen.explanation.show
         /\ captions.show <= shows
    BY <1>1, <1>2, <2>4 DEF ScreenStays, SameShown, ScreenOK
  <2>12. \A s, m : WasScheduled(s, m) => WasScheduled(s, m)'
    BY <1>2, <2>5, <2>11 DEF WasScheduled
  <2>14. ASSUME NEW m \in Nat, WasScheduled(captions.show, m) PROVE m < k
    <3>1. m \in DOMAIN captions.parts /\ captions.parts[m] = "scheduled"
      BY <2>11, <2>14 DEF WasScheduled
    <3>2. m # k
      BY <1>2, <3>1
    <3>3. CASE k < m
      <4>1. k \in 1..m-1
        BY <1>4, <2>14, <3>3
      <4>2. captions.parts[k] \in {"scheduled", "skipped"}
        BY <1>1, <1>2, <3>1, <4>1 DEF CaptionsAreOrdered
      <4> QED BY <1>2, <4>2
    <3> QED BY <1>4, <3>2, <3>3
  <2>15. \A i \in 1..Len(chain) : chain[i].show = captions.show => chain[i].part < k
    <3>1. \A i \in 1..Len(chain) : chain[i].part \in Nat
      BY <2>6 DEF SpeechTasks
    <3> QED BY <1>1, <2>14, <3>1 DEF ChainIsBacked
  <2>16. \A d \in called : d[1] = captions.show => d[2] < k
    <3>1. ASSUME NEW d \in called, d[1] = captions.show PROVE d[2] < k
      <4>1. d[2] \in Nat
        BY <1>1 DEF SpeechTypeOK
      <4>2. d[2] # 0 => WasScheduled(captions.show, d[2])
        BY <1>1, <3>1 DEF CallsAreBacked
      <4> QED BY <1>4, <2>14, <4>1, <4>2
    <3> QED BY <3>1
  <2>17. ChainIsOrdered'
    <3>1. ASSUME NEW i \in 1..Len(chain) + 1
          PROVE  /\ chain'[i].old => ~chain'[i].live
                 /\ \A j \in 1..i-1 : chain'[j].show = chain'[i].show => chain'[j].part < chain'[i].part
      <4>1. CASE i \in 1..Len(chain)
        <5>1. \A j \in 1..i-1 : j \in 1..Len(chain)
          BY <2>6, <4>1
        <5> QED BY <1>1, <2>7, <4>1, <5>1 DEF ChainIsOrdered
      <4>2. CASE i = Len(chain) + 1
        <5>1. \A j \in 1..i-1 : j \in 1..Len(chain)
          BY <2>6, <4>2
        <5> QED BY <2>2, <2>7, <2>15, <4>2, <5>1
      <4> QED BY <2>6, <3>1, <4>1, <4>2
    <3> QED BY <2>7, <3>1 DEF ChainIsOrdered
  <2>19. <<captions.show, k>> \in confirmed
    BY <1>1, <1>2 DEF CaptionsAreOrdered
  <2>20. ChainIsBacked'
    <3>1. ASSUME NEW i \in 1..Len(chain) + 1, NEW s, NEW p, s = chain'[i].show, p = chain'[i].part
          PROVE  /\ <<s, p>> \in confirmed /\ WasScheduled(s, p)'
                 /\ chain'[i].live /\ chain'[i].at = "next" => \A d \in called : d[1] = s => d[2] < p
      <4>1. CASE i \in 1..Len(chain)
        BY <1>1, <2>7, <2>12, <3>1, <4>1 DEF ChainIsBacked
      <4>2. CASE i = Len(chain) + 1
        <5>1. s = captions.show /\ p = k
          BY <2>2, <2>7, <3>1, <4>2
        <5>2. WasScheduled(s, p)'
          BY <1>2, <2>5, <2>11, <5>1 DEF WasScheduled
        <5> QED BY <2>16, <2>19, <5>1, <5>2
      <4> QED BY <2>6, <3>1, <4>1, <4>2
    <3>2. \A i \in 1..Len(chain) + 1 : WasScheduled(chain[i].show, chain[i].part)'
      BY <3>1 DEF WasScheduled
    <3> QED BY <1>2, <2>7, <3>1, <3>2 DEF ChainIsBacked
  <2>21. CallsAreBacked'
    BY <1>1, <1>2, <2>12 DEF CallsAreBacked
  <2> QED BY <2>8, <2>9, <2>10, <2>17, <2>20, <2>21 DEF SpeechInv
<1> QED BY <1>6, <1>7

\* The tasks of the chain.
LEMMA TaskEnds ==
  ASSUME SpeechInv, NEW i \in 1..Len(chain), TaskDone(i), ScreenStays(screen'),
         UNCHANGED <<prepared, shows, confirmed, called>>
  PROVE  SpeechInv'
<1>1. Thinned(Finished(i)) /\ GateStays(captions)
  BY FinishedThins, GatesStay
<1>2. chain' = Finished(i) /\ captions' = captions /\ releases' = releases
  BY DEF TaskDone
<1>3. Thinned(chain') /\ GateStays(captions')
  BY <1>1, <1>2
<1>4. shows' \in Nat /\ shows <= shows' /\ ReleasesStay(releases')
  BY <1>2 DEF SpeechInv, SpeechTypeOK, ReleasesStay
<1> QED BY <1>3, <1>4, SpeechStays

\* A task that fails ends the speech of what is shown.
LEMMA TaskFailureKeeps ==
  ASSUME SpeechInv, NEW i \in 1..Len(chain), TaskFails(i), captions # NoCaptions,
         UNCHANGED <<prepared, shows, confirmed, called>>
  PROVE  SpeechInv'
<1>1. Thinned(Staled(Left(Finished(i)))) /\ GateStays([captions EXCEPT !.over = TRUE])
  BY FinishedThins, EpochThins, GatesStay
<1>2. /\ chain' = Staled(Left(Finished(i))) /\ captions' = [captions EXCEPT !.over = TRUE]
      /\ releases' = {[r EXCEPT !.live = FALSE] : r \in releases}
      /\ screen' = [screen EXCEPT !.explanation.speech = "unavailable"]
  BY DEF TaskFails, Speech
<1>3. ScreenStays([screen EXCEPT !.explanation.speech = "unavailable"])
  BY ScreenIsSame DEF Speeches
<1>4. Thinned(chain') /\ GateStays(captions') /\ ScreenStays(screen')
  BY <1>1, <1>2, <1>3
<1>5. shows' \in Nat /\ shows <= shows' /\ ReleasesStay(releases')
  BY <1>2 DEF SpeechInv, SpeechTypeOK, ReleasesStay
<1> QED BY <1>4, <1>5, SpeechStays

\* A task that goes on keeps the invariant.
LEMMA TaskGoesOn ==
  ASSUME SpeechInv, NEW i \in 1..Len(chain), NEW s \in Goings, chain' = [chain EXCEPT ![i].at = s],
         UNCHANGED <<captions, releases, prepared, shows, confirmed, called>>, ScreenStays(screen')
  PROVE  SpeechInv'
<1>1. GateStays(captions) /\ captions' = captions
  BY GatesStay
<1>2. Thinned(chain') /\ GateStays(captions')
  BY <1>1, TaskThins
<1>3. shows' \in Nat /\ shows <= shows' /\ ReleasesStay(releases')
  BY DEF SpeechInv, SpeechTypeOK, ReleasesStay
<1> QED BY <1>2, <1>3, SpeechStays

\* The answers of the service to a task keep the invariant.
LEMMA TaskAnswersKeep ==
  ASSUME SpeechInv, NEW i \in DOMAIN chain, TaskAnswered(i) \/ TaskPlayed(i)
  PROVE  SpeechInv'
<1>1. i \in 1..Len(chain)
  BY LenProperties DEF SpeechInv, SpeechTypeOK
<1>2. UNCHANGED <<prepared, shows, confirmed, called>>
  BY DEF TaskAnswered, TaskPlayed, StillHere
<1>3. /\ ScreenStays(screen)
      /\ \A speech \in Speeches : ScreenStays([screen EXCEPT !.explanation.speech = speech])
  BY ScreenIsSame
<1>4. {"off", "idle", "playing"} \subseteq Speeches
  BY DEF Speeches
<1>5. CASE ~StillActive(chain[i])
  <2>1. TaskDone(i) /\ screen' = screen
    BY <1>5 DEF TaskAnswered, TaskPlayed
  <2>2. ScreenStays(screen')
    BY <1>3, <2>1
  <2> QED BY <1>1, <1>2, <2>1, <2>2, TaskEnds
<1>6. CASE StillActive(chain[i])
  <2>1. captions # NoCaptions
    BY <1>6 DEF StillActive
  <2>2. \/ /\ chain' = [chain EXCEPT ![i].at = "play"] /\ Speech("playing")
           /\ UNCHANGED <<captions, releases>>
        \/ TaskDone(i) /\ (Speech("off") \/ Speech("idle"))
        \/ TaskFails(i)
    BY <1>6 DEF TaskAnswered, TaskPlayed
  <2>3. \A speech \in Speeches : Speech(speech) => ScreenStays(screen')
    BY <1>3 DEF Speech
  <2>4. CASE /\ chain' = [chain EXCEPT ![i].at = "play"] /\ Speech("playing")
             /\ UNCHANGED <<captions, releases>>
    BY <1>1, <1>2, <1>4, <2>3, <2>4, TaskGoesOn DEF Goings
  <2>5. CASE TaskDone(i) /\ (Speech("off") \/ Speech("idle"))
    BY <1>1, <1>2, <1>4, <2>3, <2>5, TaskEnds
  <2>6. CASE TaskFails(i)
    BY <1>1, <1>2, <2>1, <2>6, TaskFailureKeeps
  <2> QED BY <2>2, <2>4, <2>5, <2>6
<1> QED BY <1>5, <1>6

\* A task that is live and has its turn comes before the others that are live.
LEMMA TaskSpeaksKeeps ==
  ASSUME SpeechInv, NEW i \in DOMAIN chain, TaskSpeaks(i)
  PROVE  SpeechInv'
<1>1. /\ SpeechTypeOK /\ ScreenOK /\ CaptionsAreOrdered /\ ChainIsOrdered /\ ChainIsBacked /\ CallsAreBacked
      /\ i \in 1..Len(chain) /\ Len(chain) \in Nat
  BY LenProperties DEF SpeechInv, SpeechTypeOK
<1>2. UNCHANGED <<screen, captions, releases, prepared, shows, confirmed>>
  BY DEF TaskSpeaks, TaskDone, StillHere
<1>3. ScreenStays(screen) /\ screen' = screen
  BY <1>2, ScreenIsSame
<1>4. ScreenStays(screen')
  BY <1>3
<1>5. CASE ~StillActive(chain[i])
  <2>1. TaskDone(i) /\ called' = called
    BY <1>5 DEF TaskSpeaks
  <2> QED BY <1>1, <1>2, <1>4, <2>1, TaskEnds
<1>6. CASE StillActive(chain[i])
  <2>1. /\ chain' = [chain EXCEPT ![i].at = "speak"] /\ chain[i].live /\ chain[i].at = "next"
        /\ called' = called \union {<<chain[i].show, chain[i].part>>} /\ IsFirst(i)
    BY <1>6 DEF TaskSpeaks, StillActive
  <2>2. /\ Thinned(chain') /\ Len(chain') = Len(chain)
        /\ \A k \in 1..Len(chain) :
             /\ chain'[k].show = chain[k].show /\ chain'[k].part = chain[k].part
             /\ chain'[k].live = chain[k].live /\ chain'[k].old = chain[k].old
             /\ chain'[k].at = IF k = i THEN "speak" ELSE chain[k].at
    <3>1. "speak" \in Goings
      BY DEF Goings
    <3> QED BY <1>1, <2>1, <3>1, TaskThins
  <2>3. \A k \in 1..Len(chain) : chain[k] \in SpeechTasks
    BY <1>1, ElementOfSeq DEF SpeechTypeOK
  <2>4. chain[i].show \in Nat \ {0} /\ chain[i].part \in Nat \ {0}
    BY <1>1, <2>3 DEF SpeechTasks
  <2>5. \A d \in called' : d \in called \/ (d[1] = chain[i].show /\ d[2] = chain[i].part)
    BY <2>1
  <2>6. SpeechTypeOK'
    BY <1>1, <1>2, <2>2, <2>4, <2>5 DEF SpeechTypeOK, PreparedOK, Thinned
  <2>7. ScreenOK' /\ CaptionsAreOrdered'
    BY <1>1, <1>2 DEF ScreenOK, CaptionsAreOrdered
  <2>8. ChainIsOrdered'
    BY <2>2 DEF Thinned, ChainIsOrdered
  <2>9. \A s, m : WasScheduled(s, m) => WasScheduled(s, m)'
    BY <1>2 DEF WasScheduled
  <2>10. ASSUME NEW k \in 1..Len(chain), k # i, chain[k].live, chain[k].show = chain[i].show
         PROVE  chain[i].part < chain[k].part
    <3>1. CASE k < i
      <4>1. k \in 1..i-1
        BY <1>1, <3>1
      <4>2. ~chain[k].old /\ ~chain[i].old
        BY <1>1, <2>1, <2>10 DEF ChainIsOrdered
      <4>3. chain[k].old \in BOOLEAN /\ chain[i].old \in BOOLEAN
        BY <1>1, <2>3 DEF SpeechTasks
      <4> QED BY <2>1, <4>1, <4>2, <4>3 DEF IsFirst
    <3>2. CASE i < k
      <4>1. i \in 1..k-1
        BY <1>1, <3>2
      <4> QED BY <1>1, <2>10, <4>1 DEF ChainIsOrdered
    <3> QED BY <1>1, <2>10, <3>1, <3>2
  <2>11. ChainIsBacked'
    <3>1. ASSUME NEW k \in 1..Len(chain)
          PROVE  /\ <<chain'[k].show, chain'[k].part>> \in confirmed
                 /\ WasScheduled(chain[k].show, chain[k].part)'
                 /\ chain'[k].live /\ chain'[k].at = "next" =>
                      \A d \in called' : d[1] = chain'[k].show => d[2] < chain'[k].part
      <4>1. <<chain[k].show, chain[k].part>> \in confirmed /\ WasScheduled(chain[k].show, chain[k].part)
        BY <1>1 DEF ChainIsBacked
      <4>2. PICK s, p : s = chain[k].show /\ p = chain[k].part
        OBVIOUS
      <4>3. s = chain'[k].show /\ p = chain'[k].part
        BY <2>2, <4>2
      <4>4. WasScheduled(s, p)'
        BY <2>9, <4>1, <4>2
      <4>5. WasScheduled(chain[k].show, chain[k].part)'
        BY <4>3, <4>4 DEF WasScheduled
      <4>6. ASSUME chain'[k].live, chain'[k].at = "next", NEW d \in called', d[1] = s
            PROVE  d[2] < p
        <5>1. k # i /\ chain[k].live /\ chain[k].at = "next"
          BY <2>2, <4>6
        <5>2. CASE d \in called
          BY <1>1, <4>2, <4>6, <5>1, <5>2 DEF ChainIsBacked
        <5>3. CASE d[1] = chain[i].show /\ d[2] = chain[i].part
          BY <2>10, <4>2, <4>6, <5>1, <5>3
        <5> QED BY <2>5, <5>2, <5>3
      <4> QED BY <4>1, <4>2, <4>3, <4>5, <4>6
    <3> QED BY <1>2, <2>2, <3>1 DEF ChainIsBacked
  <2>12. CallsAreBacked'
    <3>1. ASSUME NEW d \in called', d[2] # 0 PROVE d[1] \in Nat \ {0} /\ WasScheduled(d[1], d[2])'
      <4>1. CASE d \in called
        BY <1>1, <2>9, <3>1, <4>1 DEF CallsAreBacked
      <4>2. CASE d[1] = chain[i].show /\ d[2] = chain[i].part
        <5>1. WasScheduled(d[1], d[2])
          BY <1>1, <4>2 DEF ChainIsBacked
        <5> QED BY <2>4, <2>9, <4>2, <5>1
      <4> QED BY <2>5, <4>1, <4>2
    <3> QED BY <1>1, <1>2, <3>1 DEF CallsAreBacked
  <2> QED BY <2>6, <2>7, <2>8, <2>11, <2>12 DEF SpeechInv
<1> QED BY <1>5, <1>6

-----------------------------------------------------------------------------
(* Explanations.                                                           *)

\* What makes another explanation of what is prepared: nothing else changes.
PreparedStays ==
  /\ DOMAIN prepared' = Explanations
  /\ \A e \in Explanations :
       "st" \in DOMAIN prepared'[e] /\ PreparedOK(e)' /\ (prepared[e].st # "none" => prepared'[e].st # "none")

\* What is prepared stays well-formed when it is left alone.
LEMMA PreparedSame == SpeechInv /\ prepared' = prepared => PreparedStays
BY DEF SpeechInv, SpeechTypeOK, PreparedStays, PreparedOK

\* And when one explanation changes with its parts.
LEMMA PreparedChanges ==
  ASSUME SpeechInv, NEW e \in Explanations, NEW p, prepared' = [prepared EXCEPT ![e] = p],
         {"st", "parts", "scope"} \subseteq DOMAIN p, p.parts \in Nat,
         p.st \in {"preparing", "streaming", "ready", "failed", "canceled"},
         p.st \in {"streaming", "ready"} => p.parts # 0
  PROVE  PreparedStays
<1>1. /\ DOMAIN prepared = Explanations
      /\ \A f \in Explanations : "st" \in DOMAIN prepared[f] /\ PreparedOK(f)
  BY DEF SpeechInv, SpeechTypeOK
<1>2. /\ prepared'[e] = p /\ DOMAIN prepared' = Explanations
      /\ \A f \in Explanations \ {e} : prepared'[f] = prepared[f]
  BY <1>1
<1> QED BY <1>1, <1>2 DEF PreparedStays, PreparedOK

\* The screen may show the same explanation with another status, its captions go on.
LEMMA ShownKeeps ==
  ASSUME SpeechInv, Thinned(chain'), called' = called, confirmed' = confirmed, PreparedStays,
         shows' = shows, ScreenStays(screen'), ReleasesStay(releases'),
         \/ GateStays(captions')
         \/ /\ captions = NoCaptions /\ captions' \in Gates /\ IsFresh(captions')
            /\ captions'.show = screen.explanation.show
  PROVE  SpeechInv'
<1>1. SpeechTypeOK /\ ScreenOK
  BY DEF SpeechInv
<1>2. screen.explanation.show \in Nat /\ shows \in Nat /\ shows <= shows'
  BY <1>1 DEF ScreenOK, SpeechTypeOK, Shown, Nothing
<1>3. CaptionsMove
  BY DEF GateStays, ScreenStays, SameShown, CaptionsMove, IsFresh
<1>4. ScreenOK'
  <2>1. captions' \in Gates \union {NoCaptions} /\ (captions' # NoCaptions => captions'.show = screen.explanation.show)
    BY <1>1 DEF GateStays, GoesOn, ScreenOK
  <2>2. screen'.explanation # Nothing =>
          screen.explanation # Nothing /\ screen'.explanation.about = screen.explanation.about
    BY DEF ScreenStays, SameShown, Shown, Nothing
  <2>3. screen.explanation # Nothing => screen.explanation.about \in Explanations
    BY <1>1 DEF ScreenOK, Shown
  <2>4. screen'.explanation # Nothing => prepared'[screen'.explanation.about].st # "none"
    BY <1>1, <2>2, <2>3 DEF ScreenOK, PreparedStays
  <2> QED BY <1>1, <2>1, <2>4 DEF ScreenOK, ScreenStays, SameShown
<1>5. \A e \in Explanations : "st" \in DOMAIN prepared'[e] /\ PreparedOK(e)'
  BY DEF PreparedStays
<1>6. DOMAIN prepared' = Explanations
  BY DEF PreparedStays
<1> QED BY <1>2, <1>3, <1>4, <1>5, <1>6, SpeechKeeps DEF ReleasesStay

\* Another explanation is shown, or none; its captions are new.
LEMMA NextShowKeeps ==
  ASSUME SpeechInv, Thinned(chain'), called' = called, confirmed' = confirmed, PreparedStays,
         shows' \in Nat, shows <= shows', ReleasesStay(releases'),
         {"explanation", "remark", "on", "scope"} \subseteq DOMAIN screen',
         \/ screen'.explanation = Nothing /\ captions' = NoCaptions
         \/ /\ screen'.explanation \in Shown /\ screen'.explanation.show = shows' /\ shows < shows'
            /\ prepared'[screen'.explanation.about].st # "none"
            /\ captions' = NoCaptions \/ (captions' \in Gates /\ captions'.show = shows' /\ IsFresh(captions'))
  PROVE  SpeechInv'
<1>1. shows \in Nat
  BY DEF SpeechInv, SpeechTypeOK
<1>2. CaptionsMove
  BY <1>1 DEF CaptionsMove, IsFresh, Nothing
<1>3. ScreenOK'
  BY <1>1 DEF ScreenOK, Nothing, NoCaptions
<1>4. \A e \in Explanations : "st" \in DOMAIN prepared'[e] /\ PreparedOK(e)'
  BY DEF PreparedStays
<1>5. DOMAIN prepared' = Explanations
  BY DEF PreparedStays
<1> QED BY <1>2, <1>3, <1>4, <1>5, SpeechKeeps DEF ReleasesStay

\* The gate of an explanation: the captions there are, and more that wait.
LEMMA GateFacts ==
  ASSUME SpeechInv, NEW x \in Shown
  PROVE  /\ Gate(x) \in Gates /\ Gate(x).show = x.show
         /\ captions # NoCaptions /\ captions.show = x.show => GateStays(Gate(x))
         /\ captions = NoCaptions \/ captions.show # x.show => IsFresh(Gate(x))
<1>1. captions \in Gates \union {NoCaptions} /\ x.show \in Nat \ {0} /\ x.parts \in Nat
  BY DEF SpeechInv, ScreenOK, Shown
<1> DEFINE before == IF captions.show = x.show THEN captions.parts ELSE << >>
           more == [k \in 1..(x.parts - Len(before)) |-> "waiting"]
           parts == before \o more
<1>2. captions.show = x.show => captions \in Gates
  BY <1>1 DEF NoCaptions
<1>3. before \in Seq(PartStates) /\ Len(before) \in Nat
  <2>1. \/ captions.show = x.show /\ before = captions.parts
        \/ captions.show # x.show /\ before = << >>
    OBVIOUS
  <2> HIDE DEF before
  <2>2. ASSUME captions.show = x.show, before = captions.parts PROVE before \in Seq(PartStates)
    BY <1>2, <2>2 DEF Gates
  <2>3. before = << >> => before \in Seq(PartStates)
    OBVIOUS
  <2>4. before \in Seq(PartStates)
    BY <2>1, <2>2, <2>3
  <2> QED BY <2>4, LenProperties
<1> HIDE DEF before
<1>4. more \in Seq(PartStates) /\ Len(more) \in Nat /\ \A k \in 1..Len(more) : more[k] = "waiting"
  <2>1. ASSUME NEW n \in Int, NEW m, m = [k \in 1..n |-> "waiting"]
        PROVE  m \in Seq(PartStates) /\ Len(m) \in Nat /\ \A k \in 1..Len(m) : m[k] = "waiting"
    <3>1. PICK c \in Nat : 1..n = 1..c
      <4>1. n \in Nat \/ 1..n = 1..0
        OBVIOUS
      <4> QED BY <4>1
    <3>2. m \in [1..c -> PartStates] /\ \A k \in 1..c : m[k] = "waiting"
      BY <2>1, <3>1 DEF PartStates
    <3>3. m \in Seq(PartStates) /\ Len(m) = c
      BY <3>2, ListIsSeq
    <3> QED BY <3>2, <3>3
  <2>2. PICK n \in Int : n = x.parts - Len(before)
    BY <1>1, <1>3
  <2>3. more = [k \in 1..n |-> "waiting"]
    BY <2>2
  <2> HIDE DEF more
  <2> QED BY <2>1, <2>3
<1> HIDE DEF more
<1>5. /\ parts \in Seq(PartStates) /\ Len(parts) = Len(before) + Len(more)
      /\ \A k \in 1..Len(before)+Len(more) :
           parts[k] = IF k <= Len(before) THEN before[k] ELSE more[k - Len(before)]
  BY <1>3, <1>4, ConcatProperties
<1>6. DOMAIN parts = 1..Len(before)+Len(more) /\ DOMAIN before = 1..Len(before)
  BY <1>3, <1>5, LenProperties
<1>7. /\ \A k \in DOMAIN before : k \in DOMAIN parts /\ parts[k] = before[k]
      /\ \A k \in DOMAIN parts \ DOMAIN before : parts[k] = "waiting"
  <2>1. ASSUME NEW k \in DOMAIN parts \ DOMAIN before PROVE parts[k] = "waiting"
    <3>1. k - Len(before) \in 1..Len(more) /\ ~(k <= Len(before))
      BY <1>3, <1>4, <1>6
    <3> QED BY <1>4, <1>5, <1>6, <3>1
  <2>2. ASSUME NEW k \in DOMAIN before PROVE k \in DOMAIN parts /\ parts[k] = before[k]
    BY <1>3, <1>4, <1>5, <1>6
  <2> QED BY <2>1, <2>2
<1> HIDE DEF parts
<1>8. Gate(x) = [show |-> x.show, parts |-> parts, over |-> captions.show = x.show /\ captions.over]
  BY DEF Gate, parts, before, more
<1>9. (captions.show = x.show /\ captions.over) \in BOOLEAN
  BY <1>2 DEF Gates
<1>10. Gate(x) \in Gates /\ Gate(x).show = x.show /\ Gate(x).parts = parts /\ Gate(x) # NoCaptions
  BY <1>1, <1>5, <1>8, <1>9 DEF Gates, NoCaptions
<1>11. ASSUME captions # NoCaptions, captions.show = x.show PROVE GateStays(Gate(x))
  <2>1. before = captions.parts
    BY <1>11 DEF before
  <2> QED BY <1>7, <1>10, <1>11, <2>1 DEF GateStays, GoesOn
<1>12. ASSUME captions = NoCaptions \/ captions.show # x.show PROVE IsFresh(Gate(x))
  <2>1. captions.show # x.show
    BY <1>1, <1>12 DEF NoCaptions
  <2>2. before = << >>
    BY <2>1 DEF before
  <2>3. DOMAIN before = {}
    BY <2>2
  <2> QED BY <1>7, <1>10, <2>3 DEF IsFresh
<1> QED BY <1>10, <1>11, <1>12

\* What prepareCaptionSpeech makes of an explanation: the same, but for its speech.
LEMMA CaptionedFacts ==
  ASSUME SpeechInv, NEW x \in Shown, x.parts # 0, x.st # "unavailable"
  PROVE  /\ Captioned(x).explanation \in Shown /\ Captioned(x).explanation.show = x.show
         /\ Captioned(x).explanation.about = x.about
         /\ Captioned(x).gate \in Gates /\ Captioned(x).gate.show = x.show
         /\ captions # NoCaptions /\ captions.show = x.show => GateStays(Captioned(x).gate)
         /\ captions = NoCaptions \/ captions.show # x.show => IsFresh(Captioned(x).gate)
<1>1. /\ Gate(x) \in Gates /\ Gate(x).show = x.show
      /\ captions # NoCaptions /\ captions.show = x.show => GateStays(Gate(x))
      /\ captions = NoCaptions \/ captions.show # x.show => IsFresh(Gate(x))
  BY GateFacts
<1> DEFINE g == IF screen.on THEN Gate(x) ELSE Skipped(Gate(x))
           y == CASE ~screen.on -> [x EXCEPT !.speech = "off"]
                  [] screen.on /\ ~Gate(x).over /\ x.speech # "playing"
                     /\ "waiting" \in {Gate(x).parts[k] : k \in DOMAIN Gate(x).parts} -> [x EXCEPT !.speech = "queued"]
                  [] OTHER -> x
<1>2. Captioned(x) = [gate |-> g, explanation |-> y]
  BY DEF Captioned
<1>3. y \in {x, [x EXCEPT !.speech = "off"], [x EXCEPT !.speech = "queued"]}
  OBVIOUS
<1>4. g = Gate(x) \/ g = Skipped(Gate(x))
  OBVIOUS
<1> HIDE DEF g, y
<1>5. y \in Shown /\ y.show = x.show /\ y.about = x.about
  BY <1>3 DEF Shown, Speeches
<1>6. /\ Skipped(Gate(x)) \in Gates /\ Skipped(Gate(x)).show = x.show
      /\ DOMAIN Skipped(Gate(x)).parts = DOMAIN Gate(x).parts
      /\ \A k \in DOMAIN Gate(x).parts :
           Skipped(Gate(x)).parts[k] =
             IF Gate(x).parts[k] \in {"waiting", "leading"} THEN "skipped" ELSE Gate(x).parts[k]
  BY <1>1, SkippedGate
<1>7. \A h \in Gates : h # NoCaptions
  BY DEF Gates, NoCaptions
<1>8. /\ captions # NoCaptions /\ captions.show = x.show => GateStays(Skipped(Gate(x)))
      /\ captions = NoCaptions \/ captions.show # x.show => IsFresh(Skipped(Gate(x)))
  <2>1. ASSUME captions # NoCaptions, captions.show = x.show PROVE GateStays(Skipped(Gate(x)))
    BY <1>1, <1>6, <1>7, <2>1 DEF GateStays, GoesOn
  <2>2. ASSUME captions = NoCaptions \/ captions.show # x.show PROVE IsFresh(Skipped(Gate(x)))
    BY <1>1, <1>6, <1>7, <2>2 DEF IsFresh
  <2> QED BY <2>1, <2>2
<1> QED BY <1>1, <1>2, <1>4, <1>5, <1>6, <1>8

\* What is published of a prepared explanation is what is shown, with its parts.
LEMMA PublishedFacts ==
  ASSUME SpeechInv, NEW e \in Explanations, Explains(e), NEW p, p.parts \in Nat,
         p.st \in {"preparing", "streaming", "ready", "failed", "canceled"}
  PROVE  /\ Published(e, p) \in Shown /\ Published(e, p).show = screen.explanation.show
         /\ Published(e, p).about = e /\ Published(e, p).parts = p.parts /\ Published(e, p).st = ShownAs(p.st)
         /\ screen.explanation \in Shown
<1>1. screen.explanation \in Shown /\ screen.explanation.about = e
  BY DEF SpeechInv, ScreenOK, Explains, IsActive
<1>2. ShownAs(p.st) \in {"preparing", "streaming", "ready", "canceled", "unavailable"}
  BY DEF ShownAs
<1> QED BY <1>1, <1>2 DEF Published, Shown

\* A chunk that arrives is a further caption, behind the others.
LEMMA ChunkKeeps ==
  ASSUME SpeechInv, NEW e \in Explanations, ChunkArrives(e) \/ ExplanationStarts(e)
  PROVE  SpeechInv'
<1>1. PreparedOK(e) /\ ScreenOK
  BY DEF SpeechInv, SpeechTypeOK
<1>2. Thinned(chain') /\ ReleasesStay(releases')
  <2>1. UNCHANGED <<chain, releases>>
    BY DEF ChunkArrives, ExplanationStarts, speaking
  <2> QED BY <2>1, EpochStays
<1>3. UNCHANGED <<shows, confirmed, called>>
  BY DEF ChunkArrives, ExplanationStarts, PreparesOnly
<1>4. GateStays(captions) /\ ScreenStays(screen)
  BY GatesStay, ScreenIsSame
<1>5. CASE ExplanationStarts(e)
  <2>1. /\ prepared' = [prepared EXCEPT ![e] = [st |-> "preparing", parts |-> 0, scope |-> screen.scope.native]]
        /\ screen' = screen /\ captions' = captions
    BY <1>5 DEF ExplanationStarts, speaking
  <2>2. PICK p : p = [st |-> "preparing", parts |-> 0, scope |-> screen.scope.native]
    OBVIOUS
  <2>3. prepared' = [prepared EXCEPT ![e] = p] /\ {"st", "parts", "scope"} \subseteq DOMAIN p
        /\ p.parts \in Nat /\ p.st = "preparing"
    BY <2>1, <2>2
  <2>4. PreparedStays
    BY <2>3, PreparedChanges
  <2>5. GateStays(captions') /\ ScreenStays(screen')
    BY <1>4, <2>1
  <2> QED BY <1>2, <1>3, <2>4, <2>5, ShownKeeps
<1>6. CASE ChunkArrives(e)
  <2> DEFINE p == [prepared[e] EXCEPT !.st = "streaming", !.parts = @ + 1]
             x == Published(e, p)
             c == Captioned(x)
  <2>1. /\ prepared[e].st \in {"preparing", "streaming"}
        /\ prepared' = [prepared EXCEPT ![e] = p]
        /\ IF Explains(e) THEN captions' = c.gate /\ screen' = [screen EXCEPT !.explanation = c.explanation]
                          ELSE UNCHANGED <<screen, captions>>
    BY <1>6 DEF ChunkArrives
  <2>2. /\ {"st", "parts", "scope"} \subseteq DOMAIN p /\ p.parts \in Nat \ {0} /\ p.st = "streaming"
    BY <1>1, <2>1 DEF PreparedOK
  <2> HIDE DEF p
  <2>3. PreparedStays
    BY <2>1, <2>2, PreparedChanges
  <2>4. CASE ~Explains(e)
    <3>1. captions' = captions /\ screen' = screen
      BY <2>1, <2>4
    <3>2. GateStays(captions') /\ ScreenStays(screen')
      BY <1>4, <3>1
    <3> QED BY <1>2, <1>3, <2>3, <3>2, ShownKeeps
  <2>5. CASE Explains(e)
    <3>1. /\ x \in Shown /\ x.show = screen.explanation.show /\ x.about = e /\ x.parts # 0 /\ x.st # "unavailable"
          /\ screen.explanation \in Shown
      BY <2>2, <2>5, PublishedFacts DEF ShownAs
    <3> HIDE DEF x
    <3>2. /\ c.explanation \in Shown /\ c.explanation.show = x.show /\ c.explanation.about = x.about
          /\ c.gate \in Gates /\ c.gate.show = x.show
          /\ captions # NoCaptions /\ captions.show = x.show => GateStays(c.gate)
          /\ captions = NoCaptions \/ captions.show # x.show => IsFresh(c.gate)
      BY <3>1, CaptionedFacts
    <3> HIDE DEF c
    <3>3. captions' = c.gate /\ screen' = [screen EXCEPT !.explanation = c.explanation]
      BY <2>1, <2>5
    <3>4. screen.explanation.about = e
      BY <2>5 DEF Explains
    <3>5. ScreenStays(screen')
      BY <1>1, <3>1, <3>2, <3>3, <3>4 DEF ScreenStays, SameShown, ScreenOK
    <3>6. \/ GateStays(captions')
          \/ /\ captions = NoCaptions /\ captions' \in Gates /\ IsFresh(captions')
             /\ captions'.show = screen.explanation.show
      <4>1. CASE captions = NoCaptions
        BY <3>1, <3>2, <3>3, <4>1
      <4>2. CASE captions # NoCaptions
        BY <1>1, <3>1, <3>2, <3>3, <4>2 DEF ScreenOK
      <4> QED BY <4>1, <4>2
    <3> QED BY <1>2, <1>3, <2>3, <3>5, <3>6, ShownKeeps
  <2> QED BY <2>4, <2>5
<1> QED BY <1>5, <1>6

\* The end of an explanation leaves its captions.
LEMMA ExplanationEndKeeps ==
  ASSUME SpeechInv, NEW e \in Explanations, NEW st \in {"ready", "failed", "canceled"}, ExplanationEnds(e, st)
  PROVE  SpeechInv'
<1>1. PreparedOK(e) /\ ScreenOK
  BY DEF SpeechInv, SpeechTypeOK
<1>2. UNCHANGED <<shows, confirmed, called>>
  BY DEF ExplanationEnds, PreparesOnly
<1> DEFINE p == [prepared[e] EXCEPT !.st = st]
<1>3. /\ prepared[e].st # "none" /\ (st = "ready" => prepared[e].parts > 0)
      /\ prepared' = [prepared EXCEPT ![e] = p]
      /\ screen' = IF Explains(e) THEN [screen EXCEPT !.explanation = Published(e, p)] ELSE screen
  BY DEF ExplanationEnds
<1>4. /\ {"st", "parts", "scope"} \subseteq DOMAIN p /\ p.parts \in Nat /\ p.st = st
      /\ st = "ready" => p.parts # 0
  BY <1>1, <1>3 DEF PreparedOK
<1> HIDE DEF p
<1>5. PreparedStays
  BY <1>3, <1>4, PreparedChanges
<1>6. ScreenStays(screen')
  <2>1. CASE Explains(e)
    <3>1. /\ Published(e, p) \in Shown /\ Published(e, p).show = screen.explanation.show
          /\ Published(e, p).about = e
      BY <1>4, <2>1, PublishedFacts
    <3>2. screen.explanation.about = e
      BY <2>1 DEF Explains
    <3> QED BY <1>1, <1>3, <2>1, <3>1, <3>2 DEF ScreenStays, SameShown, ScreenOK
  <2>2. CASE ~Explains(e)
    <3>1. ScreenStays(screen) /\ screen' = screen
      BY <1>3, <2>2, ScreenIsSame
    <3> QED BY <3>1
  <2> QED BY <2>1, <2>2
<1>7. Thinned(chain') /\ ReleasesStay(releases') /\ GateStays(captions')
  <2>1. \/ UNCHANGED <<captions, chain, releases>>
        \/ /\ NewChain
           /\ \/ captions' = Skipped(captions)
              \/ captions # NoCaptions /\ captions' = Skipped([captions EXCEPT !.over = TRUE])
    BY DEF ExplanationEnds, Silences, speaking
  <2>2. Thinned(chain') /\ ReleasesStay(releases')
    BY <2>1, EpochStays
  <2>3. /\ GateStays(captions) /\ GateStays(Skipped(captions))
        /\ captions # NoCaptions => GateStays(Skipped([captions EXCEPT !.over = TRUE]))
    BY GatesStay
  <2>4. GateStays(captions')
    <3>1. CASE captions' = captions
      BY <2>3, <3>1
    <3>2. CASE captions' = Skipped(captions)
      BY <2>3, <3>2
    <3>3. CASE captions # NoCaptions /\ captions' = Skipped([captions EXCEPT !.over = TRUE])
      BY <2>3, <3>3
    <3> QED BY <2>1, <3>1, <3>2, <3>3
  <2> QED BY <2>2, <2>4
<1> QED BY <1>2, <1>5, <1>6, <1>7, ShownKeeps

\* An event that cannot be read ends the speech of what is shown.
LEMMA BreakKeeps == SpeechInv /\ ExplanationBreaks => SpeechInv'
<1> SUFFICES ASSUME SpeechInv, ExplanationBreaks PROVE SpeechInv'
  OBVIOUS
<1>1. /\ screen.explanation # Nothing /\ NewChain /\ captions' = Skipped(captions)
      /\ prepared' = [prepared EXCEPT ![screen.explanation.about].st = "failed"]
      /\ screen' = [screen EXCEPT !.explanation.st = "unavailable", !.explanation.speech = "unavailable"]
      /\ UNCHANGED <<shows, confirmed, called>>
  BY DEF ExplanationBreaks, Silences, PreparesOnly
<1>2. screen.explanation \in Shown /\ ScreenOK /\ SpeechTypeOK
  BY <1>1 DEF SpeechInv, ScreenOK
<1>3. PICK e \in Explanations : e = screen.explanation.about
  BY <1>2 DEF Shown
<1>4. PreparedOK(e) /\ prepared[e].st # "none"
  BY <1>1, <1>2, <1>3 DEF ScreenOK, SpeechTypeOK
<1>5. PICK p : p = [prepared[e] EXCEPT !.st = "failed"]
  OBVIOUS
<1>6. /\ prepared' = [prepared EXCEPT ![e] = p] /\ {"st", "parts", "scope"} \subseteq DOMAIN p
      /\ p.parts \in Nat /\ p.st = "failed"
  BY <1>1, <1>3, <1>4, <1>5 DEF PreparedOK
<1>7. PreparedStays
  BY <1>6, PreparedChanges
<1>8. ScreenStays(screen')
  <2>1. PICK x : x = [screen.explanation EXCEPT !.st = "unavailable", !.speech = "unavailable"]
    OBVIOUS
  <2>2. x \in Shown /\ x.show = screen.explanation.show /\ x.about = screen.explanation.about
    BY <1>2, <2>1 DEF Shown, Speeches
  <2>3. screen' = [screen EXCEPT !.explanation = x]
    BY <1>1, <1>2, <2>1 DEF ScreenOK
  <2> QED BY <1>2, <2>2, <2>3 DEF ScreenStays, SameShown, ScreenOK
<1>9. Thinned(chain') /\ ReleasesStay(releases')
  BY <1>1, EpochStays
<1>10. GateStays(Skipped(captions))
  BY GatesStay
<1>11. GateStays(captions')
  BY <1>1, <1>10
<1> QED BY <1>1, <1>7, <1>8, <1>9, <1>11, ShownKeeps

\* A silence of another show: what is shown goes, or is shown as the next.
LEMMA ActivationKeeps ==
  ASSUME SpeechInv, NEW e \in Explanations, ActivatePresentation(e)
  PROVE  SpeechInv'
<1>1. NewChain /\ UNCHANGED <<prepared, confirmed, called>> /\ shows \in Nat
  BY DEF ActivatePresentation, Silences, SpeechInv, SpeechTypeOK
<1>2. CASE Explains(e)
  <2>1. captions' = Skipped(captions) /\ screen' = screen /\ shows' = shows
    BY <1>2 DEF ActivatePresentation, Silences
  <2>2. ScreenStays(screen) /\ screen' = screen
    BY <2>1, ScreenIsSame
  <2>3. ScreenStays(screen')
    BY <2>2
  <2> QED BY <1>1, <2>1, <2>3, SilenceKeeps
<1>3. CASE ~Explains(e)
  <2>1. /\ captions' = NoCaptions /\ shows' = shows + 1
        /\ screen' = [screen EXCEPT !.explanation = Nothing]
    BY <1>3 DEF ActivatePresentation, Silences, Skipped
  <2>2. Thinned(chain') /\ ReleasesStay(releases')
    BY <1>1, EpochStays
  <2>3. PreparedStays
    BY <1>1, PreparedSame
  <2>4. screen'.explanation = Nothing /\ {"explanation", "remark", "on", "scope"} \subseteq DOMAIN screen'
    BY <2>1 DEF SpeechInv, ScreenOK
  <2> QED BY <1>1, <2>1, <2>2, <2>3, <2>4, NextShowKeeps
<1> QED BY <1>2, <1>3

\* What is shown next has captions of its own, none of them confirmed.
LEMMA ShowKeeps ==
  ASSUME SpeechInv, NEW e \in Explanations, ShowExplanation(e), prepared[e].st # "none"
  PROVE  SpeechInv'
<1>1. /\ shows' = shows + 1 /\ UNCHANGED <<prepared, confirmed, called>>
      /\ shows \in Nat /\ PreparedOK(e) /\ ScreenOK
  BY DEF ShowExplanation, SpeechInv, SpeechTypeOK
<1>2. Thinned(chain') /\ ReleasesStay(releases')
  <2>1. NewEpoch(chain) \/ UNCHANGED <<chain, releases>>
    BY DEF ShowExplanation
  <2> QED BY <2>1, EpochStays
<1>3. PreparedStays
  BY <1>1, PreparedSame
<1> DEFINE x == [about |-> e, show |-> shows', st |-> ShownAs(prepared[e].st), parts |-> prepared[e].parts,
                 speech |-> IdleSpeech(screen.on)]
           c == Captioned(x)
<1>4. /\ x \in Shown /\ x.show = shows' /\ x.about = e
      /\ prepared[e].st \in {"streaming", "ready"} => x.parts # 0 /\ x.st # "unavailable"
  BY <1>1 DEF Shown, Speeches, ShownAs, IdleSpeech, PreparedOK
<1>5. IF prepared[e].st \in {"streaming", "ready"}
      THEN captions' = c.gate /\ screen' = [screen EXCEPT !.explanation = c.explanation]
      ELSE captions' = NoCaptions /\ screen' = [screen EXCEPT !.explanation = x]
  BY DEF ShowExplanation
<1> HIDE DEF x
<1>6. captions = NoCaptions \/ captions.show # x.show
  BY <1>1, <1>4 DEF ScreenOK, Gates
<1>7. CASE prepared[e].st \in {"streaming", "ready"}
  <2>1. /\ c.explanation \in Shown /\ c.explanation.show = x.show /\ c.explanation.about = e
        /\ c.gate \in Gates /\ c.gate.show = x.show /\ IsFresh(c.gate)
    BY <1>4, <1>6, <1>7, CaptionedFacts
  <2> HIDE DEF c
  <2>2. captions' = c.gate /\ screen' = [screen EXCEPT !.explanation = c.explanation]
    BY <1>5, <1>7
  <2>3. screen'.explanation = c.explanation /\ {"explanation", "remark", "on", "scope"} \subseteq DOMAIN screen'
    BY <1>1, <2>2 DEF ScreenOK
  <2>4. /\ screen'.explanation \in Shown /\ screen'.explanation.show = shows' /\ shows < shows'
        /\ prepared'[screen'.explanation.about].st # "none"
        /\ captions' \in Gates /\ captions'.show = shows' /\ IsFresh(captions')
    BY <1>1, <1>4, <2>1, <2>2, <2>3
  <2> QED BY <1>1, <1>2, <1>3, <2>3, <2>4, NextShowKeeps
<1>8. CASE prepared[e].st \notin {"streaming", "ready"}
  <2>1. captions' = NoCaptions /\ screen' = [screen EXCEPT !.explanation = x]
    BY <1>5, <1>8
  <2>2. screen'.explanation = x /\ {"explanation", "remark", "on", "scope"} \subseteq DOMAIN screen'
    BY <1>1, <2>1 DEF ScreenOK
  <2>3. /\ screen'.explanation \in Shown /\ screen'.explanation.show = shows' /\ shows < shows'
        /\ prepared'[screen'.explanation.about].st # "none"
    BY <1>1, <1>4, <2>2
  <2> QED BY <1>1, <1>2, <1>3, <2>1, <2>2, <2>3, NextShowKeeps
<1> QED BY <1>7, <1>8

\* Dismissing an explanation takes its captions and ends its tasks.
LEMMA DismissExplanationKeeps == SpeechInv /\ DismissExplanation => SpeechInv'
<1> SUFFICES ASSUME SpeechInv, DismissExplanation PROVE SpeechInv'
  OBVIOUS
<1>1. /\ captions' = NoCaptions /\ NewChain /\ UNCHANGED <<confirmed, called>>
      /\ shows \in Nat /\ SpeechTypeOK /\ ScreenOK
  BY DEF DismissExplanation, Silences, Skipped, SpeechInv, SpeechTypeOK
<1>2. Thinned(chain') /\ ReleasesStay(releases')
  BY <1>1, EpochStays
<1>3. CASE screen.explanation = Nothing
  <2>1. UNCHANGED <<screen, shows, prepared>>
    BY <1>3 DEF DismissExplanation
  <2>2. PreparedStays
    BY <2>1, PreparedSame
  <2>3. screen'.explanation = Nothing /\ {"explanation", "remark", "on", "scope"} \subseteq DOMAIN screen'
        /\ shows' \in Nat /\ shows <= shows'
    BY <1>1, <1>3, <2>1 DEF ScreenOK
  <2> QED BY <1>1, <1>2, <2>2, <2>3, NextShowKeeps
<1>4. CASE screen.explanation # Nothing
  <2>1. shows' = shows + 1 /\ shows' \in Nat /\ shows < shows'
    BY <1>1, <1>4 DEF DismissExplanation
  <2>2. CASE screen' = [screen EXCEPT !.explanation = Nothing] /\ UNCHANGED prepared
    <3>1. PreparedStays
      BY <2>2, PreparedSame
    <3>2. screen'.explanation = Nothing /\ {"explanation", "remark", "on", "scope"} \subseteq DOMAIN screen'
      BY <1>1, <2>2 DEF ScreenOK
    <3> QED BY <1>1, <1>2, <2>1, <3>1, <3>2, NextShowKeeps
  <2>3. CASE /\ screen' = [screen EXCEPT !.explanation.st = "canceled", !.explanation.speech = "idle",
                                         !.explanation.show = shows']
             /\ prepared' = [prepared EXCEPT ![screen.explanation.about].st = "canceled"]
    <3>1. screen.explanation \in Shown
      BY <1>1, <1>4 DEF ScreenOK
    <3>2. PICK e \in Explanations : e = screen.explanation.about
      BY <3>1 DEF Shown
    <3>3. PreparedOK(e) /\ prepared[e].st # "none"
      BY <1>1, <1>4, <3>2 DEF ScreenOK, SpeechTypeOK
    <3>4. PICK p : p = [prepared[e] EXCEPT !.st = "canceled"]
      OBVIOUS
    <3>5. /\ prepared' = [prepared EXCEPT ![e] = p] /\ {"st", "parts", "scope"} \subseteq DOMAIN p
          /\ p.parts \in Nat /\ p.st = "canceled"
      BY <2>3, <3>2, <3>3, <3>4 DEF PreparedOK
    <3>6. PreparedStays
      BY <3>5, PreparedChanges
    <3>7. PICK x : x = [screen.explanation EXCEPT !.st = "canceled", !.speech = "idle", !.show = shows']
      OBVIOUS
    <3>8. x \in Shown /\ x.show = shows' /\ x.about = e
      <4>1. PICK n \in Nat \ {0} : n = shows'
        BY <1>1, <2>1
      <4>2. x = [screen.explanation EXCEPT !.st = "canceled", !.speech = "idle", !.show = n]
        BY <3>7, <4>1
      <4>3. x \in Shown /\ x.show = n /\ x.about = screen.explanation.about
        BY <3>1, <4>1, <4>2 DEF Shown, Speeches
      <4> QED BY <3>2, <4>1, <4>3
    <3>9. screen' = [screen EXCEPT !.explanation = x]
      BY <1>1, <2>3, <3>7 DEF ScreenOK
    <3>10. screen'.explanation = x /\ {"explanation", "remark", "on", "scope"} \subseteq DOMAIN screen'
      BY <1>1, <3>9 DEF ScreenOK
    <3>11. prepared'[e].st # "none"
      BY <3>3, <3>6 DEF PreparedStays
    <3> QED BY <1>1, <1>2, <2>1, <3>6, <3>8, <3>10, <3>11, NextShowKeeps
  <2> QED BY <1>4, <2>2, <2>3 DEF DismissExplanation
<1> QED BY <1>3, <1>4

\* Steps of the screen only.
LEMMA ScreenKeeps ==
  ASSUME SpeechInv, UNCHANGED <<captions, chain, releases, prepared, shows, confirmed, called>>,
         \/ screen' = screen \/ screen' = Silenced(screen)
         \/ screen' = [Silenced(screen) EXCEPT !.on = FALSE]
         \/ \E b : screen' = [screen EXCEPT !.on = b]
         \/ \E s : screen' = [screen EXCEPT !.scope = s]
  PROVE  SpeechInv'
<1>1. /\ ScreenStays(screen) /\ ScreenStays(Silenced(screen)) /\ ScreenStays([Silenced(screen) EXCEPT !.on = FALSE])
      /\ \A b : ScreenStays([screen EXCEPT !.on = b])
      /\ \A s : ScreenStays([screen EXCEPT !.scope = s])
  BY ScreenIsSame
<1>2. ScreenStays(screen')
  <2>1. CASE screen' = screen
    BY <1>1, <2>1
  <2>2. CASE screen' = Silenced(screen)
    BY <1>1, <2>2
  <2>3. CASE screen' = [Silenced(screen) EXCEPT !.on = FALSE]
    BY <1>1, <2>3
  <2>4. CASE \E b : screen' = [screen EXCEPT !.on = b]
    BY <1>1, <2>4
  <2>5. CASE \E s : screen' = [screen EXCEPT !.scope = s]
    BY <1>1, <2>5
  <2> QED BY <2>1, <2>2, <2>3, <2>4, <2>5
<1>3. ReleasesStay(releases')
  BY DEF SpeechInv, SpeechTypeOK, ReleasesStay
<1> QED BY <1>2, <1>3, QuietKeeps

\* A change of the settings keeps the invariant.
LEMMA SettingKeeps ==
  ASSUME SpeechInv, ChangeSetting \/ SettingAnswered \/ ResetSilenced \/ SilencingAnswered
  PROVE  SpeechInv'
<1>1. UNCHANGED <<prepared, shows, confirmed, called>>
  BY DEF ChangeSetting, SettingAnswered, ResetSilenced, SilencingAnswered, StillHere
<1>2. CASE ChangeSetting \/ ResetSilenced \/ SilencingAnswered
  <2>1. /\ UNCHANGED <<captions, chain, releases>>
        /\ \/ screen' = screen \/ screen' = Silenced(screen)
           \/ screen' = [Silenced(screen) EXCEPT !.on = FALSE]
    BY <1>2 DEF ChangeSetting, ResetSilenced, SilencingAnswered, speaking
  <2> QED BY <1>1, <2>1, ScreenKeeps
<1>3. CASE SettingAnswered
  <2>1. \/ UNCHANGED <<captions, chain, releases>> /\ (screen' = screen \/ screen' = [screen EXCEPT !.on = TRUE])
        \/ /\ captions' = Skipped(captions) /\ NewChain
           /\ screen' = screen \/ screen' = [screen EXCEPT !.on = FALSE]
    BY <1>3 DEF SettingAnswered, Silences, speaking
  <2>2. CASE UNCHANGED <<captions, chain, releases>> /\ (screen' = screen \/ screen' = [screen EXCEPT !.on = TRUE])
    BY <1>1, <2>2, ScreenKeeps
  <2>3. CASE /\ captions' = Skipped(captions) /\ NewChain
             /\ screen' = screen \/ screen' = [screen EXCEPT !.on = FALSE]
    <3>1. ScreenStays(screen) /\ ScreenStays([screen EXCEPT !.on = FALSE])
      BY ScreenIsSame
    <3>2. ScreenStays(screen')
      BY <2>3, <3>1
    <3> QED BY <1>1, <2>3, <3>2, SilenceKeeps
  <2> QED BY <2>1, <2>2, <2>3
<1> QED BY <1>2, <1>3

\* A change of scope, and its way to the service, keep the invariant.
LEMMA WishKeeps ==
  ASSUME SpeechInv, SetViewScope \/ WishStarts \/ WishDismissed \/ WishSilenced \/ WishAnswered
  PROVE  SpeechInv'
<1>1. UNCHANGED <<prepared, confirmed, called>>
  BY DEF SetViewScope, WishStarts, WishDismissed, WishSilenced, WishAnswered, ByWish
<1>2. CASE SetViewScope \/ WishSilenced \/ WishAnswered
  <2>1. /\ UNCHANGED <<captions, chain, releases, shows>>
        /\ \/ screen' = screen \/ screen' = Silenced(screen)
           \/ \E s : screen' = [screen EXCEPT !.scope = s]
    BY <1>2 DEF SetViewScope, WishSilenced, WishAnswered, speaking
  <2> QED BY <1>1, <2>1, ScreenKeeps
<1>3. CASE WishStarts
  <2>1. captions' = captions /\ (DismissesRemark \/ UNCHANGED <<screen, chain, releases, shows>>)
    BY <1>3 DEF WishStarts
  <2> QED BY <1>1, <2>1, DismissalKeeps, ScreenKeeps
<1>4. CASE WishDismissed
  <2>1. \/ /\ UNCHANGED <<captions, chain, releases, shows>>
           /\ \/ screen' = screen \/ \E s : screen' = [screen EXCEPT !.scope = s]
        \/ /\ screen' = [screen EXCEPT !.explanation = Nothing] /\ shows' = shows + 1
           /\ captions' = NoCaptions /\ NewChain
    BY <1>4 DEF WishDismissed, Silences, Skipped, speaking
  <2>2. CASE /\ screen' = [screen EXCEPT !.explanation = Nothing] /\ shows' = shows + 1
             /\ captions' = NoCaptions /\ NewChain
    <3>1. Thinned(chain') /\ ReleasesStay(releases')
      BY <2>2, EpochStays
    <3>2. PreparedStays
      BY <1>1, PreparedSame
    <3>3. /\ screen'.explanation = Nothing /\ {"explanation", "remark", "on", "scope"} \subseteq DOMAIN screen'
          /\ shows \in Nat
      BY <2>2 DEF SpeechInv, ScreenOK, SpeechTypeOK
    <3> QED BY <1>1, <2>2, <3>1, <3>2, <3>3, NextShowKeeps
  <2> QED BY <1>1, <2>1, <2>2, ScreenKeeps
<1> QED BY <1>2, <1>3, <1>4

\* A test of the voice keeps the invariant.
LEMMA TestKeeps == SpeechInv /\ (TestStarts \/ TestGoes) => SpeechInv'
<1> SUFFICES ASSUME SpeechInv, TestStarts \/ TestGoes PROVE SpeechInv'
  OBVIOUS
<1>1. /\ UNCHANGED <<screen, captions, prepared, shows, confirmed, called>>
      /\ NewEpoch(chain) \/ UNCHANGED <<chain, releases>>
  BY DEF TestStarts, TestGoes, StillHere
<1>2. Thinned(chain') /\ ReleasesStay(releases')
  BY <1>1, EpochStays
<1>3. GateStays(captions) /\ ScreenStays(screen) /\ captions' = captions /\ screen' = screen
  BY <1>1, GatesStay, ScreenIsSame
<1>4. GateStays(captions') /\ ScreenStays(screen')
  BY <1>3
<1>5. shows' \in Nat /\ shows <= shows'
  BY <1>1 DEF SpeechInv, SpeechTypeOK
<1> QED BY <1>1, <1>2, <1>4, <1>5, SpeechStays

\* Only what is prepared is about to be shown.
ActivationsFit ==
  /\ DOMAIN activations = Explanations
  /\ \A e \in Explanations :
       "at" \in DOMAIN activations[e] /\ (activations[e].at = "dismiss" => prepared[e].st # "none")

\* What is prepared stays so.
LEMMA PreparedIsKept ==
  ASSUME SpeechInv, NarrationViewNext, NEW e \in Explanations, prepared[e].st # "none"
  PROVE  prepared'[e].st # "none"
<1>1. /\ DOMAIN prepared = Explanations /\ "st" \in DOMAIN prepared[e]
      /\ \A f \in Explanations : "st" \in DOMAIN prepared[f]
  BY DEF SpeechInv, SpeechTypeOK
<1>2. \/ prepared' = prepared
      \/ \E f \in Explanations : \E p :
           /\ p.st \in {"preparing", "streaming", "ready", "failed", "canceled"}
           /\ prepared' = [prepared EXCEPT ![f] = p]
      \/ \E f, st : st \in {"failed", "canceled"} /\ prepared' = [prepared EXCEPT ![f].st = st]
  <2>1. ASSUME NEW f \in Explanations, NEW st \in {"ready", "failed", "canceled"}, ExplanationEnds(f, st)
        PROVE  \E p : p.st = st /\ prepared' = [prepared EXCEPT ![f] = p]
    <3>1. prepared' = [prepared EXCEPT ![f] = [prepared[f] EXCEPT !.st = st]]
      BY <2>1 DEF ExplanationEnds
    <3>2. [prepared[f] EXCEPT !.st = st].st = st
      BY <1>1
    <3> QED BY <3>1, <3>2
  <2>2. ASSUME NEW f \in Explanations, ChunkArrives(f)
        PROVE  \E p : p.st = "streaming" /\ prepared' = [prepared EXCEPT ![f] = p]
    <3>1. prepared' = [prepared EXCEPT ![f] = [prepared[f] EXCEPT !.st = "streaming", !.parts = @ + 1]]
      BY <2>2 DEF ChunkArrives
    <3>2. [prepared[f] EXCEPT !.st = "streaming", !.parts = @ + 1].st = "streaming"
      BY <1>1
    <3> QED BY <3>1, <3>2
  <2>3. ASSUME NEW f \in Explanations, ExplanationStarts(f)
        PROVE  \E p : p.st = "preparing" /\ prepared' = [prepared EXCEPT ![f] = p]
    BY <2>3 DEF ExplanationStarts
  <2>4. ASSUME ExplanationBreaks \/ DismissExplanation
        PROVE  prepared' = prepared \/ \E f, st : st \in {"failed", "canceled"} /\ prepared' = [prepared EXCEPT ![f].st = st]
    BY <2>4 DEF ExplanationBreaks, DismissExplanation
  <2>5. ASSUME NEW f \in Explanations,
               \/ ActivatePresentation(f) \/ ActivationSilenced(f) \/ CheckActivation(f)
               \/ ActivationRefused(f) \/ ShowExplanation(f)
        PROVE  prepared' = prepared
    BY <2>5 DEF ActivatePresentation, ActivationSilenced, CheckActivation, ActivationRefused, ShowExplanation
  <2>6. ASSUME NEW k, ConfirmCaption(k) \/ DrainCaption(k) \/ CaptionUnseen(k) \/ TaskSpeaks(k)
                      \/ TaskAnswered(k) \/ TaskPlayed(k)
        PROVE  prepared' = prepared
    BY <2>6 DEF ConfirmCaption, DrainCaption, CaptionUnseen, TaskSpeaks, TaskAnswered, TaskPlayed, StillHere
  <2>7. ASSUME NEW t, RemarkArrives(t) \/ ReleaseWaits(t) \/ ReleaseSpeaks(t) \/ ReleaseAnswered(t)
        PROVE  prepared' = prepared
    BY <2>7 DEF RemarkArrives, ReleaseWaits, ReleaseSpeaks, ReleaseAnswered, StillHere
  <2>8. ASSUME \/ ConfirmRemark \/ CancelAnswered \/ SilencingAnswered \/ SettingAnswered \/ ResetSilenced
               \/ WishStarts \/ WishDismissed \/ WishSilenced \/ WishAnswered \/ TestGoes
               \/ RemarkUnseen \/ DismissRemark \/ ChangeSetting \/ SetViewScope \/ TestStarts
        PROVE  prepared' = prepared
    BY <2>8 DEF ConfirmRemark, CancelAnswered, SilencingAnswered, SettingAnswered, ResetSilenced, WishStarts,
                WishDismissed, WishSilenced, WishAnswered, TestGoes, RemarkUnseen, DismissRemark, ChangeSetting,
                SetViewScope, TestStarts, ByWish, StillHere
  <2>9. CASE NarrationViewGoes
    BY <2>1, <2>2, <2>3, <2>5, <2>6, <2>7, <2>8, <2>9 DEF NarrationViewGoes
  <2>10. CASE Interference
    BY <2>1, <2>4, <2>6, <2>8, <2>10 DEF Interference
  <2> QED BY <2>9, <2>10 DEF NarrationViewNext
<1> QED BY <1>1, <1>2

\* Every step leaves only what is prepared about to be shown.
LEMMA ActivationsStayFit ==
  ASSUME SpeechInv, ActivationsFit, NarrationViewNext
  PROVE  ActivationsFit'
<1>1. \A e \in Explanations : prepared[e].st # "none" => prepared'[e].st # "none"
  BY PreparedIsKept
<1>2. \/ activations' = activations
      \/ \E e \in Explanations : ActivatePresentation(e) \/ ActivationSilenced(e) \/ CheckActivation(e)
                                 \/ ActivationRefused(e) \/ ShowExplanation(e)
      \/ CancelAnswered
  <2>1. ASSUME NEW e \in Explanations, NEW st, ExplanationStarts(e) \/ ChunkArrives(e) \/ ExplanationEnds(e, st)
        PROVE  activations' = activations
    BY <2>1 DEF ExplanationStarts, ChunkArrives, ExplanationEnds, PreparesOnly
  <2>2. ASSUME NEW k, ConfirmCaption(k) \/ DrainCaption(k) \/ CaptionUnseen(k) \/ TaskSpeaks(k)
                      \/ TaskAnswered(k) \/ TaskPlayed(k)
        PROVE  activations' = activations
    BY <2>2 DEF ConfirmCaption, DrainCaption, CaptionUnseen, TaskSpeaks, TaskAnswered, TaskPlayed, StillHere
  <2>3. ASSUME NEW t, RemarkArrives(t) \/ ReleaseWaits(t) \/ ReleaseSpeaks(t) \/ ReleaseAnswered(t)
        PROVE  activations' = activations
    BY <2>3 DEF RemarkArrives, ReleaseWaits, ReleaseSpeaks, ReleaseAnswered, StillHere
  <2>4. ASSUME \/ ConfirmRemark \/ SilencingAnswered \/ SettingAnswered \/ ResetSilenced
               \/ WishStarts \/ WishDismissed \/ WishSilenced \/ WishAnswered \/ TestGoes
               \/ RemarkUnseen \/ DismissRemark \/ ChangeSetting \/ SetViewScope \/ TestStarts
               \/ ExplanationBreaks \/ DismissExplanation
        PROVE  activations' = activations
    BY <2>4 DEF ConfirmRemark, SilencingAnswered, SettingAnswered, ResetSilenced, WishStarts,
                WishDismissed, WishSilenced, WishAnswered, TestGoes, RemarkUnseen, DismissRemark, ChangeSetting,
                SetViewScope, TestStarts, ByWish, StillHere, ExplanationBreaks, DismissExplanation, PreparesOnly
  <2>5. CASE NarrationViewGoes
    BY <2>1, <2>2, <2>3, <2>4, <2>5 DEF NarrationViewGoes
  <2>6. CASE Interference
    BY <2>1, <2>2, <2>4, <2>6 DEF Interference
  <2> QED BY <2>5, <2>6 DEF NarrationViewNext
<1>3. CASE activations' = activations
  BY <1>1, <1>3 DEF ActivationsFit
<1>4. CASE CancelAnswered
  <2>1. activations' = [e \in Explanations |->
          IF activations[e].at = "dismiss" /\ activations[e].left > 0
          THEN [activations[e] EXCEPT !.left = @ - 1] ELSE activations[e]]
    BY <1>4 DEF CancelAnswered
  <2>2. \A e \in Explanations : "at" \in DOMAIN activations'[e] /\ activations'[e].at = activations[e].at
    BY <2>1 DEF ActivationsFit
  <2> QED BY <1>1, <2>1, <2>2 DEF ActivationsFit
<1>5. ASSUME NEW e \in Explanations,
             \/ ActivatePresentation(e) \/ ActivationSilenced(e) \/ CheckActivation(e)
             \/ ActivationRefused(e) \/ ShowExplanation(e)
      PROVE  ActivationsFit'
  <2>1. PICK a : /\ activations' = [activations EXCEPT ![e] = a] /\ "at" \in DOMAIN a
                 /\ a.at = "dismiss" => CheckActivation(e)
    BY <1>5 DEF ActivatePresentation, ActivationSilenced, CheckActivation, ActivationRefused, ShowExplanation,
                ActivationIs, Rested
  <2>2. CheckActivation(e) => prepared[e].st # "none"
    BY DEF CheckActivation, IsFit
  <2> QED BY <1>1, <2>1, <2>2 DEF ActivationsFit
<1> QED BY <1>2, <1>3, <1>4, <1>5

\* Every step keeps the invariant of the speech.
LEMMA SpeechInvIsKept ==
  ASSUME SpeechInv, ActivationsFit, NarrationViewNext
  PROVE  SpeechInv'
<1>1. ASSUME NEW e \in Explanations,
             \/ ExplanationStarts(e) \/ ChunkArrives(e) \/ ExplanationEnds(e, "ready")
             \/ ActivatePresentation(e) \/ ActivationSilenced(e) \/ CheckActivation(e)
             \/ ActivationRefused(e) \/ ShowExplanation(e)
      PROVE  SpeechInv'
  <2>1. CASE ExplanationStarts(e) \/ ChunkArrives(e)
    BY <2>1, ChunkKeeps
  <2>2. CASE ExplanationEnds(e, "ready")
    BY <2>2, ExplanationEndKeeps
  <2>3. CASE ActivatePresentation(e)
    BY <2>3, ActivationKeeps
  <2>4. CASE ActivationSilenced(e)
    <3>1. UNCHANGED <<captions, chain, releases, prepared, shows, confirmed, called>> /\ screen' = Silenced(screen)
      BY <2>4 DEF ActivationSilenced, speaking
    <3> QED BY <3>1, ScreenKeeps
  <2>5. CASE CheckActivation(e)
    <3>1. DismissesRemark /\ UNCHANGED <<captions, prepared, confirmed, called>>
      BY <2>5 DEF CheckActivation
    <3> QED BY <3>1, DismissalKeeps
  <2>6. CASE ActivationRefused(e)
    <3>1. UNCHANGED <<screen, captions, chain, releases, prepared, shows, confirmed, called>>
      BY <2>6 DEF ActivationRefused, speaking
    <3> QED BY <3>1, ScreenKeeps
  <2>7. CASE ShowExplanation(e)
    <3>1. prepared[e].st # "none"
      BY <2>7 DEF ShowExplanation, ActivationsFit, IsFit
    <3> QED BY <2>7, <3>1, ShowKeeps
  <2> QED BY <1>1, <2>1, <2>2, <2>3, <2>4, <2>5, <2>6, <2>7
<1>2. ASSUME NEW k, ConfirmCaption(k) \/ DrainCaption(k) \/ CaptionUnseen(k) PROVE SpeechInv'
  BY <1>2, ConfirmKeeps, DrainKeeps, CaptionEndKeeps
<1>3. ASSUME NEW i \in DOMAIN chain, TaskSpeaks(i) \/ TaskAnswered(i) \/ TaskPlayed(i) PROVE SpeechInv'
  BY <1>3, TaskSpeaksKeeps, TaskAnswersKeep
<1>4. ASSUME NEW t \in releases, ReleaseWaits(t) \/ ReleaseSpeaks(t) \/ ReleaseAnswered(t) PROVE SpeechInv'
  BY <1>4, ReleaseKeeps
<1>5. DismissRemark => SpeechInv'
  BY DismissalKeeps DEF DismissRemark
<1>6. ASSUME NEW e \in Explanations, NEW st \in {"failed", "canceled"}, ExplanationEnds(e, st) PROVE SpeechInv'
  BY <1>6, ExplanationEndKeeps
<1>7. CASE NarrationViewGoes
  BY <1>1, <1>2, <1>3, <1>4, <1>7, RemarkKeeps, SettingKeeps, WishKeeps, TestKeeps DEF NarrationViewGoes
<1>8. CASE Interference
  BY <1>2, <1>5, <1>6, <1>8, BreakKeeps, RemarkKeeps, DismissExplanationKeeps, SettingKeeps, WishKeeps,
     TestKeeps DEF Interference
<1> QED BY <1>7, <1>8 DEF NarrationViewNext

\* What is given to the service is the next that was confirmed of what is shown.
LEMMA SpeakingFollows ==
  ASSUME SpeechInv, NarrationViewNext, NEW c \in called' \ called
  PROVE  /\ c \in confirmed
         /\ IF c[2] = 0
            THEN /\ screen.remark # Nothing /\ screen.remark.show = c[1] /\ screen.on
                 /\ screen.remark.scope = screen.scope /\ ~IsActive(screen.explanation)
            ELSE /\ screen.explanation # Nothing /\ screen.explanation.show = c[1]
                 /\ \A d \in called : d[1] = c[1] => d[2] < c[2]
<1>1. /\ ChainIsBacked /\ CallsAreBacked /\ DOMAIN chain = 1..Len(chain)
      /\ \A i \in 1..Len(chain) : chain[i] \in SpeechTasks
  BY ElementOfSeq, LenProperties DEF SpeechInv, SpeechTypeOK
<1>2. ASSUME NEW i \in DOMAIN chain, TaskSpeaks(i), called' # called
      PROVE  /\ c = <<chain[i].show, chain[i].part>> /\ StillActive(chain[i]) /\ chain[i].at = "next"
  BY <1>2 DEF TaskSpeaks
<1>3. ASSUME NEW t \in releases, ReleaseSpeaks(t), called' # called
      PROVE  c = <<t.show, 0>> /\ StillCurrent(t, "leading") /\ screen.on
  BY <1>3 DEF ReleaseSpeaks
<1>4. CASE \E i \in DOMAIN chain : TaskSpeaks(i)
  <2>1. PICK i \in DOMAIN chain : TaskSpeaks(i)
    BY <1>4
  <2>2. /\ c = <<chain[i].show, chain[i].part>> /\ StillActive(chain[i]) /\ chain[i].at = "next"
    BY <1>2, <2>1
  <2>3. i \in 1..Len(chain) /\ chain[i].part # 0 /\ c[1] = chain[i].show /\ c[2] = chain[i].part
    BY <1>1, <2>2 DEF SpeechTasks
  <2> QED BY <1>1, <2>2, <2>3 DEF ChainIsBacked, StillActive
<1>5. CASE \E t \in releases : ReleaseSpeaks(t)
  <2>1. PICK t \in releases : ReleaseSpeaks(t)
    BY <1>5
  <2>2. c = <<t.show, 0>> /\ StillCurrent(t, "leading") /\ screen.on
    BY <1>3, <2>1
  <2> QED BY <1>1, <2>2 DEF CallsAreBacked, StillCurrent
<1>6. \/ \E i \in DOMAIN chain : TaskSpeaks(i)
      \/ \E t \in releases : ReleaseSpeaks(t)
      \/ called' = called
  <2>1. ASSUME NEW e \in Explanations, NEW st,
               \/ ExplanationStarts(e) \/ ChunkArrives(e) \/ ExplanationEnds(e, st)
               \/ ActivatePresentation(e) \/ ActivationSilenced(e) \/ CheckActivation(e)
               \/ ActivationRefused(e) \/ ShowExplanation(e)
        PROVE  called' = called
    BY <2>1 DEF ExplanationStarts, ChunkArrives, ExplanationEnds, PreparesOnly, ActivatePresentation,
                ActivationSilenced, CheckActivation, ActivationRefused, ShowExplanation
  <2>2. ASSUME NEW k, ConfirmCaption(k) \/ DrainCaption(k) \/ CaptionUnseen(k) \/ TaskAnswered(k) \/ TaskPlayed(k)
        PROVE  called' = called
    BY <2>2 DEF ConfirmCaption, DrainCaption, CaptionUnseen, TaskAnswered, TaskPlayed
  <2>3. ASSUME NEW t, RemarkArrives(t) \/ ReleaseWaits(t) \/ ReleaseAnswered(t)
        PROVE  called' = called
    BY <2>3 DEF RemarkArrives, ReleaseWaits, ReleaseAnswered
  <2>4. ASSUME \/ ConfirmRemark \/ CancelAnswered \/ SilencingAnswered \/ SettingAnswered \/ ResetSilenced
               \/ WishStarts \/ WishDismissed \/ WishSilenced \/ WishAnswered \/ TestGoes
               \/ RemarkUnseen \/ DismissRemark \/ ChangeSetting \/ SetViewScope \/ TestStarts
               \/ ExplanationBreaks \/ DismissExplanation
        PROVE  called' = called
    BY <2>4 DEF ConfirmRemark, CancelAnswered, SilencingAnswered, SettingAnswered, ResetSilenced, WishStarts,
                WishDismissed, WishSilenced, WishAnswered, TestGoes, RemarkUnseen, DismissRemark, ChangeSetting,
                SetViewScope, TestStarts, ByWish, ExplanationBreaks, DismissExplanation, PreparesOnly
  <2>5. CASE NarrationViewGoes
    BY <2>1, <2>2, <2>3, <2>4, <2>5 DEF NarrationViewGoes
  <2>6. CASE Interference
    BY <2>1, <2>2, <2>4, <2>6 DEF Interference
  <2> QED BY <2>5, <2>6 DEF NarrationViewNext
<1> QED BY <1>4, <1>5, <1>6

\* A caption before its speech, and only the present one (SpeechFollowsCaptions), however
\* what is shown, the scope, the settings and the epoch change while the text waits:
\* #scheduleSpeech and releasePresenceSpeech of narration/controller.ts.
THEOREM SpeechFollowsCaptionsHolds == NarrationViewSpec => SpeechFollowsCaptions
<1> DEFINE Inv == SpeechInv /\ ActivationsFit
<1>1. NarrationViewInit => Inv
  <2>1. NarrationViewInit => ActivationsFit
    BY DEF NarrationViewInit, ActivationsFit, Rested
  <2> QED BY <2>1, SpeechBegins
<1>2. Inv /\ [NarrationViewNext]_narrationViewVars => Inv'
  <2>1. ASSUME Inv, NarrationViewNext PROVE Inv'
    BY <2>1, SpeechInvIsKept, ActivationsStayFit
  <2>2. ASSUME Inv, UNCHANGED narrationViewVars PROVE Inv'
    <3>1. UNCHANGED <<screen, captions, chain, releases, prepared, shows, confirmed, called, activations>>
      BY <2>2 DEF narrationViewVars, speaking
    <3>2. SpeechInv'
      BY <2>2, <3>1, ScreenKeeps
    <3>3. ActivationsFit'
      BY <2>2, <3>1 DEF ActivationsFit
    <3> QED BY <3>2, <3>3
  <2> QED BY <2>1, <2>2
<1>3. Inv /\ [NarrationViewNext]_narrationViewVars =>
        [\A c \in called' \ called :
           /\ c \in confirmed
           /\ IF c[2] = 0
              THEN /\ screen.remark # Nothing /\ screen.remark.show = c[1] /\ screen.on
                   /\ screen.remark.scope = screen.scope /\ ~IsActive(screen.explanation)
              ELSE /\ screen.explanation # Nothing /\ screen.explanation.show = c[1]
                   /\ \A d \in called : d[1] = c[1] => d[2] < c[2]]_narrationViewVars
  BY SpeakingFollows
<1> HIDE DEF Inv
<1> QED BY <1>1, <1>2, <1>3, PTL DEF NarrationViewSpec, SpeechFollowsCaptions

=============================================================================
