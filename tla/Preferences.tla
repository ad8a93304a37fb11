------------------------------ MODULE Preferences ------------------------------
(***************************************************************************)
(* The preferences of the application: the file and the service behind it  *)
(* (preferences/store.rs, service.rs) and the controller of the UI         *)
(* (features/preferences/controller.ts), which shows a choice before it is *)
(* stored. A write names the version it builds on. What becomes of it may  *)
(* be unknown to the controller: then it reads the version that is there   *)
(* and applies the choice again, three times at most.                      *)
(*                                                                         *)
(* The service handles a call under its lock, in one action; the           *)
(* controller has one call under way at a time. A call, an answer or a     *)
(* step of a write may fail, and the application may end at any point.     *)
(***************************************************************************)
EXTENDS Naturals

CONSTANTS PrefLocales, DefaultLocale,
          MaxEdit,           \* bound on the user's choices
          MaxTrouble,        \* bound on failures
          MaxReopen          \* bound on restarts

ASSUME PreferencesAssumption ==
  /\ DefaultLocale \in PrefLocales /\ "none" \notin PrefLocales
  /\ MaxEdit \in Nat /\ MaxTrouble \in Nat /\ MaxReopen \in Nat

NoLocale == "none"
RebaseLimit == 3

VARIABLES
  prefFile,      \* app-preferences-v1.json: kind, version, locale
  prefService,   \* AppPreferencesState: store.is_some(), preferences, recovery_code
  prefUi,        \* the controller's fields
  prefCall,      \* the call it awaits
  lastChoice,    \* history: what the user chose last
  edits, troubles, reopened

prefBounds == <<edits, troubles, reopened>>
prefVars == <<prefFile, prefService, prefUi, prefCall, lastChoice, prefBounds>>

Prefs(n, l) == [n |-> n, l |-> l]
NoPrefService == [up |-> FALSE, store |-> FALSE, prefs |-> Prefs(0, DefaultLocale), recovery |-> TRUE]
NoPrefCall ==
  [kind |-> "none", at |-> "rest", n |-> 0, l |-> DefaultLocale,
   prefs |-> Prefs(0, DefaultLocale), recovery |-> FALSE]

\* What the controller shows before the first answer.
NewController ==
  [status |-> "loading", shown |-> Prefs(0, DefaultLocale), recovery |-> FALSE,
   desired |-> NoLocale, retry |-> NoLocale, begun |-> "no", drain |-> "none", tries |-> 0,
   retrying |-> FALSE]

PrefInit ==
  /\ prefFile \in [kind : {"missing", "unreadable"}, n : {0}, l : {DefaultLocale}]
                 \union [kind : {"legacy", "current"}, n : {1}, l : PrefLocales]
  /\ prefService = NoPrefService /\ prefUi = NewController /\ prefCall = NoPrefCall
  /\ lastChoice = NoLocale /\ edits = 0 /\ troubles = 0 /\ reopened = 0

Trouble == troubles < MaxTrouble /\ troubles' = troubles + 1

-----------------------------------------------------------------------------
(* The store and the service.                                              *)

\* save: when the sync behind the rename fails, the file is the new one all the same.
AsFile(p) == [kind |-> "current", n |-> p.n, l |-> p.l]
Saves(p) == prefFile' = AsFile(p) /\ UNCHANGED troubles
SaveFails(p) == Trouble /\ prefFile' \in {prefFile, AsFile(p)}

\* Opened once at the start. A legacy file is migrated.
OpenService ==
  /\ ~prefService.up
  /\ LET opened(p, ok) == [up |-> TRUE, store |-> TRUE, prefs |-> p, recovery |-> ~ok]
         none == Prefs(0, DefaultLocale)
         stored == Prefs(prefFile.n, prefFile.l)
         moved == Prefs(prefFile.n + 1, prefFile.l)
     IN
     \/ prefFile.kind \in {"missing", "unreadable"}
          /\ prefService' = opened(none, FALSE) /\ UNCHANGED <<prefFile, troubles>>
     \/ prefFile.kind = "current"
          /\ prefService' = opened(stored, TRUE) /\ UNCHANGED <<prefFile, troubles>>
     \/ prefFile.kind = "legacy" /\ prefService' = opened(moved, TRUE) /\ Saves(moved)
     \/ prefFile.kind = "legacy" /\ prefService' = opened(none, FALSE) /\ SaveFails(moved)
     \/ Trouble /\ prefService' = [NoPrefService EXCEPT !.up = TRUE] /\ UNCHANGED prefFile
  /\ UNCHANGED <<prefUi, prefCall, lastChoice, edits, reopened>>

\* A snapshot of the service, or an error.
PrefAnswers(s) ==
  prefCall' = [prefCall EXCEPT !.at = "answer", !.prefs = s.prefs, !.recovery = s.recovery]
PrefError == prefCall' = [prefCall EXCEPT !.at = "error"]

GetPreferences ==
  /\ prefService.up /\ prefCall.kind = "get" /\ prefCall.at = "asked"
  /\ PrefAnswers(prefService)
  /\ UNCHANGED <<prefFile, prefService, prefUi, lastChoice, prefBounds>>

IsExpected == prefService.prefs.n = prefCall.n

\* Seeded bug: the service takes over what it could not save.
BugAfterFailedSave(p) == [prefService EXCEPT !.prefs = p]

AfterFailedSave(p) == prefService

UpdatePreferences ==
  /\ prefService.up /\ prefCall.kind = "update" /\ prefCall.at = "asked"
  /\ LET p == Prefs(prefCall.n + 1, prefCall.l)
         stored == [prefService EXCEPT !.prefs = p, !.recovery = FALSE]
     IN
     \/ IsExpected /\ prefService.store /\ Saves(p)
          /\ prefService' = stored /\ PrefAnswers(stored)
     \/ IsExpected /\ prefService.store /\ SaveFails(p)
          /\ prefService' = AfterFailedSave(p) /\ PrefError
     \/ ~(IsExpected /\ prefService.store)
          /\ PrefError /\ UNCHANGED <<prefFile, prefService, troubles>>
  /\ UNCHANGED <<prefUi, lastChoice, edits, reopened>>

\* A call or its answer is lost on the way.
LoseCall ==
  /\ prefCall.at \in {"asked", "answer"} /\ Trouble /\ PrefError
  /\ UNCHANGED <<prefFile, prefService, prefUi, lastChoice, edits, reopened>>

-----------------------------------------------------------------------------
(* The controller.                                                         *)

AskGet == [NoPrefCall EXCEPT !.kind = "get", !.at = "asked"]
AskUpdate(u) ==
  [NoPrefCall EXCEPT !.kind = "update", !.at = "asked", !.n = u.shown.n, !.l = u.desired]
StatusFor(u) == IF u.recovery THEN "recovery" ELSE "ready"
IsStored(u) == ~u.recovery /\ u.desired = u.shown.l

\* Seeded bug: a choice that could not be written is forgotten.
BugPrefFail(u) ==
  [u EXCEPT !.desired = NoLocale, !.status = "error", !.drain = "none", !.retrying = FALSE]

\* fail: the choice is kept for a retry.
PrefFail(u) ==
  [u EXCEPT !.retry = IF u.desired # NoLocale THEN u.desired ELSE @,
            !.desired = NoLocale, !.status = "error", !.drain = "none", !.retrying = FALSE]

Drained(u) ==
  [u EXCEPT !.desired = NoLocale, !.drain = "none", !.status = StatusFor(u), !.retrying = FALSE]

\* The next turn of the loop of drainUpdates: it ends, or sends the next write.
Loops(u) ==
  IF u.desired = NoLocale \/ IsStored(u)
  THEN prefUi' = Drained(u) /\ prefCall' = NoPrefCall
  ELSE prefUi' = [u EXCEPT !.drain = "write", !.status = "saving"] /\ prefCall' = AskUpdate(u)

\* Seeded bug: the attempts are not counted.
BugWritten(u) == Loops([u EXCEPT !.tries = 0])

\* Behind a write: the choice is stored, given up, or tried again.
Written(u) ==
  IF ~IsStored(u) /\ u.tries >= RebaseLimit
  THEN prefUi' = PrefFail(u) /\ prefCall' = NoPrefCall
  ELSE Loops(u)

PrefUnmoved == UNCHANGED <<prefFile, prefService, troubles, reopened>>

\* The provider is mounted.
Initialize ==
  /\ prefUi.begun = "no" /\ prefUi' = [prefUi EXCEPT !.begun = "asked"] /\ prefCall' = AskGet
  /\ PrefUnmoved /\ UNCHANGED <<lastChoice, edits>>

\* retry: everything is read again, with what could not be written on top.
Retries(patch) ==
  /\ prefUi' = [prefUi EXCEPT !.status = "loading", !.desired = patch, !.retry = NoLocale,
                              !.begun = "asked", !.retrying = TRUE]
  /\ prefCall' = AskGet

\* update. While the UI loads, only the choice that failed can be made again.
Choose(l) ==
  /\ edits < MaxEdit /\ edits' = edits + 1 /\ lastChoice' = l
  /\ prefUi.status = "loading" => prefUi.retrying /\ l = prefUi.desired
  /\ \/ prefUi.status = "error" /\ prefUi.retry # NoLocale /\ Retries(l)
     \/ /\ prefUi.status = "error" /\ prefUi.retry = NoLocale
        /\ prefUi' = [prefUi EXCEPT !.desired = l, !.status = "saving", !.begun = "asked",
                                    !.drain = "start", !.tries = 0]
        /\ prefCall' = AskGet
     \/ /\ prefUi.status # "error" /\ prefUi.desired = NoLocale /\ ~prefUi.recovery
        /\ prefUi.shown.l = l
        /\ prefUi' = [prefUi EXCEPT !.retry = NoLocale] /\ UNCHANGED prefCall
     \/ /\ prefUi.status # "error"
        /\ prefUi.desired # NoLocale \/ prefUi.recovery \/ prefUi.shown.l # l
        /\ LET u == [prefUi EXCEPT !.desired = l, !.retry = NoLocale, !.status = "saving"] IN
           IF prefUi.begun = "asked" \/ prefUi.drain # "none"
           THEN /\ prefUi' = [u EXCEPT !.drain = IF @ = "none" THEN "start" ELSE @]
                /\ UNCHANGED prefCall
           ELSE Loops([u EXCEPT !.tries = 0])
  /\ PrefUnmoved

RetryPreferences ==
  /\ prefUi.status = "error" /\ Retries(prefUi.retry)
  /\ PrefUnmoved /\ UNCHANGED <<lastChoice, edits>>

\* The answer of initialize, and what waits for it: a retry or the loop.
Initialized ==
  /\ prefUi.begun = "asked" /\ prefCall.at \in {"answer", "error"}
  /\ IF prefCall.at = "error"
     THEN prefUi' = [PrefFail(prefUi) EXCEPT !.begun = "failed"] /\ prefCall' = NoPrefCall
     ELSE LET u == [prefUi EXCEPT !.shown = prefCall.prefs, !.recovery = prefCall.recovery,
                                  !.begun = "yes", !.retrying = FALSE, !.tries = 0] IN
          IF u.desired = NoLocale
          THEN prefUi' = [u EXCEPT !.status = StatusFor(u)] /\ prefCall' = NoPrefCall
          ELSE Loops(u)
  /\ PrefUnmoved /\ UNCHANGED <<lastChoice, edits>>

IsAccepted ==
  /\ prefCall.at = "answer" /\ ~prefCall.recovery
  /\ prefCall.prefs = Prefs(prefCall.n + 1, prefCall.l)

WriteAnswered ==
  /\ prefUi.drain = "write" /\ prefCall.at \in {"answer", "error"}
  /\ IF IsAccepted
     THEN Written([prefUi EXCEPT !.shown = prefCall.prefs, !.recovery = FALSE, !.tries = 0])
     ELSE prefUi' = [prefUi EXCEPT !.tries = @ + 1, !.drain = "refresh"] /\ prefCall' = AskGet
  /\ PrefUnmoved /\ UNCHANGED <<lastChoice, edits>>

RefreshAnswered ==
  /\ prefUi.drain = "refresh" /\ prefCall.at \in {"answer", "error"}
  /\ IF prefCall.at = "error"
     THEN prefUi' = PrefFail(prefUi) /\ prefCall' = NoPrefCall
     ELSE Written([prefUi EXCEPT !.shown = prefCall.prefs, !.recovery = prefCall.recovery])
  /\ PrefUnmoved /\ UNCHANGED <<lastChoice, edits>>

\* The application ends and starts again.
Reopen ==
  /\ reopened < MaxReopen /\ reopened' = reopened + 1
  /\ prefService' = NoPrefService /\ prefUi' = NewController /\ prefCall' = NoPrefCall
  /\ lastChoice' = NoLocale /\ UNCHANGED <<prefFile, edits, troubles>>

-----------------------------------------------------------------------------
PrefProgress ==
  \/ OpenService \/ GetPreferences \/ UpdatePreferences
  \/ Initialize \/ Initialized \/ WriteAnswered \/ RefreshAnswered
PrefNext ==
  \/ PrefProgress \/ LoseCall \/ RetryPreferences \/ Reopen
  \/ \E l \in PrefLocales : Choose(l)

PrefSpec == PrefInit /\ [][PrefNext]_prefVars

\* Every call is answered or fails, and the event loop runs on.
PrefFairness == WF_prefVars(PrefProgress)

-----------------------------------------------------------------------------
(* Properties.                                                             *)

\* The user's last choice is never lost: it is about to be written, kept for a retry, or
\* shown as what is stored, whatever failed and whatever was chosen meanwhile.
ChoiceIsKept ==
  lastChoice # NoLocale =>
    lastChoice = CASE prefUi.desired # NoLocale -> prefUi.desired
                      [] prefUi.desired = NoLocale /\ prefUi.retry # NoLocale -> prefUi.retry
                      [] OTHER -> prefUi.shown.l

\* A version is one content: what the UI shows is what the service has under that version,
\* and what the service has is in the file, or was overtaken there by a write that failed.
VersionsAgree ==
  LET agree(a, b) == a.n <= b.n /\ (a.n = b.n => a.l = b.l) IN
  prefService.up =>
    /\ prefUi.shown.n > 0 => agree(prefUi.shown, prefService.prefs)
    /\ prefService.prefs.n > 0 => prefFile.kind = "current" /\ agree(prefService.prefs, prefFile)

PreferencesAreKept == ChoiceIsKept /\ VersionsAgree

\* Saving ends: the choice is stored or reported as failed, however often it is changed.
SavingEnds == prefUi.drain # "none" ~> prefUi.drain = "none"

=============================================================================
