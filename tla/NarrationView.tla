--------------------------- MODULE NarrationView ---------------------------
(***************************************************************************)
(* The narration of the window (narration/controller.ts): which remark or  *)
(* which explanation is shown, and when the service (module Narration) is  *)
(* asked to speak it. A caption comes first: its text is spoken after the  *)
(* view has said that the caption is visible, and a moment later.          *)
(*                                                                         *)
(* Everything runs on one thread, but each call of the service is awaited, *)
(* and so are the moments: in between other events are handled. What was   *)
(* waiting then compares an epoch and the caption it belongs to with the   *)
(* present ones. A task whose epoch is the present one is live here. Calls *)
(* are answered in any order, in any way and after any time.               *)
(*                                                                         *)
(* An explanation is prepared from events and shown when it is activated.  *)
(* Settings and a scope are there from the beginning; a workspace has one  *)
(* generation. Left out: the limits of prepared explanations and of        *)
(* remembered remarks, several commands of the settings at a time (the     *)
(* view offers one), the scope of the remarks' source.                     *)
(***************************************************************************)
EXTENDS Naturals, Sequences, FiniteSets
LOCAL INSTANCE SequencesExt

CONSTANTS Remarks,           \* remarks
          UrgentRemarks,     \* those that wait for a decision
          MinorRemarks,      \* those of a lower rank than the others
          Explanations,      \* commits with their request and locale
          ViewScopes,        \* workspaces with their generation, as the service knows them
          ViewLocales,       \* their languages, which the service does not know
          MaxPart,           \* bound on the chunks of an explanation
          MaxShow,           \* bound on what is shown, one after the other
          MaxDisturbance     \* bound on what interferes: changes of scope and settings, tests,
                             \* dismissals, failed explanations, captions that are not seen

ASSUME NarrationViewAssumption ==
  UrgentRemarks \union MinorRemarks \subseteq Remarks /\ MaxPart \in Nat /\ MaxShow \in Nat /\ MaxDisturbance \in Nat

FullScope == [native : ViewScopes, locale : ViewLocales]

VARIABLES
  screen,      \* #snapshot: presentation, presence, whether speech is on, the scope
  captions,    \* #captionSpeechGate
  remarkGate,  \* #presenceCaptionGate
  chain,       \* the tasks of #speechChain, also those of an earlier chain
  releases,    \* releasePresenceSpeech under way
  cancels,     \* how many cancellations #presenceCancellation awaits
  voiceTest,   \* playTest with its caption gate
  prepared,    \* #prepared
  activations, \* activatePresentation under way
  intents,     \* #scopeWriteChain
  disturbances, \* how often something interfered
  setting,     \* setMuted or saveSettings under way
  silencings,  \* cancelSpeech under way that nothing waits for
  shows,       \* #presentationGeneration
  remarked,    \* #presenceDedupe
  confirmed, called    \* history: captions that were confirmed, and spoken, as <<show, chunk>>

speaking == <<captions, remarkGate, chain, releases, voiceTest>>
waiting == <<cancels, silencings, setting>>
narrationViewVars == <<screen, speaking, waiting, prepared, activations, intents, disturbances, shows,
                       remarked, confirmed, called>>

Nothing == [show |-> 0]
NoCaptions == [show |-> 0]
Rested == [at |-> "rest"]
NotPrepared == [st |-> "none"]

NarrationViewInit ==
  /\ screen = [explanation |-> Nothing, remark |-> Nothing, on |-> TRUE,
               scope |-> CHOOSE s \in FullScope : TRUE]
  /\ captions = NoCaptions /\ remarkGate = Nothing /\ chain = << >> /\ releases = {}
  /\ cancels = 0 /\ voiceTest = [at |-> "rest", live |-> FALSE]
  /\ prepared = [e \in Explanations |-> NotPrepared]
  /\ activations = [e \in Explanations |-> Rested]
  /\ intents = << >> /\ disturbances = 0 /\ setting = "none" /\ silencings = 0
  /\ shows = 0 /\ remarked = {} /\ confirmed = {} /\ called = {}

\* isActiveCommitNarrationPresentation
IsActive(x) == x # Nothing /\ x.st \in {"preparing", "streaming", "ready"}
Explains(e) == IsActive(screen.explanation) /\ screen.explanation.about = e
IdleSpeech(on) == IF on THEN "idle" ELSE "off"
WithSpeech(x, speech) == IF x = Nothing THEN x ELSE [x EXCEPT !.speech = speech]
Pending(x) == x # Nothing /\ x.speech \in {"queued", "playing"}

-----------------------------------------------------------------------------
(* Parts of handlers: what ends speech.                                    *)

\* A new epoch: what waits is no longer live. In a new chain the next task does not wait for
\* those of the old one.
Staled(tasks) == [i \in DOMAIN tasks |-> [tasks[i] EXCEPT !.live = FALSE]]
NewEpoch(tasks) ==
  /\ chain' = Staled(tasks)
  /\ releases' = {[r EXCEPT !.live = FALSE] : r \in releases}
Left(tasks) == [i \in DOMAIN tasks |-> [tasks[i] EXCEPT !.old = TRUE]]
NewChain == NewEpoch(Left(chain))
TestStales == voiceTest' = [voiceTest EXCEPT !.live = FALSE]

Skipped(gate) ==
  IF gate = NoCaptions THEN gate
  ELSE [gate EXCEPT !.parts = [k \in DOMAIN @ |->
          IF @[k] \in {"waiting", "leading"} THEN "skipped" ELSE @[k]]]

\* cancelSpeech up to its call, with the caption gate it finds.
Silences(gate) ==
  /\ captions' = Skipped(gate) /\ remarkGate' = Nothing
  /\ NewChain /\ TestStales

\* What follows the answer of the call, which may have failed.
Silenced(s) ==
  [s EXCEPT !.remark = WithSpeech(@, IdleSpeech(s.on)),
            !.explanation =
              IF @ = Nothing \/ @.st = "unavailable" \/ (captions # NoCaptions /\ captions.over) THEN @
              ELSE WithSpeech(@, IdleSpeech(s.on))]

\* dismissPresence up to its wait.
DismissesRemark ==
  IF screen.remark = Nothing THEN UNCHANGED <<screen, remarkGate, chain, releases, voiceTest, shows, cancels>>
  ELSE /\ screen' = [screen EXCEPT !.remark = Nothing]
       /\ remarkGate' = Nothing /\ NewChain /\ TestStales /\ shows' = shows + 1
       /\ cancels' = IF Pending(screen.remark) THEN cancels + 1 ELSE cancels

\* How many cancellations are then waited for; none if there was no remark.
ToAwait == IF screen.remark = Nothing THEN 0 ELSE cancels'

\* terminalizeCaptionSpeech
Terminates ==
  /\ captions' = IF captions = NoCaptions THEN captions ELSE [captions EXCEPT !.over = TRUE]
  /\ NewChain /\ TestStales

MayShow == shows < MaxShow

-----------------------------------------------------------------------------
(* An explanation is prepared and its captions are confirmed: consume.     *)

\* prepareCaptionSpeech for the explanation x: the gate, and the speech of x.
Gate(x) ==
  LET before == IF captions.show = x.show THEN captions.parts ELSE << >>
      parts == before \o [k \in 1..(x.parts - Len(before)) |-> "waiting"]
  IN  [show |-> x.show, parts |-> parts, over |-> captions.show = x.show /\ captions.over]
Captioned(x) ==
  IF x.parts = 0 \/ x.st = "unavailable" THEN [gate |-> captions, explanation |-> x]
  ELSE [gate |-> IF screen.on THEN Gate(x) ELSE Skipped(Gate(x)),
        explanation |->
          CASE ~screen.on -> [x EXCEPT !.speech = "off"]
            [] screen.on /\ ~Gate(x).over /\ x.speech # "playing"
               /\ "waiting" \in {Gate(x).parts[k] : k \in DOMAIN Gate(x).parts} -> [x EXCEPT !.speech = "queued"]
            [] OTHER -> x]

ShownAs(st) == IF st = "failed" THEN "unavailable" ELSE st
Published(e, p) ==
  [screen.explanation EXCEPT !.st = ShownAs(p.st), !.parts = p.parts]

PreparesOnly == UNCHANGED <<cancels, setting, activations, intents, shows, remarked, confirmed, called>>

ExplanationStarts(e) ==
  /\ prepared[e] = NotPrepared
  /\ prepared' = [prepared EXCEPT ![e] = [st |-> "preparing", parts |-> 0, scope |-> screen.scope.native]]
  /\ UNCHANGED <<screen, speaking, silencings>> /\ PreparesOnly

ChunkArrives(e) ==
  /\ prepared[e].st \in {"preparing", "streaming"} /\ prepared[e].parts < MaxPart
  /\ LET p == [prepared[e] EXCEPT !.st = "streaming", !.parts = @ + 1]
         c == Captioned(Published(e, p))
     IN  /\ prepared' = [prepared EXCEPT ![e] = p]
         /\ IF Explains(e) THEN captions' = c.gate /\ screen' = [screen EXCEPT !.explanation = c.explanation]
                           ELSE UNCHANGED <<screen, captions>>
  /\ UNCHANGED <<remarkGate, chain, releases, voiceTest, silencings>> /\ PreparesOnly

\* The explanation ends, or an event comes out of sequence (failPrepared): if it is shown
\* then its speech ends, too.
ExplanationEnds(e, st) ==
  /\ prepared[e].st # "none"
  /\ st = "ready" => prepared[e].parts > 0
  /\ prepared[e].st = "canceled" => st = "failed" /\ prepared[e].parts > 0
  /\ LET p == [prepared[e] EXCEPT !.st = st]
     IN  /\ prepared' = [prepared EXCEPT ![e] = p]
         /\ screen' = IF Explains(e) THEN [screen EXCEPT !.explanation = Published(e, p)] ELSE screen
  /\ IF Explains(e) /\ st # "ready"
     THEN /\ \E over \in BOOLEAN :
               Silences(IF over /\ captions # NoCaptions THEN [captions EXCEPT !.over = TRUE] ELSE captions)
          /\ silencings' = silencings + 1
     ELSE UNCHANGED <<speaking, silencings>>
  /\ PreparesOnly

\* failActivePresentation: an event that cannot be read, or of something unknown.
ExplanationBreaks ==
  /\ screen.explanation # Nothing /\ screen.explanation.speech # "unavailable"
  /\ prepared' = [prepared EXCEPT ![screen.explanation.about].st = "failed"]
  /\ screen' = [screen EXCEPT !.explanation.st = "unavailable", !.explanation.speech = "unavailable"]
  /\ Silences(captions) /\ silencings' = silencings + 1
  /\ PreparesOnly

\* acknowledgeCaptionVisible
ConfirmCaption(k) ==
  /\ screen.explanation # Nothing /\ captions # NoCaptions /\ ~captions.over
  /\ captions.show = screen.explanation.show
  /\ k \in DOMAIN captions.parts /\ captions.parts[k] = "waiting"
  /\ captions' = [captions EXCEPT !.parts[k] = "leading"]
  /\ confirmed' = confirmed \union {<<captions.show, k>>}
  /\ UNCHANGED <<screen, remarkGate, chain, releases, voiceTest, waiting, prepared, activations,
                 intents, shows, remarked, called>>

StillHere == UNCHANGED <<prepared, activations, intents, shows, remarked, confirmed>>

\* The timer of armCaptionAcknowledgmentTimeout.
CaptionUnseen(k) ==
  /\ captions # NoCaptions /\ ~captions.over /\ k \in DOMAIN captions.parts /\ captions.parts[k] = "waiting"
  /\ Terminates /\ screen' = [screen EXCEPT !.explanation = WithSpeech(@, "unavailable")]
  /\ UNCHANGED <<remarkGate, waiting, called>> /\ StillHere

\* drainCaptionSpeech and scheduleSpeech, after the moment.
DrainCaption(k) ==
  /\ captions # NoCaptions /\ ~captions.over /\ k \in DOMAIN captions.parts
  /\ captions.parts[k] = "leading" /\ \A j \in 1..k-1 : captions.parts[j] \in {"scheduled", "skipped"}
  /\ IF screen.on
     THEN /\ captions' = [captions EXCEPT !.parts[k] = "scheduled"]
          /\ chain' = Append(chain, [part |-> k, show |-> captions.show, at |-> "next", live |-> TRUE,
                                     old |-> FALSE])
          /\ screen' = [screen EXCEPT !.explanation.speech = "queued"]
     ELSE captions' = [captions EXCEPT !.parts[k] = "skipped"] /\ UNCHANGED <<chain, screen>>
  /\ UNCHANGED <<remarkGate, releases, voiceTest, waiting, called>> /\ StillHere

-----------------------------------------------------------------------------
(* The tasks of the chain.                                                 *)

\* Seeded bug: a task checks its epoch before its turn comes and not after it.
BugStillActive(t) == TRUE

\* speechStillActive
StillActive(t) ==
  /\ t.live /\ screen.explanation # Nothing /\ captions # NoCaptions /\ ~captions.over
  /\ captions.show = t.show /\ screen.explanation.show = t.show
  /\ screen.explanation.st \notin {"canceled", "unavailable"} /\ screen.explanation.speech # "unavailable"

IsFirst(i) == \A j \in 1..i-1 : chain[j].old # chain[i].old
Finished(i) == RemoveAt(chain, i)
TaskDone(i) == chain' = Finished(i) /\ UNCHANGED <<captions, releases, voiceTest>>
Speech(speech) == screen' = [screen EXCEPT !.explanation.speech = speech]

\* terminalizeCaptionSpeech by the task itself, which is then over. The service is told in
\* vain or not: nothing waits for that.
TaskFails(i) ==
  /\ Speech("unavailable")
  /\ captions' = [captions EXCEPT !.over = TRUE] /\ TestStales
  /\ chain' = Staled(Left(Finished(i)))
  /\ releases' = {[r EXCEPT !.live = FALSE] : r \in releases}

TaskSpeaks(i) ==
  /\ IsFirst(i) /\ chain[i].at = "next"
  /\ IF StillActive(chain[i])
     THEN /\ chain' = [chain EXCEPT ![i].at = "speak"]
          /\ called' = called \union {<<chain[i].show, chain[i].part>>}
          /\ UNCHANGED <<captions, releases, voiceTest>>
     ELSE TaskDone(i) /\ UNCHANGED called
  /\ UNCHANGED <<screen, remarkGate, waiting>> /\ StillHere

TaskAnswered(i) ==
  /\ chain[i].at = "speak"
  /\ IF ~StillActive(chain[i]) THEN TaskDone(i) /\ UNCHANGED screen
     ELSE \/ /\ chain' = [chain EXCEPT ![i].at = "play"] /\ Speech("playing")
             /\ UNCHANGED <<captions, releases, voiceTest>>
          \/ TaskDone(i) /\ Speech("off")
          \/ TaskFails(i)
  /\ UNCHANGED <<remarkGate, waiting, called>> /\ StillHere

\* waitForPlaybackEnd: silence, an error, or no end in time.
TaskPlayed(i) ==
  /\ chain[i].at = "play"
  /\ IF ~StillActive(chain[i]) THEN TaskDone(i) /\ UNCHANGED screen
     ELSE (TaskDone(i) /\ Speech("idle")) \/ TaskFails(i)
  /\ UNCHANGED <<remarkGate, waiting, called>> /\ StillHere

-----------------------------------------------------------------------------
(* Remarks: consumePresence and releasePresenceSpeech.                     *)

\* presencePriority, presenceHoldsPriority
RemarkRank(r) == CASE r \in UrgentRemarks -> 3 [] r \in MinorRemarks -> 1 [] OTHER -> 2
Holds(x) == x.about \in UrgentRemarks \/ Pending(x)
Yields(r) ==
  screen.remark # Nothing /\ Holds(screen.remark) /\ RemarkRank(r) < RemarkRank(screen.remark.about)

RemarkArrives(r) ==
  /\ r \notin remarked /\ ~IsActive(screen.explanation) /\ ~Yields(r) /\ MayShow
  /\ remarked' = remarked \union {r} /\ shows' = shows + 1
  /\ NewChain /\ TestStales
  /\ cancels' = IF Pending(screen.remark) THEN cancels + 1 ELSE cancels
  /\ screen' = [screen EXCEPT !.remark = [about |-> r, show |-> shows', scope |-> screen.scope,
                                           speech |-> IF screen.on THEN "queued" ELSE "off"]]
  /\ remarkGate' = IF screen.on THEN [show |-> shows', st |-> "waiting"] ELSE Nothing
  /\ UNCHANGED <<captions, silencings, setting, prepared, activations, intents, confirmed, called>>

RemarkUnseen ==
  /\ remarkGate # Nothing /\ remarkGate.st = "waiting"
  /\ remarkGate' = [remarkGate EXCEPT !.st = "terminal"]
  /\ screen' = [screen EXCEPT !.remark.speech = "unavailable"]
  /\ UNCHANGED <<captions, chain, releases, voiceTest, waiting, called>> /\ StillHere

\* acknowledgePresenceCaptionVisible
ConfirmRemark ==
  /\ screen.remark # Nothing /\ remarkGate # Nothing /\ remarkGate.st = "waiting"
  /\ remarkGate.show = screen.remark.show /\ screen.scope = screen.remark.scope
  /\ ~IsActive(screen.explanation)
  /\ remarkGate' = [remarkGate EXCEPT !.st = "leading"]
  /\ releases' = releases \union {[show |-> remarkGate.show, at |-> "lead", live |-> TRUE, left |-> 0]}
  /\ confirmed' = confirmed \union {<<remarkGate.show, 0>>}
  /\ UNCHANGED <<screen, captions, chain, voiceTest, waiting, prepared, activations, intents, shows,
                 remarked, called>>

\* presenceStillCurrent
StillCurrent(t, st) ==
  /\ t.live /\ remarkGate = [show |-> t.show, st |-> st]
  /\ screen.remark # Nothing /\ screen.remark.show = t.show /\ screen.scope = screen.remark.scope
  /\ ~IsActive(screen.explanation)

ReleaseBecomes(t, s) == releases' = (releases \ {t}) \union s
RemarkIs(st, speech) ==
  remarkGate' = [remarkGate EXCEPT !.st = st] /\ screen' = [screen EXCEPT !.remark.speech = speech]

\* The moment is over; the task waits for the cancellations there are.
ReleaseWaits(t) ==
  /\ t.at = "lead" /\ ReleaseBecomes(t, {[t EXCEPT !.at = "hold", !.left = cancels]})
  /\ UNCHANGED <<screen, captions, remarkGate, chain, voiceTest, waiting, called>> /\ StillHere

ReleaseSpeaks(t) ==
  /\ t.at = "hold" /\ t.left = 0
  /\ IF StillCurrent(t, "leading") /\ screen.on
     THEN /\ remarkGate' = [remarkGate EXCEPT !.st = "scheduled"] /\ UNCHANGED screen
          /\ ReleaseBecomes(t, {[t EXCEPT !.at = "speak"]})
          /\ called' = called \union {<<t.show, 0>>}
     ELSE /\ IF StillCurrent(t, "leading") THEN RemarkIs("terminal", "off") ELSE UNCHANGED <<remarkGate, screen>>
          /\ ReleaseBecomes(t, {}) /\ UNCHANGED called
  /\ UNCHANGED <<captions, chain, voiceTest, waiting>> /\ StillHere

ReleaseAnswered(t) ==
  /\ t.at \in {"speak", "play"}
  /\ IF StillCurrent(t, "scheduled")
     THEN \/ /\ t.at = "speak" /\ ReleaseBecomes(t, {[t EXCEPT !.at = "play"]})
             /\ RemarkIs("scheduled", "playing")
          \/ /\ \E speech \in {"unavailable", IF t.at = "speak" THEN "off" ELSE "idle"} :
                    RemarkIs("terminal", speech)
             /\ ReleaseBecomes(t, {})
     ELSE ReleaseBecomes(t, {}) /\ UNCHANGED <<remarkGate, screen>>
  /\ UNCHANGED <<captions, chain, voiceTest, waiting, called>> /\ StillHere

\* The decision of a remark is answered, or the view dismisses it: dismissPresence.
DismissRemark ==
  /\ screen.remark # Nothing /\ MayShow /\ DismissesRemark
  /\ UNCHANGED <<captions, silencings, setting, prepared, activations, intents, remarked, confirmed, called>>

\* A cancellation of presenceCancellation is answered: whoever waits has one less to wait for.
CancelAnswered ==
  /\ cancels > 0 /\ cancels' = cancels - 1
  /\ releases' = {IF r.left > 0 THEN [r EXCEPT !.left = @ - 1] ELSE r : r \in releases}
  /\ activations' = [e \in Explanations |->
       IF activations[e].at = "dismiss" /\ activations[e].left > 0
       THEN [activations[e] EXCEPT !.left = @ - 1] ELSE activations[e]]
  /\ intents' = IF intents # << >> /\ Head(intents).at = "dismiss" /\ Head(intents).left > 0
                THEN [intents EXCEPT ![1].left = @ - 1] ELSE intents
  /\ UNCHANGED <<screen, captions, remarkGate, chain, voiceTest, silencings, setting, prepared,
                 shows, remarked, confirmed, called>>

-----------------------------------------------------------------------------
(* Explanations are shown: activatePresentation, dismissPresentation.      *)

ActivationIs(e, a) == activations' = [activations EXCEPT ![e] = a]

\* What is shown goes first; if it is the same explanation, only its speech.
ActivatePresentation(e) ==
  /\ activations[e] = Rested /\ MayShow /\ IsActive(screen.explanation)
  /\ IF Explains(e) THEN Silences(captions) /\ UNCHANGED <<screen, shows>>
     ELSE /\ Silences(NoCaptions) /\ shows' = shows + 1
          /\ screen' = [screen EXCEPT !.explanation = Nothing]
  /\ ActivationIs(e, [at |-> "silence"])
  /\ UNCHANGED <<waiting, prepared, intents, remarked, confirmed, called>>

ActivationSilenced(e) ==
  /\ activations[e].at = "silence" /\ screen' = Silenced(screen) /\ ActivationIs(e, [at |-> "check"])
  /\ UNCHANGED <<speaking, waiting, prepared, intents, shows, remarked, confirmed, called>>

IsFit(e) == prepared[e].st \notin {"none", "canceled"} /\ screen.scope.native = prepared[e].scope

AtCheck(e) == activations[e].at = "check" \/ (activations[e] = Rested /\ ~IsActive(screen.explanation))

CheckActivation(e) ==
  /\ AtCheck(e) /\ MayShow /\ IsFit(e) /\ prepared[e].st # "failed"
  /\ DismissesRemark /\ ActivationIs(e, [at |-> "dismiss", left |-> ToAwait])
  /\ UNCHANGED <<captions, silencings, setting, prepared, intents, remarked, confirmed, called>>

ActivationRefused(e) ==
  /\ activations[e].at = "check" /\ ~IsFit(e) /\ ActivationIs(e, Rested)
  /\ UNCHANGED <<screen, speaking, waiting, prepared, intents, shows, remarked, confirmed, called>>

\* The scope and what is prepared may have changed since; they are not looked at again.
\* What failed is shown without ending the speech of a remark.
ShowExplanation(e) ==
  /\ \/ /\ activations[e].at = "dismiss" /\ activations[e].left = 0
        /\ NewEpoch(chain) /\ TestStales
     \/ /\ AtCheck(e) /\ IsFit(e) /\ prepared[e].st = "failed"
        /\ UNCHANGED <<chain, releases, voiceTest>>
  /\ MayShow /\ shows' = shows + 1 /\ ActivationIs(e, Rested)
  /\ LET x == [about |-> e, show |-> shows', st |-> ShownAs(prepared[e].st), parts |-> prepared[e].parts,
               speech |-> IdleSpeech(screen.on)]
         c == Captioned(x)
     IN  IF prepared[e].st \in {"streaming", "ready"}
         THEN captions' = c.gate /\ screen' = [screen EXCEPT !.explanation = c.explanation]
         ELSE captions' = NoCaptions /\ screen' = [screen EXCEPT !.explanation = x]
  /\ UNCHANGED <<remarkGate, waiting, prepared, intents, remarked, confirmed, called>>

\* dismissPresentation and cancelPresentation, by the view.
DismissExplanation ==
  /\ MayShow /\ Silences(NoCaptions) /\ silencings' = silencings + 1
  /\ IF screen.explanation = Nothing
     THEN silencings = 0 /\ UNCHANGED <<screen, shows, prepared>>
     ELSE /\ shows' = shows + 1
          /\ \/ screen' = [screen EXCEPT !.explanation = Nothing] /\ UNCHANGED prepared
             \/ /\ screen' = [screen EXCEPT !.explanation.st = "canceled", !.explanation.speech = "idle",
                                            !.explanation.show = shows']
                /\ prepared' = [prepared EXCEPT ![screen.explanation.about].st = "canceled"]
  /\ UNCHANGED <<cancels, setting, activations, intents, remarked, confirmed, called>>

SilencingAnswered ==
  /\ silencings > 0 /\ silencings' = silencings - 1 /\ screen' = Silenced(screen)
  /\ UNCHANGED <<speaking, cancels, setting, called>> /\ StillHere

-----------------------------------------------------------------------------
(* Settings, scope and the test.                                           *)

\* saveSettings, setMuted, resetSettings: each waits for the service.
ChangeSetting ==
  /\ setting = "none" /\ setting' \in {"reset", IF screen.on THEN "off" ELSE "on"}
  /\ UNCHANGED <<screen, speaking, cancels, silencings, called>> /\ StillHere

\* A change that is stored is taken over, then speech is ended if it is off; after a reset
\* speech is ended first.
SettingAnswered ==
  /\ setting \in {"on", "off", "reset"}
  /\ \/ setting' = "none" /\ UNCHANGED <<screen, speaking, silencings>>
     \/ /\ setting = "on" /\ setting' = "none" /\ screen' = [screen EXCEPT !.on = TRUE]
        /\ UNCHANGED <<speaking, silencings>>
     \/ /\ setting = "off" /\ setting' = "none" /\ screen' = [screen EXCEPT !.on = FALSE]
        /\ Silences(captions) /\ silencings' = silencings + 1
     \/ /\ setting = "reset" /\ setting' = "resetting" /\ Silences(captions)
        /\ UNCHANGED <<screen, silencings>>
  /\ UNCHANGED <<cancels, called>> /\ StillHere

ResetSilenced ==
  /\ setting = "resetting" /\ setting' = "none" /\ screen' = [Silenced(screen) EXCEPT !.on = FALSE]
  /\ UNCHANGED <<speaking, cancels, silencings, called>> /\ StillHere

\* setScope, with a scope that is not rolled back.
SetViewScope ==
  /\ \E s \in FullScope : intents' = Append(intents, [to |-> s, at |-> "start", left |-> 0])
  /\ UNCHANGED <<screen, speaking, waiting, prepared, activations, shows, remarked, confirmed, called>>

Wish == Head(intents)
WishAt(at) == intents # << >> /\ Wish.at = at
WishOver == intents' = Tail(intents)
WishGoes(at, left) == intents' = [intents EXCEPT ![1].at = at, ![1].left = left]
IsNewest == Len(intents) = 1
ByWish == UNCHANGED <<setting, prepared, activations, remarked, confirmed, called>>

\* applyScope
WishStarts ==
  /\ WishAt("start") /\ MayShow
  /\ IF IsNewest /\ Wish.to # screen.scope
     THEN DismissesRemark /\ WishGoes("dismiss", ToAwait)
     ELSE WishOver /\ UNCHANGED <<screen, remarkGate, chain, releases, voiceTest, shows, cancels>>
  /\ UNCHANGED <<captions, silencings>> /\ ByWish

WishDismissed ==
  /\ WishAt("dismiss") /\ Wish.left = 0 /\ MayShow
  /\ CASE ~IsNewest -> WishOver /\ UNCHANGED <<screen, speaking, shows>>
       [] IsNewest /\ Wish.to.native = screen.scope.native ->
            /\ screen' = [screen EXCEPT !.scope = Wish.to] /\ WishOver /\ UNCHANGED <<speaking, shows>>
       [] IsNewest /\ Wish.to.native # screen.scope.native /\ IsActive(screen.explanation) ->
            /\ screen' = [screen EXCEPT !.explanation = Nothing] /\ shows' = shows + 1
            /\ Silences(NoCaptions) /\ WishGoes("silence", 0)
       [] OTHER -> WishGoes("native", 0) /\ UNCHANGED <<screen, speaking, shows>>
  /\ UNCHANGED <<cancels, silencings>> /\ ByWish

WishSilenced ==
  /\ WishAt("silence") /\ screen' = Silenced(screen)
  /\ IF IsNewest THEN WishGoes("native", 0) ELSE WishOver
  /\ UNCHANGED <<speaking, cancels, silencings, shows>> /\ ByWish

WishAnswered ==
  /\ WishAt("native") /\ WishOver
  /\ screen' \in {screen, IF IsNewest THEN [screen EXCEPT !.scope = Wish.to] ELSE screen}
  /\ UNCHANGED <<speaking, cancels, silencings, shows>> /\ ByWish

\* playTest with the scope that is set, and cancelTest: an epoch of its own, but neither the
\* chain nor the speech of what is shown is reset.
TestStarts ==
  /\ intents = << >>
  /\ NewEpoch(chain) /\ voiceTest' = [at |-> "caption", live |-> TRUE]
  /\ UNCHANGED <<screen, captions, remarkGate, waiting, called>> /\ StillHere

\* The caption of the test is confirmed, the moment passes, the service speaks; or it is
\* over, whatever ends it.
TestGoes ==
  /\ voiceTest.at # "rest"
  /\ \/ /\ voiceTest.live /\ voiceTest.at = "caption" /\ voiceTest' = [voiceTest EXCEPT !.at = "speak"]
        /\ UNCHANGED <<chain, releases>>
     \/ voiceTest' = [at |-> "rest", live |-> FALSE] /\ (NewEpoch(chain) \/ UNCHANGED <<chain, releases>>)
  /\ UNCHANGED <<screen, captions, remarkGate, waiting, called>> /\ StillHere

-----------------------------------------------------------------------------

NarrationViewGoes ==
  \/ \E e \in Explanations :
       \/ ExplanationStarts(e) \/ ChunkArrives(e) \/ ExplanationEnds(e, "ready")
       \/ ActivatePresentation(e) \/ ActivationSilenced(e) \/ CheckActivation(e)
       \/ ActivationRefused(e) \/ ShowExplanation(e)
  \/ \E k \in 1..MaxPart : ConfirmCaption(k) \/ DrainCaption(k)
  \/ \E i \in DOMAIN chain : TaskSpeaks(i) \/ TaskAnswered(i) \/ TaskPlayed(i)
  \/ \E r \in Remarks : RemarkArrives(r)
  \/ \E t \in releases : ReleaseWaits(t) \/ ReleaseSpeaks(t) \/ ReleaseAnswered(t)
  \/ ConfirmRemark \/ CancelAnswered \/ SilencingAnswered \/ SettingAnswered \/ ResetSilenced
  \/ WishStarts \/ WishDismissed \/ WishSilenced \/ WishAnswered \/ TestGoes

Interference ==
  \/ \E e \in Explanations, st \in {"failed", "canceled"} : ExplanationEnds(e, st)
  \/ \E k \in 1..MaxPart : CaptionUnseen(k)
  \/ ExplanationBreaks \/ RemarkUnseen \/ DismissRemark \/ DismissExplanation
  \/ ChangeSetting \/ SetViewScope \/ TestStarts

NarrationViewNext ==
  \/ NarrationViewGoes /\ UNCHANGED disturbances
  \/ Interference /\ disturbances < MaxDisturbance /\ disturbances' = disturbances + 1

NarrationViewSpec == NarrationViewInit /\ [][NarrationViewNext]_narrationViewVars

-----------------------------------------------------------------------------
(* Properties.                                                             *)

\* A caption before its speech, and only the present one: what is given to the service was
\* confirmed as visible and belongs to what is shown at that moment (a remark only while no
\* explanation is shown, in its own scope and with speech on; a chunk after those before it),
\* although all of this may change while the text waits for its turn.
SpeechFollowsCaptions ==
  [][\A c \in called' \ called :
       /\ c \in confirmed
       /\ IF c[2] = 0
          THEN /\ screen.remark # Nothing /\ screen.remark.show = c[1] /\ screen.on
               /\ screen.remark.scope = screen.scope /\ ~IsActive(screen.explanation)
          ELSE /\ screen.explanation # Nothing /\ screen.explanation.show = c[1]
               /\ \A d \in called : d[1] = c[1] => d[2] < c[2]]_narrationViewVars

=============================================================================
