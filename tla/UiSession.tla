------------------------------ MODULE UiSession ------------------------------
(***************************************************************************)
(* The client of the supervisor in the window: the session adapter         *)
(* (workspace-session-adapter.ts) with the store of events                 *)
(* (session-store.ts) and the store the views read                         *)
(* (workspace-session-store.ts).                                           *)
(*                                                                         *)
(* Commands are answered after any delay and events come over a channel of *)
(* their own, so that an answer and the events of what it answers arrive   *)
(* in any order, also when the user has opened another workspace in        *)
(* between. The signal loop emits its events in order; those of other      *)
(* commands, which are numbered under the lock and emitted after it, may   *)
(* be overtaken. A terminal event that is not reported is a commit that    *)
(* is not explained.                                                       *)
(*                                                                         *)
(* The supervisor appears with what it answers and emits (module           *)
(* TurnSession has the rest). A workspace has one thread per generation.   *)
(* The queues of history writes and adapter.stop() are left out.           *)
(***************************************************************************)
EXTENDS Naturals, Sequences, FiniteSets

CONSTANTS Views,            \* workspaces
          MaxUiTurn,        \* bound on the turns
          MaxActivation,    \* bound on the activations
          MaxServer,        \* bound on the generations of the App Server
          MaxCard           \* bound on the cards

NoView == "no workspace"

ASSUME UiAssumption == /\ NoView \notin Views
                       /\ MaxUiTurn \in Nat /\ MaxActivation \in Nat
                       /\ MaxServer \in Nat \ {0} /\ MaxCard \in Nat

UiTurns == 1..MaxUiTurn       \* 0 stands for none

VARIABLES
  native,        \* the supervisor: generation, runtime, loaded workspace, active turn
  turnLog,       \* its turns, with how they stand
  numbers,       \* the normaliser's sequence number of each workspace
  events, aside, \* events of the signal loop, and of other commands, on their way
  cardLog,       \* the cards it has emitted; those still to be answered are open
  view,          \* CodexWorkspaceSessionStore.current
  session,       \* CodexSessionStore
  claim, answers,\* claimedPendingResponses, and the responses that are on their way
  activation,    \* adapter.activation
  openings,      \* activateWorkspaceOnce, for each activation that is at work
  diagnosed,     \* appDiagnostic: none, or one that is ready or not
  start,         \* turnStart
  stopping,      \* stopTurn
  recovery,      \* recoveryTarget, recoveryTimer, recoveryInFlight
  stale, acceptedTurns, observed, notified,   \* the adapter's sets of turns
  reports        \* history: how often a turn was reported to the sink

nativeVars == <<native, turnLog, numbers, cardLog>>
channel == <<events, aside>>
stores == <<view, session>>
responses == <<claim, answers>>
opening == <<activation, openings, diagnosed>>
books == <<stale, acceptedTurns, observed, notified, reports>>
uiVars == <<nativeVars, channel, stores, responses, opening, start, stopping, recovery, books>>

NoTurnStart == [at |-> "none"]
NoStop == [at |-> "none"]
NoSession == [gen |-> 0, last |-> 0, st |-> "idle", turn |-> 0, cards |-> {}]
Blank == [ws |-> NoView, phase |-> "idle", connected |-> FALSE, gen |-> 0, thread |-> NoView,
          turn |-> 0, cards |-> {}]

UiInit ==
  /\ native = [gen |-> 1, up |-> TRUE, ws |-> NoView, turn |-> 0]
  /\ turnLog = [t \in UiTurns |-> [st |-> "none", ws |-> NoView, gen |-> 0]]
  /\ numbers = [w \in Views |-> 0] /\ events = <<>> /\ aside = {} /\ cardLog = <<>>
  /\ view = Blank /\ session = NoSession /\ claim = 0 /\ answers = {}
  /\ activation = 0 /\ openings = {} /\ diagnosed = "none"
  /\ start = NoTurnStart /\ stopping = NoStop
  /\ recovery = [target |-> NoView, timer |-> FALSE, running |-> FALSE]
  /\ stale = {} /\ acceptedTurns = {} /\ observed = {} /\ notified = {}
  /\ reports = [t \in UiTurns |-> 0]

-----------------------------------------------------------------------------
(* The supervisor.                                                         *)

Event(kind, w, about) ==
  [kind |-> kind, ws |-> w, gen |-> native.gen, about |-> about, n |-> numbers[w] + 1]
Numbered(w) == numbers' = [numbers EXCEPT ![w] = @ + 1]
Emits(kind, w, about) == events' = Append(events, Event(kind, w, about)) /\ Numbered(w)
OpenCards == {c \in DOMAIN cardLog : cardLog[c].open}
Closed(cards) == [c \in DOMAIN cardLog |-> [cardLog[c] EXCEPT !.open = @ /\ c \notin cards]]

\* thread_start or thread_resume: another workspace is loaded unless a turn is active.
NativeOpens(o) ==
  /\ o \in openings /\ o.at = "asked"
  /\ IF native.up /\ (native.turn = 0 \/ native.ws = o.ws)
     THEN /\ native' = [native EXCEPT !.ws = o.ws]
          /\ openings' = (openings \ {o}) \union {[o EXCEPT !.at = "opened", !.gen = native.gen]}
     ELSE /\ openings' = (openings \ {o})
               \union {[o EXCEPT !.at = IF native.up THEN "busy" ELSE "down"]}
          /\ UNCHANGED native
  /\ UNCHANGED <<turnLog, numbers, cardLog, channel, stores, responses, activation, diagnosed,
                 start, stopping, recovery, books>>

IsNextTurn(t) == turnLog[t].st = "none" /\ \A u \in UiTurns : u < t => turnLog[u].st # "none"

\* turn_start; turn/started is emitted by the loop.
NativeStarts ==
  /\ start.at = "sent"
  /\ \/ \E t \in UiTurns :
          /\ native.up /\ native.gen = start.gen /\ native.ws = start.ws /\ native.turn = 0
          /\ IsNextTurn(t)
          /\ native' = [native EXCEPT !.turn = t]
          /\ turnLog' = [turnLog EXCEPT ![t] =
               [st |-> "running", ws |-> start.ws, gen |-> start.gen]]
          /\ Emits("running", start.ws, t)
          /\ start' = [start EXCEPT !.at = "ok", !.turn = t]
     \/ /\ start' = [start EXCEPT !.at = IF native.up /\ native.gen = start.gen
                                         THEN "refused" ELSE "down"]
        /\ UNCHANGED <<native, turnLog, numbers, events>>
  /\ UNCHANGED <<cardLog, aside, stores, responses, opening, stopping, recovery, books>>

NativeAsks ==
  /\ native.up /\ native.turn # 0 /\ Len(cardLog) < MaxCard
  /\ \A c \in DOMAIN cardLog : \/ turnLog[cardLog[c].turn].gen # native.gen
                         \/ cardLog[c].ws # native.ws
  /\ cardLog' = Append(cardLog, [ws |-> native.ws, turn |-> native.turn, open |-> TRUE])
  /\ Emits("card", native.ws, Len(cardLog) + 1)
  /\ UNCHANGED <<native, turnLog, aside, stores, responses, opening, start, stopping, recovery,
                 books>>

\* turn/completed, by itself or after an interrupt.
NativeEnds ==
  /\ native.up /\ native.turn # 0
  /\ native' = [native EXCEPT !.turn = 0]
  /\ turnLog' = [turnLog EXCEPT ![native.turn].st = "ended"]
  /\ cardLog' = Closed(OpenCards)
  /\ Emits("ended", turnLog[native.turn].ws, native.turn)
  /\ UNCHANGED <<aside, stores, responses, opening, start, stopping, recovery, books>>

\* handle_disconnect ends the turn; handle_protocol_violation only says that the
\* connection is gone. Both are told for the workspace that is loaded.
NativeLost(ends) ==
  /\ native.up /\ native.gen < MaxServer
  /\ native' = [native EXCEPT !.up = FALSE, !.turn = 0]
  /\ turnLog' = IF native.turn = 0 THEN turnLog
                ELSE [turnLog EXCEPT ![native.turn].st = IF ends THEN "ended" ELSE "gone"]
  /\ cardLog' = Closed(OpenCards)
  /\ LET w == native.ws
         lost == [Event("lost", w, 0) EXCEPT !.n = @ + (IF ends /\ native.turn # 0 THEN 1 ELSE 0)]
     IN IF w = NoView THEN UNCHANGED <<events, numbers>>
        ELSE /\ events' = events
                  \o (IF ends /\ native.turn # 0 THEN <<Event("ended", w, native.turn)>> ELSE <<>>)
                  \o <<lost>>
             /\ numbers' = [numbers EXCEPT ![w] = lost.n]
  /\ UNCHANGED <<aside, stores, responses, opening, start, stopping, recovery, books>>

NativeReturns ==
  /\ ~native.up
  /\ native' = [gen |-> native.gen + 1, up |-> TRUE, ws |-> NoView, turn |-> 0]
  /\ numbers' = [w \in Views |-> 0]
  /\ UNCHANGED <<turnLog, cardLog, channel, stores, responses, opening, start, stopping, recovery,
                 books>>

\* respond_pending: the card is answered once; that it is resolved is emitted aside.
NativeAnswers(a) ==
  /\ a \in answers /\ a.at = "sent"
  /\ IF native.up /\ a.card \in OpenCards
     THEN /\ cardLog' = Closed({a.card})
          /\ aside' = aside \union {Event("resolved", cardLog[a.card].ws, a.card)}
          /\ Numbered(cardLog[a.card].ws)
          /\ answers' = (answers \ {a}) \union {[a EXCEPT !.at = "taken"]}
     ELSE /\ answers' = (answers \ {a}) \union {[a EXCEPT !.at = "refused"]}
          /\ UNCHANGED <<cardLog, aside, numbers>>
  /\ UNCHANGED <<native, turnLog, events, stores, claim, opening, start, stopping, recovery, books>>

-----------------------------------------------------------------------------
(* Opening a workspace, and recovery.                                      *)

\* activateWorkspaceOnce up to its first await.
Opens(w, auto) ==
  /\ activation' = activation + 1
  /\ openings' = openings \union {[token |-> activation + 1, ws |-> w, at |-> "connect",
                                   gen |-> 0, auto |-> auto]}
  /\ session' = NoSession /\ claim' = 0
  /\ view' = [view EXCEPT !.ws = w, !.phase = "connecting", !.gen = 0, !.thread = NoView,
                          !.turn = 0, !.cards = {},
                          !.connected = @ /\ ~(auto /\ view.ws = w)]

ActivateWorkspace(w) ==
  /\ activation < MaxActivation
  /\ Opens(w, FALSE)
  /\ recovery' = [recovery EXCEPT !.target = w, !.timer = FALSE]
  /\ UNCHANGED <<nativeVars, channel, answers, diagnosed, start, stopping, books>>

\* scheduleAutomaticRecovery of an error that may be recovered, by what the store says
\* now.
Schedules(w) ==
  recovery' = [recovery EXCEPT !.timer =
    @ \/ (~recovery.running /\ recovery.target = w /\ view'.ws = w)]

\* The recovery that has ended schedules the next one.
ScheduleAfter(o) ==
  recovery' = [recovery EXCEPT
    !.running = @ /\ ~o.auto,
    !.timer = @ \/ ((o.auto \/ ~recovery.running) /\ recovery.target = o.ws /\ view'.ws = o.ws)]
Settles(o) == recovery' = [recovery EXCEPT !.running = @ /\ ~o.auto]

RunRecovery ==
  /\ recovery.timer
  /\ IF view.ws = recovery.target /\ activation < MaxActivation
     THEN /\ Opens(recovery.target, TRUE)
          /\ recovery' = [recovery EXCEPT !.timer = FALSE, !.running = TRUE]
     ELSE /\ recovery' = [recovery EXCEPT !.timer = FALSE]
          /\ UNCHANGED <<activation, openings, stores, claim>>
  /\ UNCHANGED <<nativeVars, channel, answers, diagnosed, start, stopping, books>>

IsLatest(o) == o.token = activation
OperationError(connected) == view' = [view EXCEPT !.phase = "failed", !.connected = connected]

\* start(): what an earlier connect said is kept, also that the account or the model is
\* missing. An opening that is not ready, for that or for the writer of the history, is
\* blocked and is not retried. A later activation makes this one end in silence.
Connected(o) ==
  /\ o \in openings /\ o.at = "connect"
  /\ \/ \E readiness \in BOOLEAN :
          /\ diagnosed # "none" \/ native.up
          /\ diagnosed' \in IF diagnosed = "none" THEN {"ready", "unready"} ELSE {diagnosed}
          /\ readiness => diagnosed' = "ready"
          /\ view' = IF IsLatest(o)
                     THEN [view EXCEPT !.phase = IF readiness THEN "connecting" ELSE "blocked",
                                       !.connected = TRUE] ELSE view
          /\ IF IsLatest(o) /\ readiness
             THEN openings' = (openings \ {o}) \union {[o EXCEPT !.at = "asked"]} /\ UNCHANGED recovery
             ELSE openings' = openings \ {o} /\ Settles(o)
     \/ /\ diagnosed = "none" /\ ~native.up /\ UNCHANGED diagnosed
        /\ openings' = openings \ {o}
        /\ IF IsLatest(o) THEN OperationError(FALSE) ELSE UNCHANGED view
        /\ ScheduleAfter(o)
  /\ UNCHANGED <<nativeVars, channel, session, responses, activation, start, stopping, books>>

\* The thread is there, or not.
Opened(o) ==
  /\ o \in openings /\ o.at \in {"opened", "busy", "down"}
  /\ openings' = openings \ {o}
  /\ \/ /\ o.at = "opened"
        /\ view' = IF IsLatest(o)
                   THEN [view EXCEPT !.gen = o.gen, !.thread = o.ws, !.phase = "ready"] ELSE view
        /\ Settles(o) /\ UNCHANGED diagnosed
     \/ /\ o.at # "opened"
        /\ IF ~IsLatest(o) THEN UNCHANGED <<view, diagnosed>>
           ELSE /\ diagnosed' = IF o.at = "down" THEN "none" ELSE diagnosed
                /\ IF o.at = "down" THEN OperationError(FALSE)
                   ELSE view' = [view EXCEPT !.phase = "failed"]
        /\ ScheduleAfter(o)
  /\ UNCHANGED <<nativeVars, channel, session, responses, activation, start, stopping, books>>

-----------------------------------------------------------------------------
(* A turn: sendTurn, stopTurn.                                             *)

SendTurn ==
  /\ start = NoTurnStart /\ stale = {} /\ view.connected /\ view.thread # NoView
  /\ view.phase \notin {"running", "waiting", "stopping"} /\ view.gen # 0
  /\ \E t \in UiTurns : turnLog[t].st = "none"
  /\ start' = [at |-> "sent", token |-> activation, ws |-> view.ws, gen |-> view.gen, turn |-> 0]
  /\ UNCHANGED <<nativeVars, channel, stores, responses, opening, stopping, recovery, books>>

\* Seeded bug: an answer for what was left is shown where the user is now.
BugIsCurrent(i) == view.thread # NoView

IsCurrent(i) == i.token = activation /\ view.ws = i.ws /\ view.thread = i.ws /\ view.gen = i.gen

\* emitTerminalWorkUnit, of an accepted turn whose end was observed.
ReportTurn(t, accepted, seen) ==
  IF t \in notified
  THEN /\ acceptedTurns' = accepted /\ observed' = seen \ {t}
       /\ UNCHANGED <<notified, reports>>
  ELSE IF t \in accepted /\ t \in seen
  THEN /\ acceptedTurns' = accepted \ {t} /\ observed' = seen \ {t}
       /\ notified' = notified \union {t} /\ reports' = [reports EXCEPT ![t] = @ + 1]
  ELSE /\ acceptedTurns' = accepted /\ observed' = seen /\ UNCHANGED <<notified, reports>>

\* Seeded bug: the end of a turn that came before the answer is not looked for.
BugAccepted ==
  /\ start.at = "ok"
  /\ acceptedTurns' = acceptedTurns \union {start.turn}
  /\ IF IsCurrent(start)
     THEN /\ view' = [view EXCEPT !.turn = start.turn, !.phase = "running"]
          /\ start' = NoTurnStart /\ UNCHANGED stale
     ELSE /\ stale' = stale \union ({start.turn} \ observed)
          /\ start' = [start EXCEPT !.at = "interrupt"] /\ UNCHANGED view
  /\ UNCHANGED <<nativeVars, channel, session, responses, opening, stopping, recovery, observed,
                 notified, reports>>

\* The turn is accepted. One that the user has left meanwhile is interrupted.
Accepted ==
  /\ start.at = "ok"
  /\ ReportTurn(start.turn, acceptedTurns \union {start.turn}, observed)
  /\ IF IsCurrent(start)
     THEN /\ view' = [view EXCEPT !.turn = start.turn, !.phase = "running"]
          /\ start' = NoTurnStart /\ UNCHANGED stale
     ELSE /\ stale' = stale \union ({start.turn} \ observed)
          /\ start' = [start EXCEPT !.at = "interrupt"] /\ UNCHANGED view
  /\ UNCHANGED <<nativeVars, channel, session, responses, opening, stopping, recovery>>

\* The interrupt is answered, refused or lost, which the caller is told.
InterruptAnswered == start.at = "interrupt" /\ start' = NoTurnStart
  /\ UNCHANGED <<nativeVars, channel, stores, responses, opening, stopping, recovery, books>>

NotAccepted ==
  /\ start.at \in {"refused", "down"} /\ start' = NoTurnStart
  /\ IF ~IsCurrent(start) THEN UNCHANGED <<view, diagnosed, recovery>>
     ELSE IF start.at = "down"
     THEN diagnosed' = "none" /\ OperationError(FALSE) /\ Schedules(start.ws)
     ELSE OperationError(TRUE) /\ UNCHANGED <<diagnosed, recovery>>
  /\ UNCHANGED <<nativeVars, channel, session, responses, activation, openings, stopping, books>>

StopTurn ==
  /\ stopping = NoStop /\ view.turn # 0 /\ view.phase \in {"running", "waiting", "stopping"}
  /\ view' = [view EXCEPT !.phase = "stopping"]
  /\ stopping' = [at |-> "sent", token |-> activation, ws |-> view.ws, gen |-> view.gen]
  /\ UNCHANGED <<nativeVars, channel, session, responses, opening, start, recovery, books>>

\* The interrupt is accepted, or fails, or is not answered in time.
Stopped ==
  /\ stopping # NoStop /\ stopping' = NoStop
  /\ (IsCurrent(stopping) /\ OperationError(TRUE)) \/ UNCHANGED view
  /\ UNCHANGED <<nativeVars, channel, session, responses, opening, start, recovery, books>>

-----------------------------------------------------------------------------
(* Answers to cards. A generation has one of each workspace, all with the  *)
(* same handle.                                                            *)

\* claimPendingResponse: one answer at a time. A claim is an object of its own.
Respond(c) ==
  /\ c \in session.cards /\ claim = 0 /\ view.gen # 0
  /\ \E i \in 1..2 :
       /\ \A a \in answers : a.i # i
       /\ claim' = i /\ answers' = answers \union {[i |-> i, card |-> c, at |-> "sent"]}
  /\ UNCHANGED <<nativeVars, channel, stores, opening, start, stopping, recovery, books>>

\* completePendingResponse, releasePendingResponse: the claim may be gone, with its card.
Responded(a) ==
  /\ a \in answers /\ a.at \in {"taken", "refused"} /\ answers' = answers \ {a}
  /\ claim' = IF claim = a.i THEN 0 ELSE claim
  /\ session' = IF a.at = "taken" /\ claim = a.i
                THEN [session EXCEPT !.cards = @ \ {a.card}] ELSE session
  /\ UNCHANGED <<nativeVars, channel, view, opening, start, stopping, recovery, books>>

-----------------------------------------------------------------------------
(* Events: CodexSessionClient.start, canApplyEvent, CodexSessionStore.apply*)
(* and receiveEvent.                                                       *)

CanApply(e) == e.ws = view.ws /\ view.gen = e.gen /\ view.thread # NoView
Applies(e) == CanApply(e) /\ e.n > session.last

\* reduce: one handle is one card. The end of a turn takes its cards with it.
Reduced(e) ==
  LET s == [session EXCEPT !.gen = e.gen, !.last = e.n] IN
  CASE e.kind = "running" -> [s EXCEPT !.turn = e.about, !.st = "running"]
    [] e.kind = "ended" -> [s EXCEPT !.turn = e.about, !.st = "ended", !.cards = {}]
    [] e.kind = "card" -> [s EXCEPT !.cards = {e.about}]
    [] e.kind = "resolved" -> [s EXCEPT !.cards = {}]
    [] OTHER -> s

\* phaseFromSession.
PhaseOf(s, phase) ==
  IF s.st = "ended" THEN "completed"
  ELSE IF phase = "stopping" THEN phase
  ELSE IF s.cards # {} THEN "waiting"
  ELSE IF s.st = "running" THEN "running"
  ELSE IF phase \in {"connecting", "blocked"} THEN phase ELSE "ready"

\* syncSession.
Synced(s, v) ==
  [v EXCEPT !.phase = PhaseOf(s, v.phase), !.gen = s.gen, !.cards = s.cards,
            !.turn = IF s.turn # 0 THEN s.turn ELSE @]

\* An event that does not count any more is still looked at for the end of its turn.
Receives(e) ==
  /\ IF Applies(e)
     THEN /\ session' = Reduced(e)
          /\ view' = IF e.kind = "lost" /\ recovery.target = view.ws
                     THEN [Synced(Reduced(e), [view EXCEPT !.phase = "failed"])
                             EXCEPT !.connected = FALSE]
                     ELSE Synced(Reduced(e), view)
          /\ claim' = IF e.kind \in {"ended", "resolved"} THEN 0 ELSE claim
          /\ diagnosed' = IF e.kind = "lost" THEN "none" ELSE diagnosed
          /\ IF e.kind = "lost" THEN Schedules(view.ws) ELSE UNCHANGED recovery
     ELSE UNCHANGED <<session, view, claim, diagnosed, recovery>>
  /\ IF e.kind = "ended"
     THEN /\ stale' = stale \ {e.about}
          /\ ReportTurn(e.about, acceptedTurns, observed \union {e.about})
     ELSE UNCHANGED books
  /\ UNCHANGED <<nativeVars, answers, activation, openings, start, stopping>>

Deliver ==
  \/ events # <<>> /\ events' = Tail(events) /\ Receives(Head(events)) /\ UNCHANGED aside
  \/ \E e \in aside : aside' = aside \ {e} /\ Receives(e) /\ UNCHANGED events

-----------------------------------------------------------------------------

NativeStep ==
  \/ \E o \in openings : NativeOpens(o)
  \/ NativeStarts \/ NativeAsks \/ NativeEnds \/ NativeReturns
  \/ \E ends \in BOOLEAN : NativeLost(ends)
  \/ \E a \in answers : NativeAnswers(a)
UserOfView ==
  \/ \E w \in Views : ActivateWorkspace(w)
  \/ SendTurn \/ StopTurn
  \/ \E c \in session.cards : Respond(c)
Adapter ==
  \/ RunRecovery \/ Accepted \/ InterruptAnswered \/ NotAccepted \/ Stopped
  \/ \E o \in openings : Connected(o) \/ Opened(o)
  \/ \E a \in answers : Responded(a)

UiNext == NativeStep \/ UserOfView \/ Adapter \/ Deliver

UiSpec == UiInit /\ [][UiNext]_uiVars

-----------------------------------------------------------------------------
(* Properties.                                                             *)

\* What is shown is of the workspace that is shown and of its generation: its thread,
\* its turn and its cards, although the answers and events of a workspace that was left
\* arrive later.
NothingMixed ==
  /\ view.thread \in {NoView, view.ws}
  /\ view.turn # 0 => turnLog[view.turn].ws = view.ws
                        /\ (view.gen # 0 => turnLog[view.turn].gen = view.gen)
  /\ \A c \in session.cards : turnLog[cardLog[c].turn].gen = session.gen
                                /\ cardLog[c].ws = view.ws

\* A turn is reported to the lifecycle sink once, when it was accepted and has ended, in
\* whichever order the two are learned.
ReportedOnce ==
  \A t \in UiTurns :
    /\ reports[t] <= 1
    /\ reports[t] = 1 => turnLog[t].st = "ended"
    /\ turnLog[t].st = "ended" /\ (start.at # "ok" \/ start.turn # t)
         /\ (\A i \in DOMAIN events : events[i].kind = "ended" => events[i].about # t)
       => reports[t] = 1

\* What the client shows is of one session, and what it reports happened.
SessionIsSound == NothingMixed /\ ReportedOnce

\* docs/screen-design/S-002_coding-workspace.md:208: what is shown as running leaves that
\* state when the turn ends. So a turn whose end has been reported is not shown as running.
EndedIsNotRunning ==
  \A t \in UiTurns : view.turn = t /\ view.phase = "running" => reports[t] = 0
=============================================================================
