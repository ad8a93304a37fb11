------------------------------ MODULE Presence ------------------------------
(***************************************************************************)
(* The presence director (codex/presence.rs): what happens in the main     *)
(* session becomes candidates for a remark of the support model, which one *)
(* worker has written, one at a time, and which are published.             *)
(*                                                                         *)
(* Messages of the main agent wait in a queue of their own, in order; all  *)
(* else competes for one slot by its rank. The worker may be overtaken by  *)
(* a change of scope (workspace and generation), by the end of the turn,   *)
(* by the user's answer and by the shutdown: the candidate it works on is  *)
(* then marked. That its run is cancelled as well, by a task of its own    *)
(* (module SupportRun), only makes the run end earlier.                    *)
(*                                                                         *)
(* A candidate is built in one locked section and admitted in another one. *)
(* Events of another generation than the scope's are dropped by the first  *)
(* condition of each handler and do not appear.                            *)
(***************************************************************************)
EXTENDS Naturals, Sequences

CONSTANTS Scopes,          \* workspaces with their generation
          Items,           \* messages of a turn
          MaxTurn,         \* bound on the turns
          MaxEra,          \* bound on the changes of scope
          MaxCandidate,    \* bound on the candidates
          MessageLimit     \* MAIN_MESSAGE_QUEUE_CAPACITY

ASSUME PresenceAssumption ==
  MaxTurn \in Nat /\ MaxEra \in Nat /\ MaxCandidate \in Nat /\ MessageLimit \in Nat

NoScope == "no scope"
PresenceTurns == 1..MaxTurn       \* turns are named in order, 0 stands for none

VARIABLES
  scope, era,        \* data.scope, and how often it has changed
  spoken,            \* data.active, with its canceled flag
  slot,              \* data.queued
  messages, seen,    \* data.main_messages, data.seen_main_message_handles
  turnActive, turnsBegun,    \* data.active_turn with its epoch
  arriving,          \* candidates that are built and not yet admitted
  candidates,        \* how many were built
  worker,            \* run_worker
  cooling,           \* the scope that last_published keeps cool
  closing,           \* data.shutting_down
  failed, answered,  \* history: turns that failed, turns whose decision is answered
  published          \* history: what was published

presenceScope == <<scope, era, closing>>
presenceTurn == <<turnActive, turnsBegun>>
presenceQueues == <<slot, messages>>
building == <<arriving, candidates>>
presencePast == <<failed, answered, published>>
presenceVars == <<presenceScope, presenceTurn, presenceQueues, building, presencePast,
                  spoken, seen, worker, cooling>>

Rank == [decision_wait |-> 7, terminal_failure |-> 6, recoverable_failure |-> 5,
         main_message |-> 4, commit_ready |-> 3, turn_completed |-> 2, long_milestone |-> 1]
Urgent == {"main_message", "decision_wait", "terminal_failure"}   \* bypasses_cooldown

NoCandidate == [id |-> 0]
IsNone(c) == c.id = 0

PresenceInit ==
  /\ scope = NoScope /\ era = 0 /\ closing = FALSE /\ turnActive = 0 /\ turnsBegun = 0
  /\ slot = NoCandidate /\ messages = <<>> /\ arriving = {} /\ candidates = 0
  /\ failed = {} /\ answered = {} /\ published = <<>>
  /\ spoken = NoCandidate /\ seen = {} /\ worker = "none" /\ cooling = NoScope

-----------------------------------------------------------------------------
(* Changes of scope and shutdown.                                          *)

\* cancel_active_locked.
CancelSpoken(condition) ==
  spoken' = IF ~IsNone(spoken) /\ condition THEN [spoken EXCEPT !.canceled = TRUE] ELSE spoken

\* Seeded bug: what the worker is at is left alone.
BugDropAll ==
  /\ turnActive' = 0 /\ slot' = NoCandidate /\ messages' = <<>> /\ seen' = {}
  /\ UNCHANGED spoken

DropAll ==
  /\ turnActive' = 0 /\ slot' = NoCandidate /\ messages' = <<>> /\ seen' = {}
  /\ CancelSpoken(TRUE)

\* presence_set_scope, to another workspace, also back to one of before;
\* invalidate_generation, when the generation of the scope ends.
SetScope(s) ==
  /\ s # scope /\ era < MaxEra
  /\ s # NoScope => ~closing
  /\ scope' = s /\ era' = era + 1
  /\ DropAll
  /\ UNCHANGED <<closing, turnsBegun, building, presencePast, worker, cooling>>

\* shutdown and force_shutdown_now, as far as the director goes.
CloseDirector ==
  /\ closing' = TRUE /\ scope' = NoScope
  /\ DropAll
  /\ UNCHANGED <<era, turnsBegun, building, presencePast, worker, cooling>>

-----------------------------------------------------------------------------
(* What the supervisor's events do: observe.                               *)

\* candidate(): it belongs to the active turn, if there is one.
Candidate(trigger, about, turn) ==
  [id |-> candidates + 1, trigger |-> trigger, about |-> about, turn |-> turn, scope |-> scope,
   era |-> 0, canceled |-> FALSE]     \* the era is for when it is admitted
Builds(trigger, about, turn) ==
  /\ scope # NoScope /\ candidates < MaxCandidate
  /\ arriving' = arriving \union {Candidate(trigger, about, turn)}
  /\ candidates' = candidates + 1

\* Events are observed one after the other; work units and timers come in between.
Observing == \E c \in arriving : c.trigger \notin {"commit_ready", "long_milestone"}

\* start_turn drops what waits for another turn.
StartTurn ==
  /\ scope # NoScope /\ ~closing /\ turnsBegun < MaxTurn
  /\ turnsBegun' = turnsBegun + 1 /\ turnActive' = turnsBegun + 1
  /\ slot' = IF ~IsNone(slot) /\ slot.turn # 0 THEN NoCandidate ELSE slot
  /\ messages' = <<>>
  /\ CancelSpoken(spoken.scope = scope /\ spoken.turn # 0)
  /\ UNCHANGED <<presenceScope, building, presencePast, seen, worker, cooling>>

\* stop_turn: a completed turn keeps its messages and its commit.
StopPresenceTurn(t, completed) ==
  /\ turnActive' = IF turnActive = t THEN 0 ELSE turnActive
  /\ slot' = IF ~IsNone(slot) /\ slot.turn = t /\ ~(completed /\ slot.trigger = "commit_ready")
             THEN NoCandidate ELSE slot
  /\ IF completed THEN UNCHANGED <<messages, seen>> ELSE messages' = <<>> /\ seen' = {}
  /\ CancelSpoken(/\ spoken.scope = scope /\ spoken.turn = t
                  /\ ~(completed /\ spoken.trigger \in {"commit_ready", "main_message"}))
  /\ failed' = IF completed THEN failed ELSE failed \union {t}

\* The end of a turn, and then a remark about it, unless it was interrupted.
EndTurn(t, status) ==
  /\ ~Observing /\ t = turnActive
  /\ StopPresenceTurn(t, status = "completed")
  /\ CASE status = "completed" -> Builds("turn_completed", t, 0)
       [] status = "failed" -> Builds("terminal_failure", t, 0)
       [] OTHER -> UNCHANGED building
  /\ UNCHANGED <<presenceScope, turnsBegun, answered, published, worker, cooling>>

\* A message, also one that is delivered again: its handle is reserved first.
ObserveMessage(i) ==
  /\ ~Observing /\ ~closing /\ turnActive # 0 /\ <<turnActive, i>> \notin seen
  /\ Builds("main_message", <<turnActive, i>>, turnActive)
  /\ seen' = seen \union {<<turnActive, i>>}
  /\ UNCHANGED <<presenceScope, presenceTurn, presenceQueues, presencePast, spoken, worker,
                 cooling>>

\* A pending request, or an error that will be retried.
ObserveEvent ==
  /\ ~Observing
  /\ \/ turnActive \notin answered /\ Builds("decision_wait", turnActive, turnActive)
     \/ Builds("recoverable_failure", 0, turnActive)
  /\ UNCHANGED <<presenceScope, presenceTurn, presenceQueues, presencePast, spoken, seen, worker,
                 cooling>>

\* verified_commit, and the timer of a milestone, which builds its candidate if its turn
\* is the active one.
Elsewhere ==
  /\ \/ Builds("commit_ready", 0, turnActive)
     \/ turnActive # 0 /\ Builds("long_milestone", turnActive, turnActive)
  /\ UNCHANGED <<presenceScope, presenceTurn, presenceQueues, presencePast, spoken, seen, worker,
                 cooling>>

\* cancel_decision: the user, who sees the request only after it was observed, answers.
ResolveDecision(t) ==
  /\ ~Observing /\ t <= turnsBegun /\ t \notin answered
  /\ answered' = answered \union {t}
  /\ slot' = IF ~IsNone(slot) /\ slot.trigger = "decision_wait" /\ slot.about = t
             THEN NoCandidate ELSE slot
  /\ CancelSpoken(spoken.trigger = "decision_wait" /\ spoken.about = t)
  /\ UNCHANGED <<presenceScope, presenceTurn, building, messages, failed, published, seen, worker,
                 cooling>>

-----------------------------------------------------------------------------
(* admit.                                                                  *)

Admissible(c) ==
  /\ ~closing /\ c.scope = scope
  /\ c.trigger = "main_message" => c.turn = turnActive /\ Len(messages) < MessageLimit

\* Of two candidates with one trigger the later one waits, and otherwise the one with
\* the higher rank; the slot is not for what is just being written about.
Displaces(c) ==
  /\ ~(~IsNone(spoken) /\ ~spoken.canceled /\ spoken.trigger = c.trigger)
  /\ IsNone(slot) \/ slot.trigger = c.trigger \/ Rank[slot.trigger] <= Rank[c.trigger]

\* Seeded bug: the worker is started for the slot only.
BugAdmit(c) ==
  /\ arriving' = arriving \ {c}
  /\ messages' = IF Admissible(c) /\ c.trigger = "main_message"
                 THEN Append(messages, [c EXCEPT !.era = era]) ELSE messages
  /\ slot' = IF Admissible(c) /\ c.trigger # "main_message" /\ Displaces(c)
             THEN [c EXCEPT !.era = era] ELSE slot
  /\ worker' = IF worker = "none" /\ slot' # slot THEN "pick" ELSE worker
  /\ UNCHANGED <<presenceScope, presenceTurn, candidates, presencePast, spoken, seen, cooling>>

Admit(c) ==
  /\ arriving' = arriving \ {c}
  /\ messages' = IF Admissible(c) /\ c.trigger = "main_message"
                 THEN Append(messages, [c EXCEPT !.era = era]) ELSE messages
  /\ slot' = IF Admissible(c) /\ c.trigger # "main_message" /\ Displaces(c)
             THEN [c EXCEPT !.era = era] ELSE slot
  /\ worker' = IF worker = "none" /\ presenceQueues' # presenceQueues THEN "pick" ELSE worker
  /\ UNCHANGED <<presenceScope, presenceTurn, candidates, presencePast, spoken, seen, cooling>>

-----------------------------------------------------------------------------
(* run_worker.                                                             *)

Cool(c) == c.trigger \notin Urgent /\ cooling = c.scope
\* Seeded bug: the slot goes first whatever its rank.
BugTakesSlot == ~IsNone(slot) /\ ~Cool(slot)

TakesSlot ==
  ~IsNone(slot) /\ ~Cool(slot) /\ (messages = <<>> \/ Rank[slot.trigger] > Rank["main_message"])

Take(c) == ~closing /\ spoken' = c /\ worker' = "execute"

Pick ==
  /\ worker = "pick"
  /\ \/ TakesSlot /\ Take(slot) /\ slot' = NoCandidate /\ UNCHANGED messages
     \/ /\ ~TakesSlot /\ messages # <<>>
        /\ Take(Head(messages)) /\ messages' = Tail(messages) /\ UNCHANGED slot
     \/ /\ ~TakesSlot /\ messages = <<>> /\ ~IsNone(slot) /\ ~closing
        /\ worker' = "wait"
        /\ UNCHANGED <<presenceQueues, spoken>>
     \/ /\ closing \/ (messages = <<>> /\ IsNone(slot))
        /\ worker' = "none"
        /\ UNCHANGED <<presenceQueues, spoken>>
  /\ UNCHANGED <<presenceScope, presenceTurn, building, presencePast, seen, cooling>>

\* The sleep is over, or somebody has notified the worker.
WakeUp ==
  /\ worker = "wait" /\ worker' = "pick"
  /\ UNCHANGED <<presenceScope, presenceTurn, presenceQueues, building, presencePast, spoken,
                 seen, cooling>>

CoolDown ==
  /\ cooling # NoScope /\ cooling' = NoScope
  /\ UNCHANGED <<presenceScope, presenceTurn, presenceQueues, building, presencePast, spoken,
                 seen, worker>>

\* finish_candidate, with the result of the run or its error. The publication is under
\* the lock that decides about it.
Publishable == spoken.scope = scope /\ ~spoken.canceled
Finish(ok) ==
  /\ worker = "execute"
  /\ published' = IF ok /\ Publishable THEN Append(published, spoken) ELSE published
  /\ cooling' = IF ok /\ Publishable THEN spoken.scope ELSE cooling
  /\ spoken' = NoCandidate /\ worker' = "pick"
  /\ UNCHANGED <<presenceScope, presenceTurn, presenceQueues, building, failed, answered, seen>>

-----------------------------------------------------------------------------

PresenceNext ==
  \/ \E s \in Scopes \union {NoScope} : SetScope(s)
  \/ CloseDirector \/ StartTurn
  \/ \E t \in PresenceTurns, status \in {"completed", "failed", "interrupted"} : EndTurn(t, status)
  \/ \E i \in Items : ObserveMessage(i)
  \/ ObserveEvent \/ Elsewhere
  \/ \E t \in PresenceTurns : ResolveDecision(t)
  \/ \E c \in arriving : Admit(c)
  \/ Pick \/ WakeUp \/ CoolDown
  \/ \E ok \in BOOLEAN : Finish(ok)

\* The worker is a task of its own, a run has timeouts, and cooldowns pass.
PresenceFairness ==
  /\ WF_presenceVars(Pick) /\ WF_presenceVars(\E ok \in BOOLEAN : Finish(ok))
  /\ WF_presenceVars(WakeUp) /\ WF_presenceVars(CoolDown)

-----------------------------------------------------------------------------
(* Properties.                                                             *)

\* What is spoken is current: no change of scope since it was admitted, not even
\* away and back; no answer to its decision; and a message's turn has not failed, although
\* the run behind it may be cancelled late or not at all.
SpokenIsCurrent ==
  /\ spoken.era = era
  /\ spoken.trigger = "decision_wait" => spoken.about \notin answered
  /\ spoken.trigger = "main_message" => spoken.turn \notin failed

\* Messages are published in the order they came in, each once, although they are
\* delivered again and urgent remarks overtake them; a turn is said to be completed
\* only after its messages.
MessagesInOrder ==
  \A i, j \in DOMAIN published :
    i < j /\ published[j].trigger = "main_message" =>
      CASE published[i].trigger = "main_message" ->
             published[i].id < published[j].id /\ published[i].about # published[j].about
        [] published[i].trigger = "turn_completed" -> published[i].about # published[j].turn
        [] OTHER -> TRUE

\* finish_candidate publishes only what is current, and in order.
RemarksAreSound == [][published' # published => SpokenIsCurrent /\ MessagesInOrder']_presenceVars

\* Whatever waits is taken up or dropped in the end: the worker is never believed to be
\* running when it has stopped.
RemarksAreServed ==
  /\ (messages # <<>>) ~> (messages = <<>>)
  /\ (slot.id # 0) ~> (slot.id = 0)

=============================================================================
