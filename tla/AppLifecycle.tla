---------------------------- MODULE AppLifecycle ----------------------------
(***************************************************************************)
(* How the application ends: src-tauri/src/app_lifecycle.rs and the        *)
(* ExitRequested handler of src-tauri/src/lib.rs.                          *)
(*                                                                         *)
(* A close (window button, window manager, Cmd-Q) runs request_app_close,  *)
(* an asynchronous task that first asks the Codex supervisor whether a     *)
(* turn is active and only then, under the coordinator's lock, decides.    *)
(* A shutdown attempt is another task: one graceful pass over the four     *)
(* components under a deadline, then a forced cleanup of each component.   *)
(***************************************************************************)
EXTENDS Naturals, Sequences

CONSTANTS Requests,     \* request ids (the code draws a fresh UUID for each)
          Closers,      \* concurrent request_app_close tasks
          TaskSlots,    \* shutdown tasks that can be running at once
          MaxAttempt,   \* bound on the retries of one request
          None          \* no request id

ASSUME AppLifecycleAssumption ==
  /\ MaxAttempt \in Nat \ {0}
  /\ None \notin Requests

\* The order in which both passes visit the components.
Order == <<"codex", "narration", "explanation", "history">>
Components == {"codex", "narration", "explanation", "history"}
Outcome == {"NotRequired", "Completed", "Failed"}  \* Failed: or TimedOut

VARIABLES
  state,        \* AppLifecycleState
  exitReady,    \* the exit_ready flag the ExitRequested handler reads
  exited,       \* the main process is gone
  closer,       \* what each request_app_close task has read so far
  task,         \* the shutdown tasks
  known,        \* request ids the UI has been told of
  turnActive,   \* the supervisor has a pending or active turn
  cleaned,      \* components that really have converged
  issued,       \* history: request ids drawn so far
  declined,     \* history: request ids the user answered with "do not quit"
  gracefulRuns, \* history: graceful passes begun
  forceDone     \* history: forced cleanups completed, per component

coordinator == <<state, exitReady>>
history == <<declined, gracefulRuns, forceDone>>
vars == <<state, exitReady, exited, closer, task, known, turnActive, cleaned,
          issued, declined, gracefulRuns, forceDone>>

NoReport == [c \in Components |-> "NotRequired"]
Reports == [Components -> Outcome]
Idle == [stage |-> "idle", req |-> None, attempt |-> 0, at |-> 1,
         ok |-> TRUE, report |-> NoReport]
Tasks ==
  [stage : {"idle", "graceful", "force", "report"}, req : Requests \union {None},
   attempt : 0..MaxAttempt, at : 1..Len(Order) + 1, ok : BOOLEAN, report : Reports]
Kinds == {"Open", "Confirming", "ShuttingDown", "CleanupFailed", "ExitReady"}
Open == [kind |-> "Open", req |-> None, attempt |-> 0, report |-> NoReport]

\* What the coordinator, the close tasks and the shutdown tasks can hold. A state
\* past Open belongs to a request, and the attempts of a request stay bounded.
TypeOK ==
  /\ state \in [kind : Kinds, req : Requests \union {None},
                attempt : 0..MaxAttempt, report : Reports]
  /\ state.kind # "Open" => state.req \in Requests
  /\ exitReady \in BOOLEAN
  /\ exited \in BOOLEAN
  /\ closer \in [Closers -> {"idle", "sawTurn", "sawNoTurn"}]
  /\ task \in [TaskSlots -> Tasks]
  /\ known \subseteq Requests
  /\ turnActive \in BOOLEAN
  /\ cleaned \subseteq Components
  /\ issued \subseteq Requests
  /\ declined \subseteq Requests
  /\ gracefulRuns \in Nat
  /\ forceDone \in [Components -> Nat]

Init ==
  /\ state = Open
  /\ exitReady = FALSE
  /\ exited = FALSE
  /\ closer = [c \in Closers |-> "idle"]
  /\ task = [s \in TaskSlots |-> Idle]
  /\ known = {}
  /\ turnActive \in BOOLEAN
  /\ cleaned = {}
  /\ issued = {}
  /\ declined = {}
  /\ gracefulRuns = 0
  /\ forceDone = [c \in Components |-> 0]

-----------------------------------------------------------------------------
(* The supervisor, as the close path sees it.                              *)

\* A turn may begin at any time before the supervisor has converged: the
\* coordinator has no hold on the supervisor.
StartTurn ==
  /\ ~exited /\ ~turnActive /\ "codex" \notin cleaned
  /\ turnActive' = TRUE
  /\ UNCHANGED <<coordinator, exited, closer, task, known, cleaned, issued, history>>

EndTurn ==
  /\ ~exited /\ turnActive
  /\ turnActive' = FALSE
  /\ UNCHANGED <<coordinator, exited, closer, task, known, cleaned, issued, history>>

-----------------------------------------------------------------------------
(* Close requests and the answers of the UI.                               *)

\* spawn_app_shutdown: the task takes the attempt's earlier report, if any.
SpawnShutdown(r, n, report, fresh) ==
  \E s \in TaskSlots :
    /\ task[s].stage = "idle"
    /\ task' = [task EXCEPT ![s] =
         [stage |-> IF fresh THEN "graceful" ELSE "force", req |-> r,
          attempt |-> n, at |-> 1, ok |-> TRUE, report |-> report]]
    /\ gracefulRuns' = IF fresh THEN gracefulRuns + 1 ELSE gracefulRuns

\* The first half of request_app_close: active_turn_identity().await.
ReadActiveTurn(c) ==
  /\ ~exited /\ ~exitReady /\ closer[c] = "idle"
  /\ closer' = [closer EXCEPT ![c] = IF turnActive THEN "sawTurn" ELSE "sawNoTurn"]
  /\ UNCHANGED <<coordinator, exited, task, known, turnActive, cleaned, issued, history>>

\* The second half: the decision under the lock, with what was read before.
RequestClose(c) ==
  /\ ~exited /\ closer[c] # "idle"
  /\ closer' = [closer EXCEPT ![c] = "idle"]
  /\ \/ /\ state.kind = "Open" /\ closer[c] = "sawNoTurn"
        /\ \E r \in Requests \ issued :
             /\ issued' = issued \union {r}
             /\ state' = [kind |-> "ShuttingDown", req |-> r, attempt |-> 1,
                          report |-> NoReport]
             /\ SpawnShutdown(r, 1, NoReport, TRUE)
        /\ UNCHANGED known
     \/ /\ state.kind = "Open" /\ closer[c] = "sawTurn"
        /\ \E r \in Requests \ issued :
             /\ issued' = issued \union {r}
             /\ state' = [kind |-> "Confirming", req |-> r, attempt |-> 0,
                          report |-> NoReport]
             /\ known' = known \union {r}
        /\ UNCHANGED <<task, gracefulRuns>>
     \/ /\ state.kind # "Open"      \* prompt again, show the failure, or nothing
        /\ UNCHANGED <<state, task, known, issued, gracefulRuns>>
  /\ UNCHANGED <<exitReady, exited, turnActive, cleaned, declined, forceDone>>

CancelQuit(r) ==
  /\ ~exited /\ r \in known
  /\ state.kind = "Confirming" /\ state.req = r
  /\ state' = Open
  /\ declined' = declined \union {r}
  /\ UNCHANGED <<exitReady, exited, closer, task, known, turnActive, cleaned,
                 issued, gracefulRuns, forceDone>>

\* Seeded bug: the confirmation does not look at the state it is an answer to.
BugConfirmAnyState(r) ==
  /\ ~exited /\ r \in known
  /\ state' = [kind |-> "ShuttingDown", req |-> r, attempt |-> 1, report |-> NoReport]
  /\ SpawnShutdown(r, 1, NoReport, TRUE)
  /\ UNCHANGED <<exitReady, exited, closer, known, turnActive, cleaned, issued,
                 declined, forceDone>>

\* Seeded bug: any confirming request is confirmed, whichever is answered.
BugConfirmAnyRequest(r) ==
  /\ ~exited /\ r \in known
  /\ state.kind = "Confirming"
  /\ state' = [kind |-> "ShuttingDown", req |-> r, attempt |-> 1, report |-> NoReport]
  /\ SpawnShutdown(r, 1, NoReport, TRUE)
  /\ UNCHANGED <<exitReady, exited, closer, known, turnActive, cleaned, issued,
                 declined, forceDone>>

ConfirmQuit(r) ==
  /\ ~exited /\ r \in known
  /\ state.kind = "Confirming" /\ state.req = r
  /\ state' = [kind |-> "ShuttingDown", req |-> r, attempt |-> 1, report |-> NoReport]
  /\ SpawnShutdown(r, 1, NoReport, TRUE)
  /\ UNCHANGED <<exitReady, exited, closer, known, turnActive, cleaned, issued,
                 declined, forceDone>>

\* Seeded bug: the retry forgets what the failed attempt had completed.
BugRetryFromScratch(r) ==
  /\ ~exited /\ r \in known
  /\ state.kind = "CleanupFailed" /\ state.req = r
  /\ state.attempt < MaxAttempt
  /\ state' = [state EXCEPT !.kind = "ShuttingDown", !.attempt = @ + 1]
  /\ SpawnShutdown(r, state.attempt + 1, NoReport, FALSE)
  /\ UNCHANGED <<exitReady, exited, closer, known, turnActive, cleaned, issued,
                 declined, forceDone>>

RetryCleanup(r) ==
  /\ ~exited /\ r \in known
  /\ state.kind = "CleanupFailed" /\ state.req = r
  /\ state.attempt < MaxAttempt     \* bound; the code saturates at 65535
  /\ state' = [state EXCEPT !.kind = "ShuttingDown", !.attempt = @ + 1]
  /\ SpawnShutdown(r, state.attempt + 1, state.report, FALSE)
  /\ UNCHANGED <<exitReady, exited, closer, known, turnActive, cleaned, issued,
                 declined, forceDone>>

-----------------------------------------------------------------------------
(* The shutdown task.                                                      *)

\* Converging the supervisor interrupts whatever turn was left.
Converge(c, ok) ==
  /\ cleaned' = IF ok THEN cleaned \union {c} ELSE cleaned
  /\ turnActive' = (turnActive /\ ~(ok /\ c = "codex"))

\* One component of graceful_shutdown; it goes on after a failed one.
GracefulStep(s, ok) ==
  /\ ~exited /\ task[s].stage = "graceful" /\ task[s].at <= Len(Order)
  /\ task' = [task EXCEPT ![s].at = @ + 1, ![s].ok = @ /\ ok]
  /\ Converge(Order[task[s].at], ok)
  /\ UNCHANGED <<coordinator, exited, closer, known, issued, history>>

\* The graceful pass is over: all four converged, or one did not.
GracefulEnd(s) ==
  /\ ~exited /\ task[s].stage = "graceful" /\ task[s].at = Len(Order) + 1
  /\ task' = [task EXCEPT ![s].stage = IF task[s].ok THEN "report" ELSE "force",
                          ![s].at = 1]
  /\ UNCHANGED <<coordinator, exited, closer, known, turnActive, cleaned, issued,
                 history>>

\* APP_SHUTDOWN_DEADLINE drops the pass wherever it is.
GracefulTimeout(s) ==
  /\ ~exited /\ task[s].stage = "graceful"
  /\ task' = [task EXCEPT ![s].stage = "force", ![s].at = 1, ![s].ok = FALSE]
  /\ UNCHANGED <<coordinator, exited, closer, known, turnActive, cleaned, issued,
                 history>>

\* run_force_cleanup of the next component; one already Completed is skipped.
ForceStep(s, ok) ==
  /\ ~exited /\ task[s].stage = "force" /\ task[s].at <= Len(Order)
  /\ LET c == Order[task[s].at] IN
       IF task[s].report[c] = "Completed"
       THEN /\ task' = [task EXCEPT ![s].at = @ + 1]
            /\ UNCHANGED <<cleaned, turnActive, forceDone>>
       ELSE /\ task' = [task EXCEPT ![s].at = @ + 1, ![s].report[c] =
                                    IF ok THEN "Completed" ELSE "Failed"]
            /\ Converge(c, ok)
            /\ forceDone' = [forceDone EXCEPT ![c] = IF ok THEN @ + 1 ELSE @]
  /\ UNCHANGED <<coordinator, exited, closer, known, issued, declined, gracefulRuns>>

ForceEnd(s) ==
  /\ ~exited /\ task[s].stage = "force" /\ task[s].at = Len(Order) + 1
  /\ task' = [task EXCEPT ![s].stage = "report", ![s].ok = FALSE, ![s].at = 1]
  /\ UNCHANGED <<coordinator, exited, closer, known, turnActive, cleaned, issued,
                 history>>

\* Seeded bug: the report of the last component stands for the whole.
BugCompletedByLast(t) == t.ok \/ t.report["history"] = "Completed"

\* AppShutdownReport::completed.
Completed(t) == t.ok \/ \A c \in Components : t.report[c] = "Completed"

\* Seeded bug: a report that is not complete is not written down.
BugFinishOnlyComplete(s) ==
  /\ ~exited /\ task[s].stage = "report"
  /\ task' = [task EXCEPT ![s] = Idle]
  /\ IF Completed(task[s])
     THEN state' = [state EXCEPT !.kind = "ExitReady"] /\ exitReady' = TRUE
     ELSE UNCHANGED <<state, exitReady>>
  /\ UNCHANGED <<exited, closer, known, turnActive, cleaned, issued, history>>

\* finish_shutdown_attempt: a report for another attempt is dropped as stale.
FinishAttempt(s) ==
  /\ ~exited /\ task[s].stage = "report"
  /\ task' = [task EXCEPT ![s] = Idle]
  /\ IF /\ state.kind = "ShuttingDown"
        /\ state.req = task[s].req /\ state.attempt = task[s].attempt
     THEN IF Completed(task[s])
          THEN /\ state' = [state EXCEPT !.kind = "ExitReady"]
               /\ exitReady' = TRUE
               /\ UNCHANGED known
          ELSE /\ state' = [state EXCEPT !.kind = "CleanupFailed",
                                         !.report = task[s].report]
               /\ known' = known \union {task[s].req}
               /\ UNCHANGED exitReady
     ELSE UNCHANGED <<state, exitReady, known>>
  /\ UNCHANGED <<exited, closer, turnActive, cleaned, issued, history>>

\* ExitRequested: the handler lets the process go only when can_exit.
Exit ==
  /\ ~exited /\ exitReady
  /\ exited' = TRUE
  /\ UNCHANGED <<coordinator, closer, task, known, turnActive, cleaned, issued, history>>

Terminated == exited /\ UNCHANGED vars

TaskStep(s) ==
  \/ \E ok \in BOOLEAN : GracefulStep(s, ok) \/ ForceStep(s, ok)
  \/ GracefulEnd(s) \/ GracefulTimeout(s) \/ ForceEnd(s) \/ FinishAttempt(s)

Next ==
  \/ StartTurn \/ EndTurn
  \/ \E c \in Closers : ReadActiveTurn(c) \/ RequestClose(c)
  \/ \E r \in Requests : CancelQuit(r) \/ ConfirmQuit(r) \/ RetryCleanup(r)
  \/ \E s \in TaskSlots : TaskStep(s)
  \/ Exit
  \/ Terminated

Spec == Init /\ [][Next]_vars

\* Every cleanup is bounded by a deadline, so a shutdown task always gets on.
FairSpec == Spec /\ \A s \in TaskSlots : WF_vars(TaskStep(s)) /\ WF_vars(Exit)

-----------------------------------------------------------------------------
(* Properties.                                                             *)

Running(s) == task[s].stage # "idle"

\* There is never more than one shutdown task, and it is the one of the
\* attempt the coordinator records: duplicate closes, a confirmation and a
\* retry can come in any order, and none starts a second cleanup.
OneShutdown ==
  \A s \in TaskSlots : Running(s) =>
    /\ state.kind = "ShuttingDown"
    /\ task[s].req = state.req /\ task[s].attempt = state.attempt
    /\ \A z \in TaskSlots : Running(z) => z = s

\* The main process goes away only when all four components have converged,
\* although the proof of it is a report put together over several attempts,
\* each of which skipped the components an earlier one completed.
ExitOnlyWhenClean == exited => cleaned = Components

\* A quit the user declined is never carried out under that request, however
\* late a confirmation or a retry for it arrives.
DeclinedStaysDeclined ==
  state.kind \in {"ShuttingDown", "CleanupFailed", "ExitReady"} =>
    state.req \notin declined

\* Over all attempts the graceful pass is begun at most once, and no component
\* that a forced cleanup finished is forced again.
CleanupAtMostOnce ==
  gracefulRuns <= 1 /\ \A c \in Components : forceDone[c] <= 1

\* What the coordinator promises of a quit, over the read of the turn before the lock, late
\* answers of the user and a report put together over several attempts: one shutdown at a
\* time, the process gone only when it is clean, no quit carried out that was declined, and
\* no cleanup that is over done again.
QuitIsSound ==
  OneShutdown /\ ExitOnlyWhenClean /\ DeclinedStaysDeclined /\ CleanupAtMostOnce

\* Once a shutdown has begun the application never accepts work again: it does
\* not go back to Open or Confirming.
NoWayBack ==
  [][state.kind \in {"ShuttingDown", "CleanupFailed", "ExitReady"} =>
       state'.kind \notin {"Open", "Confirming"}]_vars

\* A shutdown attempt ends: the process is gone, or the user is shown the
\* failure that lets him retry.
ShutdownSettles ==
  (state.kind = "ShuttingDown") ~> (state.kind = "CleanupFailed" \/ exited)

=============================================================================
