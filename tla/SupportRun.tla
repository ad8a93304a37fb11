----------------------------- MODULE SupportRun -----------------------------
(***************************************************************************)
(* The runs behind commit explanations: the executor that owns a support   *)
(* process for each (IsolatedSupportExecutor of                            *)
(* codex/commit_explanation.rs, with the SupportRuntime of                 *)
(* codex/support.rs).                                                      *)
(*                                                                         *)
(* The worker (module CommitExplanation) picks a task and awaits its run;  *)
(* the run is a task of its own, which has its entry in the executor's map *)
(* until its process is known to be gone. The user's cancellation, the     *)
(* worker's timeout and the shutdown of the app each stop runs: they note  *)
(* what the map says of them, mark them, stop what was noted, wait for the *)
(* run to end and look once more. Stopping a process may fail.             *)
(*                                                                         *)
(* A run whose entry is gone would stop itself; entries go only when their *)
(* run has ended, and that branch does not appear.                         *)
(***************************************************************************)
EXTENDS Naturals, FiniteSets

CONSTANT MaxRun       \* bound on the runs
ASSUME RunAssumption == MaxRun \in Nat

Runs == 1..MaxRun     \* named in order; 0 stands for none
Stoppers == {"user", "timeout", "quit"}

VARIABLES
  picked,      \* the run the worker is at, data.active of the controller
  entry,       \* executor.active: the phase of each run's entry
  step,        \* where the run's own task is
  process,     \* its support process
  marked,      \* its canceled flag
  told,        \* SupportRuntime.cancel_requested
  outcome,     \* its completion: whether its cleanup converged
  stopper,     \* what each caller of stop_selected is doing
  refusing,    \* executor.shutting_down
  quitting, stopped    \* the controller shuts down, and has reported success

runTask == <<step, process, told, outcome>>
runVars == <<picked, entry, runTask, marked, stopper, refusing, quitting, stopped>>

AtRest == [at |-> "rest", runs |-> {}, noted |-> [r \in Runs |-> "none"], ok |-> TRUE]

RunInit ==
  /\ picked = 0
  /\ entry = [r \in Runs |-> "none"] /\ step = [r \in Runs |-> "none"]
  /\ process = [r \in Runs |-> "none"] /\ outcome = [r \in Runs |-> "none"]
  /\ marked = [r \in Runs |-> FALSE] /\ told = [r \in Runs |-> FALSE]
  /\ stopper = [s \in Stoppers |-> AtRest]
  /\ refusing = FALSE /\ quitting = FALSE /\ stopped = FALSE

Owned == {r \in Runs : entry[r] # "none"}

-----------------------------------------------------------------------------
(* The worker.                                                             *)

\* The queue is empty once the controller shuts down.
PickRun ==
  /\ picked = 0 /\ ~quitting /\ stopper["timeout"].at = "rest"
  /\ \E r \in Runs :
       /\ step[r] = "none" /\ \A q \in Runs : q < r => step[q] # "none"
       /\ picked' = r /\ step' = [step EXCEPT ![r] = "picked"]
  /\ UNCHANGED <<entry, process, told, outcome, marked, stopper, refusing, quitting, stopped>>

\* execute: the entry and the run's task, unless the executor shuts down.
Execute ==
  /\ picked # 0 /\ step[picked] = "picked"
  /\ IF refusing
     THEN /\ step' = [step EXCEPT ![picked] = "ended"]
          /\ picked' = 0
          /\ UNCHANGED entry
     ELSE /\ step' = [step EXCEPT ![picked] = "context"]
          /\ entry' = [entry EXCEPT ![picked] = "constructing"]
          /\ UNCHANGED picked
  /\ UNCHANGED <<process, told, outcome, marked, stopper, refusing, quitting, stopped>>

\* The run has ended. Its entry stays if its process may still be there.
Return ==
  /\ picked # 0 /\ step[picked] = "ended"
  /\ entry' = IF outcome[picked] = "converged" THEN [entry EXCEPT ![picked] = "none"] ELSE entry
  /\ picked' = 0
  /\ UNCHANGED <<runTask, marked, stopper, refusing, quitting, stopped>>

\* The worker gives up waiting for the run, and has it stopped.
GiveUp ==
  /\ picked # 0 /\ step[picked] \notin {"picked", "ended"}
  /\ stopper' = [stopper EXCEPT !["timeout"] = [AtRest EXCEPT !.at = "note", !.runs = {picked}]]
  /\ picked' = 0
  /\ UNCHANGED <<entry, runTask, marked, refusing, quitting, stopped>>

-----------------------------------------------------------------------------
(* The run: run_owned. A runtime is constructed, used once and shut down.  *)

\* Seeded bug: a run that could not clean up never completes its outcome.
BugEndsWith(r, cleanup) ==
  /\ outcome' = [outcome EXCEPT ![r] = IF cleanup THEN "converged" ELSE "open"]
  /\ entry' = [entry EXCEPT ![r] = IF cleanup THEN "terminal" ELSE "unconverged"]
  /\ step' = [step EXCEPT ![r] = IF cleanup THEN "ended" ELSE "stuck"]

EndsWith(r, cleanup) ==
  /\ outcome' = [outcome EXCEPT ![r] = IF cleanup THEN "converged" ELSE "open"]
  /\ entry' = [entry EXCEPT ![r] = IF cleanup THEN "terminal" ELSE "unconverged"]
  /\ step' = [step EXCEPT ![r] = "ended"]

\* Stopping the process of a runtime; once it is gone this never fails.
Kill(r, ok) ==
  /\ ok \/ process[r] = "alive"
  /\ process' = IF ok THEN [process EXCEPT ![r] = "gone"] ELSE process

\* There is no release to run, or the run was marked before it began.
RunContext(r) ==
  /\ step[r] = "context"
  /\ \/ EndsWith(r, TRUE)
     \/ ~marked[r] /\ step' = [step EXCEPT ![r] = "construct"] /\ UNCHANGED <<outcome, entry>>
  /\ process' = IF step'[r] = "construct" THEN [process EXCEPT ![r] = "alive"] ELSE process
  /\ UNCHANGED <<picked, told, marked, stopper, refusing, quitting, stopped>>

\* The process is set up, or stopped again, also if there was none yet.
Construct(r) ==
  /\ step[r] = "construct"
  /\ \/ /\ step' = [step EXCEPT ![r] = "check"] /\ entry' = [entry EXCEPT ![r] = "running"]
        /\ UNCHANGED <<process, outcome>>
     \/ \E ok \in BOOLEAN : Kill(r, ok) /\ EndsWith(r, ok)
  /\ UNCHANGED <<picked, told, marked, stopper, refusing, quitting, stopped>>

\* The mark is looked at again once the map can say where the runtime is.
CheckMark(r) ==
  /\ step[r] = "check"
  /\ step' = [step EXCEPT ![r] = IF marked[r] THEN "cleanup" ELSE "explain"]
  /\ told' = [told EXCEPT ![r] = @ \/ marked[r]]
  /\ UNCHANGED <<picked, entry, process, outcome, marked, stopper, refusing, quitting, stopped>>

\* The turn ends, by an answer, an error, a cancellation or its timeout.
Explain(r) ==
  /\ step[r] = "explain" /\ step' = [step EXCEPT ![r] = "cleanup"]
  /\ UNCHANGED <<picked, entry, process, told, outcome, marked, stopper, refusing, quitting,
                 stopped>>

RunCleanup(r) ==
  /\ step[r] = "cleanup"
  /\ \E ok \in BOOLEAN : Kill(r, ok) /\ EndsWith(r, ok)
  /\ UNCHANGED <<picked, told, marked, stopper, refusing, quitting, stopped>>

-----------------------------------------------------------------------------
(* stop_selected.                                                          *)

\* Which runs are there, and where, is read under the map's lock.
Note(s) ==
  /\ stopper[s].at = "note"
  /\ LET runs == Owned \intersect (IF s = "quit" THEN Runs ELSE stopper[s].runs) IN
     stopper' = [stopper EXCEPT ![s] =
       [at |-> "mark", runs |-> runs, ok |-> TRUE,
        noted |-> [r \in Runs |-> IF r \in runs THEN entry[r] ELSE "none"]]]
  /\ UNCHANGED <<picked, entry, runTask, marked, refusing, quitting, stopped>>

Mark(s) ==
  /\ stopper[s].at = "mark"
  /\ marked' = [r \in Runs |-> marked[r] \/ r \in stopper[s].runs]
  /\ stopper' = [stopper EXCEPT ![s].at = "stop"]
  /\ UNCHANGED <<picked, entry, runTask, refusing, quitting, stopped>>

Stops(s, r) == stopper[s].at = "stop" /\ r \in stopper[s].runs
                 /\ \A q \in stopper[s].runs : q >= r
Waits(s, r) ==
  /\ Stops(s, r)
  /\ stopper[s].noted[r] \in {"stopped", "tried", "constructing", "terminal"}

\* stop_phase: a runtime is told and stopped, what is left of one is stopped again.
StopNoted(s, r) ==
  /\ Stops(s, r) /\ stopper[s].noted[r] \in {"running", "unconverged"}
  /\ told' = [told EXCEPT ![r] = @ \/ stopper[s].noted[r] = "running"]
  /\ \E ok \in BOOLEAN :
       /\ Kill(r, ok)
       /\ stopper' = [stopper EXCEPT ![s].noted[r] = IF ok THEN "stopped" ELSE "tried"]
  /\ UNCHANGED <<picked, entry, step, outcome, marked, refusing, quitting, stopped>>

\* Seeded bug: what was noted is not looked at again when the run has ended.
BugAwaitRun(s, r) ==
  /\ Waits(s, r) /\ step[r] = "ended"
  /\ entry' = [entry EXCEPT ![r] = "none"]
  /\ stopper' = [stopper EXCEPT ![s].runs = @ \ {r}]
  /\ UNCHANGED <<picked, runTask, marked, refusing, quitting, stopped>>

\* The run has ended. If nothing was there to stop when it was noted, what is there
\* now is stopped. The entry goes once the process is known to be gone.
AwaitRun(s, r) ==
  /\ Waits(s, r) /\ step[r] = "ended"
  /\ \E late \in BOOLEAN :
       LET look == stopper[s].noted[r] \notin {"stopped", "tried"} /\ entry[r] = "unconverged"
           ok == outcome[r] = "converged" \/ stopper[s].noted[r] = "stopped" \/ (look /\ late) IN
       /\ IF look THEN Kill(r, late) ELSE ~late /\ UNCHANGED process
       /\ entry' = IF ok THEN [entry EXCEPT ![r] = "none"] ELSE entry
       /\ stopper' = [stopper EXCEPT ![s].runs = @ \ {r}, ![s].noted[r] = "none",
                                     ![s].ok = @ /\ ok]
  /\ UNCHANGED <<picked, step, told, outcome, marked, refusing, quitting, stopped>>

StopperStep(s) ==
  \/ Note(s) \/ Mark(s)
  \/ \E r \in Runs : StopNoted(s, r) \/ AwaitRun(s, r)

Over(s) == stopper[s].at = "stop" /\ stopper[s].runs = {}

\* The caller of the cancellation goes on.
StopOver(s) ==
  /\ s \in {"user", "timeout"} /\ Over(s)
  /\ stopper' = [stopper EXCEPT ![s] = AtRest]
  /\ UNCHANGED <<picked, entry, runTask, marked, refusing, quitting, stopped>>

-----------------------------------------------------------------------------
(* Cancellation and shutdown by the controller.                            *)

\* Seeded bug: only the executor marks the run.
BugUserCancels ==
  /\ picked # 0 /\ stopper["user"].at = "rest"
  /\ stopper' = [stopper EXCEPT !["user"] = [AtRest EXCEPT !.at = "note", !.runs = {picked}]]
  /\ UNCHANGED <<picked, marked, entry, runTask, refusing, quitting, stopped>>

\* The run is marked first, under the controller's lock, and then stopped. (To cancel
\* it again would do the same again.)
UserCancels ==
  /\ picked # 0 /\ stopper["user"].at = "rest" /\ ~marked[picked]
  /\ marked' = [marked EXCEPT ![picked] = TRUE]
  /\ stopper' = [stopper EXCEPT !["user"] = [AtRest EXCEPT !.at = "note", !.runs = {picked}]]
  /\ UNCHANGED <<picked, entry, runTask, refusing, quitting, stopped>>

\* begin_shutdown; the executor is shut down gracefully, or by force, also after a
\* graceful attempt that was given up midway.
Quit ==
  /\ quitting' = TRUE /\ refusing' = TRUE
  /\ marked' = [r \in Runs |-> marked[r] \/ r = picked]
  /\ stopper' = [stopper EXCEPT !["quit"] = [AtRest EXCEPT !.at = "note"]]
  /\ UNCHANGED <<picked, entry, runTask, stopped>>

\* shutdown_converged: the worker is done and nothing is owned any more.
QuitReports ==
  /\ Over("quit") /\ picked = 0 /\ stopper["timeout"].at = "rest"
  /\ stopped' = (stopper["quit"].ok /\ Owned = {})
  /\ UNCHANGED <<picked, entry, runTask, marked, stopper, refusing, quitting>>

-----------------------------------------------------------------------------

RunTaskStep(r) ==
  RunContext(r) \/ Construct(r) \/ CheckMark(r) \/ Explain(r) \/ RunCleanup(r)
RunWorker == Execute \/ Return \/ GiveUp

RunNext ==
  \/ PickRun \/ RunWorker \/ UserCancels
  \/ \E r \in Runs : RunTaskStep(r)
  \/ \E s \in Stoppers : StopperStep(s) \/ StopOver(s)
  \/ Quit \/ QuitReports

RunSpec == RunInit /\ [][RunNext]_runVars

\* Tasks run; construction, turns and stops have timeouts.
RunFairness ==
  /\ WF_runVars(RunWorker)
  /\ \A r \in Runs : WF_runVars(RunTaskStep(r))
  /\ \A s \in Stoppers : WF_runVars(StopperStep(s) \/ StopOver(s))

-----------------------------------------------------------------------------
(* Properties.                                                             *)

\* When a shutdown has reported success no support process is alive, and none will be,
\* whatever was being constructed, had timed out or could not be stopped at first.
NoProcessAfterQuit == stopped => \A r \in Runs : process[r] # "alive"

\* A cancellation by the user, or by the shutdown, reaches the run: never is it waited
\* for while it explains on, not having been told, because it was under construction
\* when the executor looked.
CancelReachesRun ==
  \A r \in Runs : Waits("user", r) /\ step[r] = "explain" => told[r]

\* Whoever stops runs, the user, a timeout or the end of the app, stops them.
RunsAreStopped == NoProcessAfterQuit /\ CancelReachesRun

\* Who stops a run comes back.
StopReturns == \A s \in {"user", "timeout"} : (stopper[s].at # "rest") ~> (stopper[s].at = "rest")

=============================================================================
