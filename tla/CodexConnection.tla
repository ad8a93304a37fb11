--------------------------- MODULE CodexConnection ---------------------------
(***************************************************************************)
(* The life of the App Server connection: how supervisor.rs of             *)
(* src-tauri/src/codex spawns, replaces, loses and shuts down the one App  *)
(* Server process, with the process runtime of process.rs.                 *)
(*                                                                         *)
(* connect, probe and shutdown hold the lifecycle lock, across awaits; the *)
(* signal loop, the restart timers and force_shutdown_now do not, and work *)
(* on the state between any two of its locked sections. A process is named *)
(* by the generation it was spawned for.                                   *)
(***************************************************************************)
EXTENDS Naturals, FiniteSets

CONSTANTS MaxGeneration,  \* bound on the processes spawned
          MaxAsks,        \* bound on the connects and probes the UI asks for
          MaxFaults       \* bound on what goes wrong

ASSUME CodexConnectionAssumption ==
  /\ MaxGeneration \in Nat \ {0}
  /\ MaxAsks \in Nat /\ MaxFaults \in Nat

Processes == 1..MaxGeneration     \* 0 stands for no process
Generations == 0..MaxGeneration

VARIABLES
  generation,  \* state.generation
  runtime,     \* state.runtime, as the process it is for
  ready,       \* the health of the diagnostic is Ready
  stopping,    \* shutdown_requested
  proc,        \* the process trees
  expected,    \* processes whose expected_shutdown flag is set
  broken,      \* processes whose reader has reported the end of the stream
  signals,     \* the signal channel
  op,          \* what the holder of the lifecycle lock is doing
  loop,        \* what the signal loop is doing
  timers,      \* sleeping restart tasks, by the generation they are for
  fired,       \* restart tasks waiting for the lifecycle lock
  owed,        \* failed connects that have yet to schedule a retry
  app,         \* how far the shutdown of the application is with this component
  taken,       \* the process force_shutdown_now waits for
  wanted,      \* history: a connect was asked for, and nothing followed that only the
               \* user can mend
  asks, probes, faults, \* history: counts,
  unusable     \* and the handshakes that found no account, model or effort to work with

conn == <<generation, runtime, ready, stopping>>
process == <<proc, expected, broken, signals>>
restarts == <<timers, fired, owed>>
shutdown == <<app, taken>>
counts == <<wanted, asks, probes, faults, unusable>>
vars == <<conn, process, op, loop, restarts, shutdown, counts>>

Holder(kind, at, p) == [kind |-> kind, at |-> at, proc |-> p, tries |-> 0, ok |-> TRUE]
NoOp == Holder("none", "idle", 0)
IdleLoop == [at |-> "idle", proc |-> 0, gen |-> 0]

Operation ==
  [kind : {"none", "connect", "probe", "shutdown"},
   at : {"idle", "revalidate", "replace", "stopOld", "resolve", "spawn", "create",
         "install", "handshake", "apply", "undo", "clear", "stop", "end"},
   proc : Generations, tries : 0..1, ok : BOOLEAN]
LoopState == [at : {"idle", "stopping", "schedule"}, proc : Generations, gen : Generations]
Signal == [m : {"lost", "violation"}, gen : Processes]

ConnType == generation \in Generations /\ runtime \in Generations
FlagType == ready \in BOOLEAN /\ stopping \in BOOLEAN /\ wanted \in BOOLEAN
ProcessType ==
  /\ proc \in [Processes -> {"none", "live", "killed", "exited"}]
  /\ expected \subseteq Processes /\ broken \subseteq Processes
  /\ signals \subseteq Signal
RestartType == timers \in [Generations -> Nat] /\ fired \in Nat /\ owed \in Nat
ShutdownType ==
  /\ app \in {"open", "graceful", "failed", "stopped", "force", "forced"}
  /\ taken \in Generations
CountType ==
  /\ asks \in 0..MaxAsks /\ probes \in 0..asks /\ faults \in 0..MaxFaults
  /\ unusable \in Nat

\* What the supervisor, the holder of its lifecycle lock, the signal loop and the
\* processes can hold; one connect makes two attempts at most.
TypeOK ==
  /\ ConnType /\ FlagType /\ ProcessType /\ RestartType /\ ShutdownType /\ CountType
  /\ op \in Operation
  /\ loop \in LoopState

Init ==
  /\ generation = 0 /\ runtime = 0 /\ ready = FALSE /\ stopping = FALSE
  /\ proc = [p \in Processes |-> "none"]
  /\ expected = {} /\ broken = {} /\ signals = {}
  /\ op = NoOp /\ loop = IdleLoop
  /\ timers = [g \in Generations |-> 0] /\ fired = 0 /\ owed = 0
  /\ app = "open" /\ taken = 0
  /\ wanted = FALSE /\ asks = 0 /\ probes = 0 /\ faults = 0 /\ unusable = 0

-----------------------------------------------------------------------------
(* The process runtime.                                                    *)

\* A fault of the environment: what the code has to live with, so many times.
Fault == faults < MaxFaults /\ faults' = faults + 1

\* Drop for ProcessRuntime: the last owner of a process is gone, so it is sent
\* SIGKILL, and nobody waits for it.
Dropped(p, owners) ==
  [proc EXCEPT ![p] = IF @ = "live" /\ p \notin owners THEN "killed" ELSE @]

\* stop_process_tree: the tree has exited, or was killed and has not converged.
\* The end of the stream that follows is expected, and handle_disconnect lets it
\* pass: it is no signal here.
StopTree(p) ==
  /\ \E end \in {"exited", "killed"} :
       proc' = [proc EXCEPT ![p] = IF @ = "exited" THEN @ ELSE end]
  /\ expected' = expected \union {p}
  /\ UNCHANGED <<broken, signals>>

\* Its output may end in the middle of a message.
ProcessCrashes(p) ==
  /\ proc[p] = "live" /\ Fault
  /\ proc' = [proc EXCEPT ![p] = "exited"]
  /\ broken' = broken \union {p}
  /\ \E cut \in SUBSET {"violation"} :
       signals' = IF p \in broken THEN signals
                  ELSE signals \union {[m |-> m, gen |-> p] : m \in {"lost"} \union cut}
  /\ UNCHANGED <<conn, expected, op, loop, restarts, shutdown, wanted, asks, probes, unusable>>

\* A process that was killed ends in its own time.
ProcessDies(p) ==
  /\ proc[p] = "killed"
  /\ proc' = [proc EXCEPT ![p] = "exited"]
  /\ UNCHANGED <<conn, expected, broken, signals, op, loop, restarts, shutdown, counts>>

\* A stream breaks: it is closed, or carries what no client can read, which goes
\* for half a message of an installed process that has been stopped too. It is
\* reported once (the writer's own report of a closed stream adds nothing to it).
StreamBreaks(p, m) ==
  /\ proc[p] = "live" \/ (proc[p] # "none" /\ p = runtime)
  /\ p \notin broken /\ Fault
  /\ broken' = broken \union {p}
  /\ signals' = signals \union {[m |-> m, gen |-> p]}
  /\ UNCHANGED <<conn, proc, expected, op, loop, restarts, shutdown, wanted, asks, probes,
                 unusable>>

-----------------------------------------------------------------------------
(* connect.                                                                *)

\* Seeded bug: a Ready connection is not looked at.
BugConnectAlways ==
  /\ op = NoOp
  /\ op' = IF stopping THEN NoOp ELSE Holder("connect", "replace", 0)

\* Seeded bug: a connect does not know of the shutdown.
BugConnectAfterShutdown ==
  /\ op = NoOp
  /\ op' = IF ready /\ runtime # 0
           THEN Holder("connect", "revalidate", runtime)
           ELSE Holder("connect", "replace", 0)

\* connect_internal from the lifecycle lock to its first decision: a supervisor
\* that shuts down connects no more, a Ready connection is looked at again.
ConnectBegin ==
  /\ op = NoOp
  /\ op' = IF stopping THEN NoOp
           ELSE IF ready /\ runtime # 0
           THEN Holder("connect", "revalidate", runtime)
           ELSE Holder("connect", "replace", 0)

AskConnect ==
  /\ asks < MaxAsks /\ asks' = asks + 1
  /\ ConnectBegin
  /\ wanted' = ~stopping
  /\ UNCHANGED <<conn, process, loop, restarts, shutdown, probes, faults, unusable>>

\* A restart task that has its turn.
RunRestart ==
  /\ fired > 0 /\ fired' = fired - 1
  /\ ConnectBegin
  /\ UNCHANGED <<conn, process, loop, timers, owed, shutdown, counts>>

At(kind, at) == op.kind = kind /\ op.at = at

\* The connection is kept if its process is there and the binary the one that is
\* configured, provided that nobody has taken it down meanwhile.
Revalidate ==
  /\ At("connect", "revalidate")
  /\ \/ /\ proc[op.proc] # "exited"
        /\ op' = NoOp
        /\ owed' = IF runtime = op.proc /\ ready THEN owed ELSE owed + 1
        /\ UNCHANGED faults
     \/ /\ (proc[op.proc] = "exited" /\ UNCHANGED faults) \/ Fault
        /\ op' = [op EXCEPT !.at = "replace", !.proc = 0]
        /\ UNCHANGED owed
  /\ proc' = Dropped(op.proc, {runtime, loop.proc, taken})
  /\ UNCHANGED <<conn, expected, broken, signals, loop, timers, fired, shutdown, wanted,
                 asks, probes, unusable>>

\* Seeded bug: the runtime is copied, not taken out.
BugReplaceKeeps ==
  /\ At("connect", "replace")
  /\ ready' = FALSE
  /\ op' = [op EXCEPT !.at = IF runtime = 0 THEN "resolve" ELSE "stopOld", !.proc = runtime]
  /\ UNCHANGED <<generation, runtime, stopping, process, loop, restarts, shutdown, counts>>

\* begin_connection_attempt: the installed runtime is taken out.
Replace ==
  /\ At("connect", "replace")
  /\ runtime' = 0 /\ ready' = FALSE
  /\ op' = [op EXCEPT !.at = IF runtime = 0 THEN "resolve" ELSE "stopOld", !.proc = runtime]
  /\ UNCHANGED <<generation, stopping, process, loop, restarts, shutdown, counts>>

\* The runtime taken out is shut down; whether it converges is not asked.
StopOld ==
  /\ op.at = "stopOld"
  /\ StopTree(op.proc)
  /\ op' = [op EXCEPT !.at = "resolve", !.proc = 0]
  /\ UNCHANGED <<conn, loop, restarts, shutdown, counts>>

\* Seeded bug: nobody retries after an error.
BugConnectFailsForGood ==
  /\ ready' = FALSE
  /\ op' = NoOp
  /\ UNCHANGED owed
  /\ wanted' \in {wanted, FALSE}

\* A connect returns an error. After a recoverable one its caller retries.
ConnectFails ==
  /\ ready' = FALSE
  /\ op' = NoOp
  /\ \/ owed' = owed + 1 /\ UNCHANGED wanted
     \/ wanted' = FALSE /\ UNCHANGED owed

\* The binary is found and speaks the protocol, or it is not.
Resolve ==
  /\ At("connect", "resolve")
  /\ \/ /\ op' = [op EXCEPT !.at = "spawn"]
        /\ UNCHANGED <<ready, owed, wanted, faults>>
     \/ Fault /\ ConnectFails
  /\ UNCHANGED <<generation, runtime, stopping, process, loop, timers, fired, shutdown,
                 asks, probes, unusable>>

\* spawn_and_install, in three sections: a generation,
Spawn ==
  /\ At("connect", "spawn") /\ generation < MaxGeneration    \* bound
  /\ generation' = generation + 1
  /\ op' = [op EXCEPT !.at = "create"]
  /\ UNCHANGED <<runtime, ready, stopping, process, loop, restarts, shutdown, counts>>

\* a process,
Create ==
  /\ At("connect", "create")
  /\ \/ /\ proc' = [proc EXCEPT ![generation] = "live"]
        /\ op' = [op EXCEPT !.at = "install", !.proc = generation]
        /\ UNCHANGED <<ready, owed, wanted, faults>>
     \/ Fault /\ ConnectFails /\ UNCHANGED proc
  /\ UNCHANGED <<generation, runtime, stopping, expected, broken, signals, loop, timers,
                 fired, shutdown, asks, probes, unusable>>

\* and the runtime, which is installed whatever has happened meanwhile.
Install ==
  /\ At("connect", "install")
  /\ runtime' = op.proc
  /\ op' = [op EXCEPT !.at = "handshake"]
  /\ UNCHANGED <<generation, ready, stopping, process, loop, restarts, shutdown, counts>>

\* The handshake is answered; or it fails, for a fault of its own or because the
\* process is gone or going. A first timeout or a refusal allows another attempt.
Handshake ==
  LET p == op.proc
      doomed == proc[p] # "live" \/ p \in broken \/ loop.proc = p
  IN
  /\ At("connect", "handshake")
  /\ \/ /\ proc[p] = "live" /\ p \notin broken
        /\ op' = [op EXCEPT !.at = "apply"]
        /\ UNCHANGED faults
     \/ /\ (doomed /\ UNCHANGED faults) \/ Fault
        /\ \E again \in BOOLEAN : op' = [op EXCEPT !.at = "undo", !.ok = again]
  /\ UNCHANGED <<conn, process, loop, restarts, shutdown, wanted, asks, probes, unusable>>

\* apply_handshake does not look at the runtime the handshake was made with. A server
\* without an account, the model or its efforts stays installed and is not Ready; the
\* connect has succeeded, nobody retries, and the next connect replaces the process.
ApplyHandshake ==
  /\ At("connect", "apply")
  /\ ready' \in BOOLEAN
  /\ wanted' = (wanted /\ ready')
  /\ unusable' = IF ready' THEN unusable ELSE unusable + 1
  /\ op' = NoOp
  /\ proc' = Dropped(op.proc, {runtime, loop.proc, taken})
  /\ UNCHANGED <<generation, runtime, stopping, expected, broken, signals, loop, restarts,
                 shutdown, asks, probes, faults>>

UndoAttempt ==
  /\ At("connect", "undo")
  /\ StopTree(op.proc)
  /\ op' = [op EXCEPT !.at = "clear"]
  /\ UNCHANGED <<conn, loop, restarts, shutdown, counts>>

ClearAttempt ==
  /\ At("connect", "clear")
  /\ runtime' = IF generation = op.proc THEN 0 ELSE runtime
  /\ \/ /\ op.ok /\ op.tries = 0
        /\ op' = [Holder("connect", "spawn", 0) EXCEPT !.tries = op.tries + 1]
        /\ UNCHANGED <<ready, owed, wanted>>
     \/ ~(op.ok /\ op.tries = 0) /\ ConnectFails
  /\ UNCHANGED <<generation, stopping, process, loop, timers, fired, shutdown, asks,
                 probes, faults, unusable>>

-----------------------------------------------------------------------------
(* probe, which leaves the supervisor without a connection.                *)

AskProbe ==
  /\ asks < MaxAsks /\ asks' = asks + 1 /\ probes' = probes + 1
  /\ op = NoOp
  /\ runtime' = 0 /\ ready' = FALSE /\ wanted' = FALSE
  /\ op' = Holder("probe", IF runtime = 0 THEN "resolve" ELSE "stopOld", runtime)
  /\ UNCHANGED <<generation, stopping, process, loop, restarts, shutdown, faults, unusable>>

ProbeEnds ==
  /\ At("probe", "resolve")
  /\ op' = NoOp
  /\ UNCHANGED <<conn, process, loop, restarts, shutdown, counts>>

-----------------------------------------------------------------------------
(* The signal loop and the restarts.                                       *)

Take(s) == loop = IdleLoop /\ s \in signals /\ signals' = signals \ {s}

\* A signal counts for the installed runtime of its generation, until shutdown.
Effective(s) == s.gen = generation /\ runtime # 0 /\ ~stopping

\* handle_disconnect: the runtime is dropped, and with it its process killed.
HandleDisconnect(s) ==
  /\ s.m = "lost" /\ Take(s)
  /\ IF Effective(s) /\ runtime \notin expected
     THEN /\ runtime' = 0 /\ ready' = FALSE
          /\ proc' = Dropped(runtime, {op.proc, taken})
          /\ loop' = [at |-> "schedule", proc |-> 0, gen |-> generation]
     ELSE UNCHANGED <<runtime, ready, proc, loop>>
  /\ UNCHANGED <<generation, stopping, expected, broken, op, restarts, shutdown, counts>>

\* handle_protocol_violation: the runtime is taken out and shut down first.
HandleViolation(s) ==
  /\ s.m = "violation" /\ Take(s)
  /\ IF Effective(s)
     THEN /\ runtime' = 0 /\ ready' = FALSE
          /\ loop' = [at |-> "stopping", proc |-> runtime, gen |-> generation]
     ELSE UNCHANGED <<runtime, ready, loop>>
  /\ UNCHANGED <<generation, stopping, proc, expected, broken, op, restarts, shutdown, counts>>

\* Seeded bug: after a violation the connection is only shut down.
BugStopsForGood ==
  /\ loop.at = "stopping"
  /\ StopTree(loop.proc)
  /\ loop' = IdleLoop
  /\ UNCHANGED <<conn, op, restarts, shutdown, counts>>

LoopStops ==
  /\ loop.at = "stopping"
  /\ StopTree(loop.proc)
  /\ loop' = [loop EXCEPT !.at = "schedule", !.proc = 0]
  /\ UNCHANGED <<conn, op, restarts, shutdown, counts>>

\* schedule_restart, at the end of both handlers.
LoopSchedules ==
  /\ loop.at = "schedule"
  /\ timers' = [timers EXCEPT ![loop.gen] = @ + 1]
  /\ loop' = IdleLoop
  /\ UNCHANGED <<conn, process, op, fired, owed, shutdown, counts>>

\* schedule_retry_after_failed_connect.
ScheduleRetry ==
  /\ owed > 0 /\ owed' = owed - 1
  /\ timers' = IF stopping \/ runtime # 0 THEN timers
               ELSE [timers EXCEPT ![generation] = @ + 1]
  /\ UNCHANGED <<conn, process, op, loop, fired, shutdown, counts>>

\* The end of the backoff: a restart for a connection that is gone by now, or
\* that somebody else has replaced, is dropped.
TimerFires(g) ==
  /\ timers[g] > 0 /\ timers' = [timers EXCEPT ![g] = @ - 1]
  /\ fired' = IF generation = g /\ runtime = 0 /\ ~stopping THEN fired + 1 ELSE fired
  /\ UNCHANGED <<conn, process, op, loop, owed, shutdown, counts>>

-----------------------------------------------------------------------------
(* Shutdown: the graceful pass and the forced cleanup of this component.   *)

Quit ==
  /\ app = "open" /\ app' = "graceful"
  /\ UNCHANGED <<conn, process, op, loop, restarts, taken, counts>>

\* shutdown, once it has the lifecycle lock: the runtime stays installed.
ShutdownBegin ==
  /\ app = "graceful" /\ op = NoOp
  /\ stopping' = TRUE
  /\ op' = Holder("shutdown", IF runtime = 0 THEN "end" ELSE "stop", runtime)
  /\ UNCHANGED <<generation, runtime, ready, process, loop, restarts, shutdown, counts>>

ShutdownStops ==
  /\ At("shutdown", "stop")
  /\ StopTree(op.proc)
  /\ op' = [op EXCEPT !.at = "end", !.ok = (proc'[op.proc] = "exited")]
  /\ UNCHANGED <<conn, loop, restarts, shutdown, counts>>

\* The presence observer may not converge, or another component of the pass.
ShutdownEnd ==
  /\ At("shutdown", "end")
  /\ runtime' = IF runtime = op.proc THEN 0 ELSE runtime
  /\ ready' = FALSE
  /\ op' = NoOp
  /\ \E converged \in BOOLEAN : app' = IF op.ok /\ converged THEN "stopped" ELSE "failed"
  /\ UNCHANGED <<generation, stopping, process, loop, restarts, taken, counts>>

\* The deadline of the graceful pass drops shutdown wherever it is.
GracefulTimeout ==
  /\ app = "graceful" /\ app' = "failed"
  /\ op' = IF op.kind = "shutdown" THEN NoOp ELSE op
  /\ UNCHANGED <<conn, process, loop, restarts, taken, counts>>

\* force_shutdown_now, which does not take the lifecycle lock. It also follows a
\* pass in which only another component failed.
ForceBegin ==
  /\ app \in {"failed", "stopped"} /\ app' = "force"
  /\ stopping' = TRUE /\ ready' = FALSE
  /\ runtime' = 0 /\ taken' = runtime
  /\ IF runtime = 0 THEN UNCHANGED <<proc, expected>>
     ELSE proc' = Dropped(runtime, {}) /\ expected' = expected \union {runtime}
  /\ UNCHANGED <<generation, broken, signals, op, loop, restarts, counts>>

\* It waits for the process it took, if it took one, for as long as it may.
ForceEnd ==
  /\ app = "force"
  /\ \/ app' = "failed"
     \/ (IF taken = 0 THEN TRUE ELSE proc[taken] = "exited") /\ app' = "forced"
  /\ taken' = 0
  /\ UNCHANGED <<conn, process, op, loop, restarts, counts>>

-----------------------------------------------------------------------------

OpStep ==
  \/ Revalidate \/ Replace \/ StopOld \/ Resolve \/ Spawn \/ Create \/ Install
  \/ Handshake \/ ApplyHandshake \/ UndoAttempt \/ ClearAttempt
  \/ ProbeEnds \/ ShutdownStops \/ ShutdownEnd

LoopStep ==
  \/ \E s \in signals : HandleDisconnect(s) \/ HandleViolation(s)
  \/ LoopStops \/ LoopSchedules

Environment ==
  \E p \in Processes :
    ProcessCrashes(p) \/ ProcessDies(p) \/ \E m \in {"lost", "violation"} : StreamBreaks(p, m)

Next ==
  \/ AskConnect \/ AskProbe
  \/ OpStep \/ LoopStep
  \/ RunRestart \/ ScheduleRetry \/ \E g \in Generations : TimerFires(g)
  \/ Quit \/ ShutdownBegin \/ GracefulTimeout \/ ForceBegin \/ ForceEnd
  \/ Environment

Spec == Init /\ [][Next]_vars

\* The holder of the lifecycle lock and the signal loop wait for nothing without
\* a deadline, a sleeping task wakes up, and the lifecycle lock is fair.
FairSpec ==
  /\ Spec
  /\ WF_vars(OpStep) /\ WF_vars(LoopStep)
  /\ WF_vars(ScheduleRetry)
  /\ \A g \in Generations : WF_vars(TimerFires(g))
  /\ SF_vars(RunRestart)

-----------------------------------------------------------------------------
(* Properties.                                                             *)

\* The runtime that is installed is the one of the current generation. That is
\* why the signal handlers, which compare generations and not runtimes, never
\* take down a connection for a signal of an earlier one.
RuntimeIsCurrent == runtime # 0 => runtime = generation

\* Nothing is known to be wrong with the connection, or it is about to be known.
Up == /\ ready /\ runtime # 0
      /\ runtime \in broken => \E s \in signals : s.gen = runtime

\* A connection that is wanted and not there is somebody's to bring back, although
\* most restarts are dropped as stale: a connect that runs or waits its turn, a
\* sleeping restart of this very generation, a caller about to schedule one, or
\* the signal loop.
SomeoneReconnects ==
  wanted /\ ~stopping =>
    \/ Up
    \/ op.kind = "connect" \/ fired > 0 \/ owed > 0 \/ timers[generation] > 0
    \/ loop.at # "idle" /\ loop.gen = generation

\* Both together: the connection that is there is the current one, and one that
\* is missing comes back.
ConnectionIsKept == RuntimeIsCurrent /\ SomeoneReconnects

\* A connection is replaced once for each reason there is: a violation during a handshake
\* leaves two restarts behind, and a timer can fire while a connect is at work, but beside
\* the first process one is started per fault, per probe that took one down, and per
\* handshake that found a server it cannot work with.
OneReplacement == ~stopping => generation <= 1 + faults + probes + unusable

\* A shutdown that has converged is final: whatever connects, restarts and
\* retries were under way, no process is started and no runtime installed.
ShutdownIsFinal ==
  [][app = "stopped" => generation' = generation /\ runtime' = 0]_vars

\* The next process is one more than the bound allows.
AtBound == At("connect", "spawn") /\ generation = MaxGeneration

\* A connection that is wanted comes back, if only so much goes wrong.
Reconnects ==
  (wanted /\ ~Up) ~> (Up \/ stopping \/ ~wanted \/ AtBound)

\* docs/requirements/desktop-shell.md, APP-F-064: the component is reported clean
\* only when its process group is gone.
ConvergedMeansStopped ==
  app \in {"stopped", "forced"} => \A p \in Processes : proc[p] \in {"none", "exited"}

=============================================================================
