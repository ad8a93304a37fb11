# Coding Wife: formal models of the application core

Coding Wife is a desktop workspace (Tauri: Rust behind, React in front) that
runs one Codex App Server, a child process spoken to over JSON-RPC, and builds
sessions, decisions, reviews, explanations and a speaking character on it.
Everything here is TLA+, checked with TLC and proved with TLAPS. Paths are
relative to the repository; `…` is `src-tauri/src`.

## 1. The system

### Components, their state and what makes them correct

| Component | Source | State | Operations | Correct when |
| --- | --- | --- | --- | --- |
| App lifecycle | `…/app_lifecycle.rs`, `…/lib.rs` | coordinator state, exit flag | close, cancel, confirm, retry, shutdown task, exit | one shutdown; exit only when all components converged |
| App Server connection | `…/codex/supervisor.rs`, `process.rs` | generation, runtime, health, shutdown flag, timers | connect, probe, lost, violation, restart, shutdown, forced shutdown | one process, of the current generation; it comes back until shutdown and never after |
| Main turn | `…/codex/supervisor.rs` | active session, pending start, known threads, gates | thread start/resume/list, turn start, interrupt, notifications, rollback, switch | one turn; none unsupervised; no start stays pending |
| Fallback decisions | `…/codex/decision.rs` | entries: pending, claimed | register, claim, complete, end of turn, expire | an answer is given once and told once |
| RPC transport | `…/codex/rpc.rs` | pending ids, writer queue, reader | request, response, timeout, end of stream | a request is settled once and takes no room after it |
| Server requests | `…/codex/requests.rs` | pending, resolved window | register, resolve, replay, expire | one answer per request and connection |
| Main work units | `…/git_review/main_work_unit_runtime.rs`, `service.rs` | leases, commit candidates, proofs, invalidated generations | begin, record, terminal, abandon, invalidate | each lease ended once; a commit is attributed to the unit that made it |
| Commit explanation | `…/codex/commit_explanation.rs` | queue, active task, cache, scope | request, cancel, worker, shutdown | states say what is there; nothing runs after shutdown |
| Support runs | `…/codex/support.rs`, `commit_explanation.rs` | entries, process of each run | construct, explain, cleanup, stop | a cancellation reaches its run; no process outlives a reported shutdown |
| Presence director | `…/codex/presence.rs` | scope, turn, two queues, active candidate | scope, observe, milestones, worker, shutdown | nothing published out of scope or turn |
| Support settings, audit | `…/codex/support_control.rs` | files with their identity | update, append, atomic replacement | old or new after a crash |
| Workspace history | `…/workspace_history/` | SQLite, operation lock, startup state | register, sessions, turns, restore, shutdown | no unfinished turn survives; one writer |
| Git review | `…/git_review/` | observations, evidence, proofs | observe, read, prove a commit | evidence only of what git shows |
| Narration | `…/narration/` | queue, epoch, process, policy | speak, cancel, mute, worker | nothing spoken after a cancellation |
| Character library | `…/character/` | packs, state file, quarantine | inspect, import, delete, select | a failed change leaves the packs as they were |
| Preferences, window, readiness | `…/preferences/`, `window_state.rs`, `readiness/` | small files | get, update | last accepted write survives |
| UI session | `src/features/codex/` | events, claims, activation token | activate, send, receive, recover | late events and answers change nothing |
| UI narration | `src/features/narration/controller.ts` | shown remark and explanation, caption gate, chain of speech, epoch | show, confirm, schedule, dismiss, scope, settings | only what is seen is spoken, in order |
| UI settings contexts | `src/features/workspace-view/useEditableSettingsContext.ts`, `…/workspace_history/` | sections with draft and revision, tokens, versions | show, edit, save, discard, close | drafts survive late answers; nothing unseen is overwritten |
| UI review, character, views | `src/features/…` | view state | handlers | late answers are dropped |

### How they interact

* UI commands are asynchronous functions of the Rust side. Two of them
  interleave wherever one awaits; the state behind a mutex is consistent only
  within one locked section.
* The supervisor has two locks. The *lifecycle lock* is held over awaits by
  connect, probe and shutdown. The *state lock* is held for one section at a
  time, by everybody: commands, signal loop, restart timers, forced shutdown.
* The App Server answers requests directly to their callers (a oneshot per
  request) but sends notifications through a bounded channel to one signal
  loop, which waits for the work units, for git and sometimes for the server.
  So a response and a notification of the same turn are handled in either order.
* The turn has a lease in the main work unit runtime, which observes git, and
  may continue a decision of an earlier turn.
* Support work (remarks, explanations) runs in processes of its own, one run
  at a time for each of the two, and is cancelled from several sides.
* Each store on disk has one lock or one owner; a crash may come between any
  two calls of the file system.
* When the application quits, a shutdown task visits supervisor, narration,
  explanation controller and history, in that order, gracefully under one
  deadline, and then by force those that are not clean.

### What is hard here

Steps between two awaits; late answers after a switch, a timeout or a
reconnect; the order of response, started and completed; failures in the middle
of connecting, restarting, saving and shutting down; work that must be ended
exactly once by one of many possible parties; bounded queues between tasks that
wait for each other. `PROJECT.json` lists the hazards line by line with the
properties that watch them.


## 2. Modules

| Module | What it is |
| --- | --- |
| `AppLifecycle` | close requests, confirmation, shutdown tasks, retry, exit |
| `CodexConnection` | generations, processes, connects, signals, restarts, shutdown |
| `TurnSession` | sessions, threads, turns, decisions, leases, notifications |
| `Asks`, `Transport` | what is promised for a request of the server to the user, and the connection, the ledger and the signal loop that keep it |
| `WorkUnitCommits` | which commits a work unit is credited with |
| `Presence` | candidates for remarks, their queues and their worker |
| `CommitExplanation`, `SupportRun` | the controller of explanations, and the runs behind it |
| `Narration` | the queue of the speech service and its processes |
| `WorkspaceHistory` | workspaces, turns, their rows, worktrees and trusted roots |
| `CharacterLibrary`, `SupportFiles`, `Preferences` | what is kept in files, over failed calls and restarts |
| `UiSession` | the adapter and the stores of the window, against events and answers |
| `NarrationView` | captions and their speech in the window |
| `ContextEditing` | the editable contexts of the settings, and their versions in the history |
| `AppLifecycleProofs`, `CodexConnectionProofs`, `TurnSessionProofs`, `WorkUnitCommitsProofs` | theorems about the module each is named for |
| `TransportProofs` | theorems about `Transport`, and that it implements `Asks` |
| `StoresProofs` | theorems about `WorkspaceHistory`, `Preferences`, `SupportFiles`, `CharacterLibrary` |
| `SupportProofs` | theorems about `SupportRun`, `CommitExplanation`, `Narration`, `UiSession`, `Presence` |
| `WindowProofs` | theorems about `ContextEditing`, `NarrationView` |
| `MC*` with `.cfg` | small instances for TLC; `MCWindow` is the sum of `AppLifecycle` and the two modules of the window, `MCParts` of the others but `CodexConnection` and `TurnSession` |

An action is a locked section, the stretch between two awaits, or one call of
the file system; its name is the function's where it has one. `PROJECT.json`
gives the lines of every definition.

**AppLifecycle.** `state` is `AppLifecycleState`, `exitReady` the flag the
`ExitRequested` handler reads. A close is two actions, since `request_app_close`
awaits between them. `CancelQuit`, `ConfirmQuit` and `RetryCleanup` take any id
the UI has ever been told of. A shutdown task steps through `GracefulStep`s and
`ForceStep`s with either outcome; the deadline drops the graceful pass anywhere.
`cleaned` is what really has converged: the reports are compared with the facts.

**CodexConnection.** A process is named by its generation. `op` is the holder of
the lifecycle lock, `loop` the signal loop; `timers`, `fired` and `owed` are the
restarts that sleep, that wait for the lock, and that a failed connect has yet
to schedule. A handshake ends with a server that is ready or one that is
installed but has no account, model or effort (`ApplyHandshake`); the next connect
does not look at such a server again but replaces it, and `unusable` counts them. A
process that loses its last owner gets SIGKILL without being
waited for. `ForceBegin` takes no lifecycle lock. The rest of the shutdown is `app`.

**TurnSession.** The connection is `generation` and `ready`. A command is a record
in `call` that advances one locked section at a time. `Timeout` fails a request
whose answer may still come. What `handle_notification` awaits after the lock is
`LoopTerminal` and `LoopRollback`. A decision whose time is over goes in two ways: by
the timer, which tells it (`ExpireDecision`), or by a claim that meets it first and
removes it silently (`ClaimExpired`). The App Server is external. `ready` stands for
what `CodexConnection` has as `ready` with `runtime # 0`.

**Transport** has the frames on their way, the map of pending requests, the writer
queue, the reader, the signal channel and the ledger of requests to the user,
over two connections. A request of ours is settled by the reader, its timeout
or the end of the connection. The signal loop, when it expires or refuses a
request, waits for an interrupt itself. `ImplementsAsks` maps it to **Asks**:
`open` is what has a card, `told` what the server has been told.

**WorkUnitCommits** is the path from a notification about a commit command to a
row of evidence: `BeginObserve` … `StartUnit` when a turn is reserved, then
`InspectHead`, `InsertCandidate`, `ObserveHead`, `ProveCommit`, `PushProof` for its
commands and `CaptureAfter`, `ListCommits`, `AppendEvidence`, `AppendWorkUnit` for
its end. The table of units is locked only between them. HEAD is a number, its
ancestors a set; anybody may commit or move it.

**Presence** builds candidates in one section (`Builds`) and admits them in another
(`Admit`), as the director does. **CommitExplanation** has requests that give the
data lock back when they change scope (`RequestScope`, `RequestRest`), and one
worker. **SupportRun** is the run of such a worker with the three who may stop it:
user, timeout, quit. Each notes what the map of runs says (`Note`), marks
(`Mark`), stops what it noted and looks again.

**Narration** separates a command's parts (`Drain`, `Bump`, `KillActive`), because
the worker runs between them, and `ForceCloses` takes no admission lock. A
process starts only in the epoch of its job (`Spawns`).

**WorkspaceHistory** queues commands for the operation lock. A command that awaits
git between transactions is several actions (`CallCreate` … `SelectCreated`), and
a crash (`CrashHistory`) keeps database and disk.

**CharacterLibrary** and **SupportFiles** have one action per rename, sync, link or
write, each of which may fail. An operation on the library begins with a read of it
(`Loads`), which moves a pack that cannot be read or verified to `broken`, also when
the operation is refused afterwards (`Refuse`), and ends with another one for the
snapshot it answers (`Snapshot`), which may give up the selection. `SupportFiles` keeps the directories a loss of power
may leave (`mayBe`). **Preferences** composes the store with the controller of the
window, whose write may fail, be lost or have an unknown outcome.

**UiSession** has the supervisor's answers and events in channels of their own; the
events of the signal loop keep their order, those of other commands may be
overtaken (`Numbered` is apart from `Emits`). An opening ends blocked when the
diagnostic, which is kept until the connection is lost, or the writer of the history
is not ready (`Connected`).

**NarrationView** has what the window shows (`screen`), the captions of the shown
explanation (`captions`), and the promise chain of what is to be spoken (`chain`):
each task waits for its moment, for cancellations and for answers, and compares
epoch and caption afterwards. `confirmed` and `called` are history.

**ContextEditing** has one section per context (`sections`), the calls on their way
with the token they were made with (`contextCalls`), and the stored versions.
`kept` is history: the last text the user typed and has neither saved nor given up.

## 3. What is checked

| Run | Result | What it shows |
| --- | --- | --- |
| `window` | holds | a quit is one shutdown, exits only when clean, declined quits are not carried out, no cleanup is repeated, and every attempt settles; only confirmed captions are spoken; drafts of the settings are safe |
| `turn_switch` | holds | gate against turns, pending start stays in its session, under switches, cancellation and unregistration |
| `turn_races` | holds | one turn; a claimed decision has its continuation and one outcome; leases and running turns always have somebody to end them, over two generations |
| `turn_live` | holds | a pending start settles, a lease is bound or settled |
| `connection` | holds | the installed runtime is current and somebody reconnects (`ConnectionIsKept`), no process is started that a fault, a probe or an unusable server does not account for (`OneReplacement`), shutdown is final; a wanted connection comes back |
| `parts` | holds | the safety properties of the other modules (below) |
| `parts_live` | holds | their liveness |
| `turn_home` | violated | a late thread response lands in another workspace |
| `connection_stop` | violated | forced shutdown misses a process being connected |
| `explanation_once` | violated | a refused request leads to two tasks for one commit |
| `unit_unrecorded` | violated | two overlapping commit commands lose the record of the whole turn |
| `session_running` | violated | the view of a turn that has ended is set back to running |

The violated runs state what a requirement of the repository says; each is
quoted, with its line, among the findings in `PROJECT.json`.

| Property of `parts` | Says |
| --- | --- |
| `EntriesAreLive` | a pending entry has a caller and a place in its connection; a card is open for a request that is not answered |
| `ImplementsAsks` | requests of the server are answered once and told once |
| `RemarksAreSound` | a remark is published in the scope and turn it was made for, messages in order |
| `ExplanationsAreSound` | a state that says queued or running has its task; nothing runs after shutdown |
| `RunsAreStopped` | after a clean shutdown no process is left; a cancellation has stopped its run |
| `NarrationIsSound` | nothing sounds after a completed cancellation or close; pieces in order |
| `HistoryIsSound` | the active and every trusted workspace are visible, a request has one workspace; turns are closed by restart and shutdown |
| `SessionIsSound` | no workspace sees another's events; a terminal is reported once |
| `PreferencesAreKept` | a choice that was confirmed is stored; versions agree |
| `FilesAreSafe` | the file is whole, a save that was confirmed is durable, an unsafe file untouched |
| `FailureKeepsPacks` | a change that is answered, of at most one failure since it has read the library, has been made as a whole or costs no pack it had found and no selection; a success has been made |
| `ImportNeverEmpties` | at every moment of an import, and so after a crash, the new pack or all that were found are in the library |
| `CommitsAreAttributed` | a commit is credited to one unit, which reached it; records are whole; nothing after invalidation |

`parts_live`: `LoopReturns` (the signal loop never waits for ever),
`RemarksAreServed`, `ExplanationsSettle`, `StopReturns`, `QueueIsServed`,
`ShutdownAnswered`, `SavingEnds`.

Several properties are conjunctions of named parts, which the modules state and
comment one by one. Every property of a run that holds has a mutant: a `Bug…`
operator beside the definition it replaces, with the bug a change of that code
could bring in; TLC finds the property violated with it.

### Bounds

* `window`: a sum like `parts` (below). Of the quit, two request ids allow a declined quit to be followed by
  another, two close tasks a duplicate close, two slots a second shutdown task
  (none is ever started), `MaxAttempt = 2` one retry. Of the narration, an urgent
  and a minor remark and an explanation of one chunk compete for what is shown,
  over two scopes and one disturbance; the order of the chunks needs two, and is
  left to the theorem, which holds for every number. Of the contexts, a project
  and a pack are edited twice and shown three times, one call fails.
* `turn_*`: two commands in flight interleave every pair of locked sections.
  `Offered` names the kinds of command the clients issue in a run, so that each
  run explores the commands its question is about. `MaxNotes = 1` bounds the
  channel the server fills; a second notification waits in the server, and the
  order of responses against notifications is not restricted by it. The
  constraint `Apart` of `turn_races` leaves out a decision that outlives a loss of
  the server: the loss clears the decisions.
* `connection`: three processes are the first one, its replacement, and one that
  would be superfluous. A behaviour has two faults and a connect or probe, or one
  fault and two of those (`AskOrFault`), which fall anywhere in a connect, a restart
  or the shutdown; the second connect may meet a server that is installed and
  unusable. Where a fourth process would be due, which the bound does not allow,
  `Reconnects` does not ask for it (`AtBound`).
* `parts` and `parts_live`: a behaviour is a behaviour of one part, the others
  stay in an initial state. Their invariants hold there and none of their fair
  actions is enabled, except the start of the history and the first step of the
  preferences, whose fairness is stated of their own behaviours only. So the
  run has the behaviours of each part and no other, and its states are the sum
  and not the product. Each part has two of what must compete or overtake (two
  messages, two commits, two speeches, two workspaces or worktrees, two
  generations of the server), one or two failures, and one crash; limits of
  queues are at one or two, so that they are reached. Two packs are one that is there
  and one that is imported; that several are archived and restored is left to the
  theorem.
* `CHECK_DEADLOCK FALSE` where the system may really stop: nobody asks for
  anything, or the application is shut down, or the bounded inputs are used up.

### Fairness

* `AppLifecycle!FairSpec`: each shutdown task and the exit. The tasks are spawned
  on the runtime, and every await in them has a deadline.
* `TurnSession!FairSpec`: each command (every request has a timeout), the signal
  loop, what follows a rollback and due invalidations (spawned tasks). None of
  the server: it may never answer.
* `CodexConnection!FairSpec`: the holder of the lifecycle lock and the signal loop
  (bounded awaits), each timer and retry (sleeping tasks); strong fairness of a
  restart that waits for the lock, since tokio's mutex queues its waiters. None
  of the environment: faults may stop, and their number is bounded.
* `TransportFairness`: reader, signal loop and the timeouts of callers, all tasks
  of the runtime; none of server and user.
* `PresenceFairness`, `ExplainFairness`: the worker, whose run is bounded by a
  deadline, and the timer of its cooldown.
* `RunFairness`: each run's task, the worker and the three stoppers; construction,
  explanation and cleanup have deadlines.
* `NarrationFairness`: the worker and a command once it is inside; a speech
  process ends or is killed at its deadline.
* `HistoryFairness`: the holder of the operation lock. The native dialog is
  inside of it: it is assumed to be answered, and the model shows that the
  shutdown waits for it.
* `PrefFairness`: the answers to the controller's call; a lost answer is an error.

## 4. What is proved

Every invariant and every action property of the runs that hold is a theorem, and
so is the refinement: for every value of the constants that meets the assumptions
(`…Assumption` in each module: bounds are naturals, `None` is no request,
workspace or thread, each thread has a home workspace, the sets that must be
finite or apart are). The exceptions are named at the end. Each proof has an
inductive invariant with the types in it, which TLC has checked on an instance
before it was proved. What these invariants add is what the code relies on and
nowhere says:

* **AppLifecycle** (`QuitIsSound`, `NoWayBack`). `OneShutdown` is inductive with the
  types: a task is spawned only from states in which none runs (`SpawnAlone`).
  `ExitOnlyWhenClean` is not; `CleanInv` adds that every `Completed` in a report,
  retained or in progress, is true (`ReportsSound`), that a pass that is still good
  has converged all it has visited (`PassSound`), and that the exit flag implies it
  all (`ExitSound`). `CleanupAtMostOnce` needs that a forced cleanup that completed
  is in the report of whoever comes next (`OnceInv`).
* **CodexConnection** (`ConnectionIsKept`, `ShutdownIsFinal`, `OneReplacement`). The
  types need to know which process an operation works on (`Named`), so they are
  proved with `CurrentInv`: while a connect holds the lock the generation is its
  own. `SomeoneReconnects` rests on `Inv`, whose parts say what the connect in each
  place guarantees, that a timer is never for a later generation, that an
  installed process has not been stopped behind the loop's back without a signal
  on the way, and that what is broken has been reported. `OneReplacement` is an
  account (`Paid`): each process beside the first is paid for by a fault, a
  probe or a handshake that found no account, model or effort, and one more is
  unless the last process is good, Ready and in the hands of who is to use it
  (`InHand`). A spawn draws on what is left over, and a process is only taken down
  for what went wrong with it (`Blamed`), which has been paid. A runtime is Ready
  while it is installed and wanted (`Installed`); one that is not wanted waits for
  the user, who must sign in, and for the connect that replaces it.
* **TurnSession** (`OneTurn`, `PendingInSession`, `GateExcludesTurn`,
  `DecisionsAreSound`, `NothingIsOrphaned`). The first three are inductive only
  together (`SessionInv`): a start is bound to a turn only in its own session, the
  gate is about that session, and a decision belongs to the loaded workspace
  (`DecisionInSession`), which is why its continuation does. `BaseInv` says that
  tokens are of one start, that the turns of the server carry the token they were
  started with, that notifications are true and told once, and what a pending
  start and an interrupt know. On it rest `DecisionInv` (a claimed decision has its
  continuation, one without outcome is open), `LeaseInv` (a lease is opened once, a
  bound unit is the active turn's, and who holds the lease until then) and
  `TurnInv`: a turn that runs is the active one, or its start or a violation is on
  its way, or it is told to stop. That is more than `NoOrphanTurn`, which is also
  content with a response on its way: the notification comes first and is not lost.
* **WorkUnitCommits** (`CommitsAreAttributed`): a commit is credited to one unit,
  which saw HEAD come to it, its record is whole and handed on once, and no
  invalidated generation keeps a context. `Inv` adds that units are new when they
  begin (`UnitsAreNew`), that a proof is of a commit its unit reached
  (`ProofsAreReached`) and that the ledger is in order of the units (`LedgerIsInOrder`).
* **Transport** (`EntriesAreLive`, `ImplementsAsks`). The refinement is proved step by
  step: each step of the connection, ledger and signal loop is one of `Asks`, or
  changes neither the cards nor what the server has been told. It needs `AskInv`:
  a request that arrives at the end of its turn, or behind it, is not shown
  (`LateAsks`, along the pipe from the server over reader and signal channel to the
  ledger), one that is shown belongs to a turn that is on (`TurnIsOn`), and for each
  request one answer has been given, which is the recorded one (`OneAnswer`). The
  theorem has a hypothesis, `Cardinality(Keys) <= Window`: the ledger forgets old
  resolutions (`MAX_RESOLVED_REQUESTS`, 256, `requests.rs:18`), and a server that used
  more ids and then repeated a forgotten one could have it shown and answered anew.
* **WorkspaceHistory** (`HistoryIsSound`, with `HistoryInv`): commands that wait are
  at their first step, so only the holder of the operation lock has relied on
  anything; what it relies on between two transactions still holds; the start
  holds the lock before anybody else.
* **Preferences** (`PreferencesAreKept`, with `PrefInv`): a choice is held once, to be
  written or to be retried; nothing is chosen where the answer to a get may replace
  what is shown; answers on their way agree with the store.
* **SupportFiles** (`FilesAreSafe`, with `FilesInv`): all the directories that a loss of
  power may leave are good, not only the one that is seen; and for each phase what
  a save relies on, the way back included.
* **CharacterLibrary** (`FailureKeepsPacks`, `ImportNeverEmpties`, with `LibraryInv`):
  a pack is in one directory; until the state is saved everything the operation
  found is installed or archived and the selection is the old one
  (`NothingIsLost`); from the publication on the new pack is installed
  (`WorkIsSound`); once the state is saved it selects what is there
  (`SelectionIsSound`). Both properties are about what the operation found: a pack
  that its first read could not read has left the library before.
* **SupportRun** (`RunsAreStopped`, with `RunInv`): the map says where a run is as long
  as its process may be there; what a stopper has noted still holds or has been
  acted upon; a canceled run is marked, so that one under construction does not go
  on; the end is final.
* **CommitExplanation** (`ExplanationsAreSound`, with `ExplainInv`): a worker is there
  while there is work, a commit is once in the order of the cache, and each state
  has behind it what it speaks of.
* **Presence** (`RemarksAreSound`, with `PresenceInv`): what waits, or is spoken and not
  canceled, is of the present scope and era; one event is observed at a time;
  messages are ordered and distinct; and a turn that is said to be completed is
  over, without a message waiting, when it is taken up.
* **Narration** (`NarrationIsSound`, with `NarrationInv`): the pieces are numbered, what
  was heard precedes the job, and the job what is queued; from the raising of the
  epoch to the answer nothing can start; a close leaves the service sealed.
* **UiSession** (`SessionIsSound`, with `UiInv`): the active turn runs; what is on its
  way, in order or aside, is true for good; the stores are of one workspace and
  generation, and empty until the thread is there; the latest opening is that of
  the shown workspace; of an accepted turn the end and the acceptance are on their
  way or noted.
* **ContextEditing** (`DraftsAreSafe`, with `ContextInv`): the call with the latest token
  holds its section; answers are of stored versions.
* **NarrationView** (`SpeechFollowsCaptions`, with `SpeechInv`): the captions are those
  of the shown explanation; one that leads or was scheduled was confirmed; they are
  scheduled in their order, and the chain keeps it; tasks of an earlier epoch are
  not live; what was scheduled of a show stays scheduled while it is shown; what
  was called precedes the live tasks that wait. `ActivationsFit` adds that only what
  is prepared is about to be shown.

The lemmas about sequences, the line of commands, the pipe and the processes that
these proofs keep needing are stated once, with their module.

Only model-checked: the liveness properties (`ShutdownSettles`, `Reconnects`,
`TurnsSettle` and the seven of `parts_live`). Liveness under fairness, and what is
enabled, is out of reach of the installed provers, and so is induction over data:
no proof rests on what a recursive definition computes. The five properties of
the violated runs are refuted, on the instances, by behaviours of the code.

## 5. What is not modelled, and what was seen on the way

Components that no module covers: the types of the wire format, binary discovery
and isolation, attachments, the content of packs, the UI's persistence adapters,
its review of commits, its character and the shell's views, readiness probes, and
everything vendored or generated. They are input and output, formats or
presentation, without a protocol of their own; the UI's review of commits has one
(late answers fenced by counters) and is the next to be modelled.

Left out of the modules there are:

* `TurnSession`: reviews, steering, the form of decision cards, several cards of a turn.
* `WorkUnitCommits`: a switch of branch or repository, the limit of 100 commits, the
  public observe, a begin whose first observation fails.
* `WorkspaceHistory`: repair, relinking, project setup, the compare-and-set of drafts
  and anchors, health, migration, backup.
* `SupportFiles`: files that somebody else puts there. `CharacterLibrary`: the content
  of packs.
* `UiSession`: history writes, `adapter.stop`, `stopTurnAndWaitForTerminal`, several
  threads of a workspace.
* `Presence`: the epoch that the timer of a milestone compares when it fires.
* `NarrationView`: limits of what is prepared and remembered, several commands of the
  settings at a time, generations of one workspace, the source of the presence scope.
* `ContextEditing`: the form of texts and references, the manifest, what a turn is
  given of it.
* Everywhere: the length of timeouts and the content of messages.

Behaviours that the models have, or that reading the code showed, and that no run
is spent on. None contradicts a sentence of the repository, unless one is quoted:

* `app_lifecycle.rs:485`: whether a turn is active is read before the lock; a turn
  that starts in between is quit without a prompt.
* `supervisor.rs:2687`: the violation handler stops a process outside the lifecycle
  lock, so that two servers may be alive for a moment; one is installed.
* `supervisor.rs:1428`: another thread may be opened while a turn is active; the end
  of that turn is then not found by the active thread. After a start that timed
  out, a turn of its thread that begins late can be taken for the next pending
  start of that thread, since no token is compared.
* A protocol violation emits no terminal event to the window, whose executions then
  count as stale and hold back sends. A response that comes after its timeout
  costs the connection.
* `character/storage.rs`: an import publishes its pack (502) before it takes the one
  that is there away (503). If the process ends between the two, or the sync behind
  the publication fails (444), both stay in the library, and no start takes one
  away; the docs have no more than one custom pack at any point of a replacement, a
  failure or a restart (`live2d-character.md:104`) and no failed pack in the library
  (102). The model has these states, and `ImportNeverEmpties` says what the order
  buys: a crash finds one pack too many and never none. But the selection is lost
  by a crash between the archive and the saved state.
* `character/storage.rs:550`-`587`: one read that fails for a moment moves a pack, even
  the selected one, to `broken/`, also when the operation is then refused; the second
  read, for the snapshot, may answer an error to a change that was made.
* `decision.rs:172`: an answer to a decision whose time is over removes it without an
  event; the caller alone is told.
* `supervisor.rs:899`: a connect does not look again at a server that is not Ready,
  for instance before the user has signed in, but stops it and starts another.
* `workspace_history/service.rs:1042`-`1110`: a create that fails late leaves what its
  rollback could not take back.
* The audit's store keeps a stale identity of its entry after a sync that failed
  behind the exchange; renaming one hard link to another leaves both names.
* A shell command's commit is proved with the HEAD that is there when its completion
  is handled; a diverged HEAD drops the record of the unit.
* The review store can stay in "loading" and be given a cached observation of an
  earlier store: request ids start again with each (`git_review/service.rs:138`, `710`).
* `narration/controller.ts`: a test of the voice raises the epoch without resetting the
  shown status; an activation that waits for a dismissal is not fenced by the
  scope; a remark may be accepted while a cancellation is on its way; a refresh
  read before a save can restore older settings.
* The view model of the workspaces: an answer to a selection is read before an awaited
  activation and applied after it, over text that was typed meanwhile
  (`useWorkspaceViewModel.ts:313`; `docs/requirements/desktop-shell.md:76` asks that
  drafts survive); text and attachments added while a send is on its way are
  cleared; a send that a switch overtakes keeps its draft; answers to archive and
  others are applied without comparing versions; a draft that failed to be saved
  waits for the next edit.

What may come next: the UI's review and explanations with their counters, drafts and
anchors of the history, and the refinement of the connection that `TurnSession`
assumes by `CodexConnection`.
