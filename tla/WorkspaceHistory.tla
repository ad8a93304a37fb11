--------------------------- MODULE WorkspaceHistory ---------------------------
(***************************************************************************)
(* Workspaces and their history (workspace_history/service.rs, store.rs,   *)
(* codex/workspace.rs): what the database says of projects, workspaces     *)
(* and turns, the worktrees on the disk and the workspaces that are        *)
(* trusted in memory.                                                      *)
(*                                                                         *)
(* A command is admitted by two flags and then waits for the operation     *)
(* lock, first come first served; it keeps the lock over its awaits. Each  *)
(* call of the store is a transaction that first looks whether writes are  *)
(* still accepted, which a shutdown ends at once, also for the command     *)
(* that is under way; its own work waits for the lock. The process may     *)
(* die at any point; the database and the disk stay.                       *)
(*                                                                         *)
(* Git, the picker and the validation of a worktree answer in any way,     *)
(* but none validates a worktree that is not there, and a transaction may  *)
(* fail. Left out: the recorded health, drafts, anchors and contexts.      *)
(***************************************************************************)
EXTENDS Naturals, Sequences, FiniteSets

CONSTANTS Projects, Worktrees,   \* projects, and ids of workspaces
          CreateRequests,        \* client_request_id
          Turns,                 \* turn handles, each of one workspace
          LineLimit,             \* bound on the commands that are admitted
          MaxCommand,            \* bound on the commands
          MaxCrash               \* bound on the restarts

ASSUME HistoryAssumption == LineLimit \in Nat /\ MaxCommand \in Nat /\ MaxCrash \in Nat

VARIABLES
  registered, rows, activeWorkspace, turns,   \* the database
  worktrees,                \* the disk
  trusted, challenges,      \* WorkspaceService::trusted, delete_challenges
  line,                     \* the commands at operation_lock, the first holds it
  startup, acceptingWriters, writable,   \* StartupReadiness, and the flags of service and store
  closedHistory,            \* the outcome of the last shutdown
  commands, crashes,
  fresh, recovered          \* history: turns begun in this run, and that the last recovery worked

database == <<registered, rows, activeWorkspace, turns>>
memory == <<trusted, challenges>>
gates == <<startup, acceptingWriters, writable, closedHistory>>
historyPast == <<fresh, recovered>>
historyVars == <<database, worktrees, memory, line, gates, commands, crashes, historyPast>>

NoRow == [project |-> "none"]
NoWorkspace == "none"
Unfinished == {"running", "waiting"}
NoTurn == [st |-> "none"]
Restore == [op |-> "restore", at |-> "recover"]
ShutdownTask == [op |-> "shutdown", at |-> "recover"]

Existing == {w \in Worktrees : rows[w] # NoRow}
Visible == {w \in Existing : rows[w].project \in registered}

HistoryInit ==
  /\ registered = Projects /\ rows = [w \in Worktrees |-> NoRow] /\ activeWorkspace = NoWorkspace
  /\ turns = [t \in Turns |-> NoTurn] /\ worktrees = {}
  /\ trusted = {} /\ challenges = {}
  /\ line = <<Restore>> /\ startup = "pending" /\ acceptingWriters = TRUE /\ writable = TRUE
  /\ closedHistory = "open" /\ commands = 0 /\ crashes = 0
  /\ fresh = {} /\ recovered = TRUE

-----------------------------------------------------------------------------
(* Commands come, and the one in front goes on or is answered.             *)

\* ensure_startup_ready, and then the operation lock.
Arrives(command) ==
  /\ acceptingWriters /\ startup = "ready"
  /\ commands < MaxCommand /\ Len(line) < LineLimit
  /\ commands' = commands + 1 /\ line' = Append(line, command)
  /\ UNCHANGED <<database, worktrees, memory, gates, crashes, historyPast>>

At(op, step) == line # <<>> /\ Head(line).op = op /\ Head(line).at = step
Step(next) == line' = [line EXCEPT ![1] = next]
Answered == line' = Tail(line)

Unmoved == UNCHANGED <<gates, commands, crashes>>

-----------------------------------------------------------------------------
(* append_domain_event of the status of a turn, delete, register.          *)

CallAppend ==
  \E t \in Turns, w \in Worktrees, st \in {"running", "waiting", "completed"} :
    /\ turns[t].st \in (IF st = "running" THEN {"none"} ELSE Unfinished)
    /\ turns[t].st # "none" => turns[t].ws = w
    /\ Arrives([op |-> "append", at |-> "write", turn |-> t, ws |-> w, st |-> st])

\* A command that is no longer accepted, or of a workspace that is gone, is refused.
AppendEvent ==
  LET c == Head(line) IN
  /\ At("append", "write") /\ Answered
  /\ \/ /\ writable /\ c.ws \in Visible
        /\ turns' = [turns EXCEPT ![c.turn] = [ws |-> c.ws, st |-> c.st]]
        /\ fresh' = fresh \union {c.turn}
     \/ UNCHANGED <<turns, fresh>>
  /\ UNCHANGED <<registered, rows, activeWorkspace, worktrees, memory, recovered>>
  /\ Unmoved

\* issue_delete_challenge does not take the lock.
IssueChallenge(w) ==
  /\ acceptingWriters /\ startup = "ready" /\ writable /\ w \in Visible \ challenges
  /\ challenges' = challenges \union {w}
  /\ UNCHANGED <<database, worktrees, trusted, line, historyPast>> /\ Unmoved

CallDelete == \E w \in Worktrees : Arrives([op |-> "delete", at |-> "write", ws |-> w])

\* delete_workspace takes the token first. Events and sessions go, the workspace stays.
DeleteHistory ==
  LET w == Head(line).ws IN
  /\ At("delete", "write") /\ Answered
  /\ IF writable /\ w \in challenges THEN challenges' = challenges \ {w} ELSE UNCHANGED challenges
  /\ \/ /\ writable /\ w \in challenges /\ w \in Visible
        /\ turns' = [t \in Turns |->
             IF turns[t] # NoTurn /\ turns[t].ws = w THEN NoTurn ELSE turns[t]]
        /\ rows' = [rows EXCEPT ![w].request = "forgotten"]
     \/ UNCHANGED <<turns, rows>>
  /\ UNCHANGED <<registered, activeWorkspace, worktrees, trusted, historyPast>> /\ Unmoved

CallRegister == \E p \in Projects : Arrives([op |-> "register", at |-> "pick", project |-> p])

\* pick_register: the picker is open for as long as the user likes, with the lock held.
Register ==
  /\ At("register", "pick") /\ Answered
  /\ \/ writable /\ registered' = registered \union {Head(line).project}
     \/ UNCHANGED registered
  /\ UNCHANGED <<rows, activeWorkspace, turns, worktrees, memory, historyPast>> /\ Unmoved

-----------------------------------------------------------------------------
(* create_session.                                                         *)

CallCreate ==
  \E r \in CreateRequests, p \in Projects :
    Arrives([op |-> "create", at |-> "lookup", request |-> r, project |-> p, ws |-> NoWorkspace])

\* session_workspace_for_request.
Known(r) == {w \in Existing : rows[w].request = r}

\* A request that is known selects its workspace.
Lookup ==
  LET c == Head(line) IN
  /\ At("create", "lookup")
  /\ IF Known(c.request) # {}
     THEN /\ Answered
          /\ \/ writable /\ \E w \in Known(c.request) \intersect Visible : activeWorkspace' = w
             \/ UNCHANGED activeWorkspace
          /\ UNCHANGED worktrees
     ELSE /\ UNCHANGED activeWorkspace
          /\ \/ Answered /\ UNCHANGED worktrees      \* the project has changed, or git fails
             \/ /\ writable /\ c.project \in registered
                /\ \E w \in Worktrees \ (Existing \union worktrees) :
                     /\ worktrees' = worktrees \union {w}
                     /\ Step([c EXCEPT !.at = "persist", !.ws = w])
  /\ UNCHANGED <<registered, rows, turns, memory, historyPast>> /\ Unmoved

\* rollback_managed_worktree; git may fail there, too.
RemovesWorktree(w) == worktrees' \in {worktrees \ {w}, worktrees}

\* create_managed_session_workspace, in one transaction, which looks for the request again.
Persist ==
  LET c == Head(line) IN
  /\ At("create", "persist")
  /\ \/ /\ writable /\ c.project \in registered /\ Known(c.request) = {}
        /\ rows' = [rows EXCEPT ![c.ws] = [project |-> c.project, request |-> c.request]]
        /\ Step([c EXCEPT !.at = "activate"])
        /\ UNCHANGED worktrees
     \/ Answered /\ RemovesWorktree(c.ws) /\ UNCHANGED rows
  /\ UNCHANGED <<registered, activeWorkspace, turns, memory, historyPast>> /\ Unmoved

\* The most recently selected workspace of a registered project, if there is one.
Fallback(from) == IF from = {} THEN {NoWorkspace} ELSE from

\* rollback_registration: the row goes, with its sessions and events.
Forgets(w) ==
  /\ rows' = [rows EXCEPT ![w] = NoRow]
  /\ turns' = [t \in Turns |-> IF turns[t] # NoTurn /\ turns[t].ws = w THEN NoTurn ELSE turns[t]]
  /\ IF activeWorkspace = w THEN activeWorkspace' \in Fallback(Visible \ {w})
     ELSE UNCHANGED activeWorkspace

\* What has been made is taken back; the row only while writes are accepted.
TakesBack(w) ==
  /\ Answered /\ RemovesWorktree(w)
  /\ \/ writable /\ Forgets(w)
     \/ UNCHANGED <<rows, turns, activeWorkspace>>

\* validate_private_candidate, update_preflight, activate_candidate.
Activate ==
  LET c == Head(line) IN
  /\ At("create", "activate")
  /\ \/ /\ writable /\ trusted' = trusted \union {c.ws}
        /\ Step([c EXCEPT !.at = "select"])
        /\ UNCHANGED <<rows, turns, activeWorkspace, worktrees>>
     \/ TakesBack(c.ws) /\ UNCHANGED trusted
  /\ UNCHANGED <<registered, challenges, historyPast>> /\ Unmoved

\* Seeded bug: a workspace that could not be selected stays trusted.
BugSelectCreated ==
  LET c == Head(line) IN
  /\ At("create", "select")
  /\ \/ /\ writable /\ activeWorkspace' = c.ws /\ Answered
        /\ UNCHANGED <<rows, turns, worktrees>>
     \/ TakesBack(c.ws)
  /\ UNCHANGED <<registered, memory, historyPast>> /\ Unmoved

SelectCreated ==
  LET c == Head(line) IN
  /\ At("create", "select")
  /\ \/ /\ writable /\ activeWorkspace' = c.ws /\ Answered
        /\ UNCHANGED <<rows, turns, worktrees, trusted>>
     \/ TakesBack(c.ws) /\ trusted' = trusted \ {c.ws}
  /\ UNCHANGED <<registered, challenges, historyPast>> /\ Unmoved

-----------------------------------------------------------------------------
(* select, recheck, unregister, archive.                                   *)

CallSelect ==
  \E w \in Worktrees, op \in {"select", "recheck"} :
    Arrives([op |-> op, at |-> "preflight", ws |-> w])

\* What validates and is as it was recorded is activated; recheck ends with that.
Preflight ==
  LET c == Head(line) IN
  /\ At("select", "preflight") \/ At("recheck", "preflight")
  /\ \/ Answered /\ UNCHANGED trusted
     \/ /\ writable /\ c.ws \in Visible
        /\ trusted' \in {trusted, IF c.ws \in worktrees THEN trusted \union {c.ws} ELSE trusted}
        /\ IF c.op = "recheck" THEN Answered
           ELSE Step([c EXCEPT !.at = IF c.ws \in trusted THEN "keep" ELSE "select"])
  /\ UNCHANGED <<database, worktrees, challenges, historyPast>> /\ Unmoved

\* When the selection fails a workspace that was not trusted before is deactivated.
Select ==
  LET c == Head(line) IN
  /\ At("select", "select") \/ At("select", "keep")
  /\ Answered
  /\ \/ writable /\ activeWorkspace' = c.ws /\ UNCHANGED trusted
     \/ UNCHANGED activeWorkspace
        /\ trusted' = IF c.at = "keep" THEN trusted ELSE trusted \ {c.ws}
  /\ UNCHANGED <<registered, rows, turns, worktrees, challenges, historyPast>> /\ Unmoved

CallUnregister ==
  \E p \in Projects : Arrives([op |-> "unregister", at |-> "untrust", project |-> p])

OfProject(p) == {w \in Existing : rows[w].project = p}
\* restore_private_records: each is validated and activated again, or not.
Restored(ws) == {trusted \union s : s \in SUBSET (ws \intersect worktrees)}

Untrust ==
  LET c == Head(line) IN
  /\ At("unregister", "untrust")
  /\ \/ Answered /\ trusted' \in {trusted \ s : s \in SUBSET OfProject(c.project)}
     \/ /\ trusted' = trusted \ OfProject(c.project)
        /\ Step([c EXCEPT !.at = "write"])
  /\ UNCHANGED <<database, worktrees, challenges, historyPast>> /\ Unmoved

\* unregister_project; its workspaces are out of sight, and the active one is none of them.
Unregister ==
  LET p == Head(line).project IN
  /\ At("unregister", "write") /\ Answered
  /\ \/ /\ writable /\ p \in registered /\ registered' = registered \ {p}
        /\ IF activeWorkspace \in OfProject(p)
           THEN activeWorkspace' \in Fallback(Visible \ OfProject(p))
           ELSE UNCHANGED activeWorkspace
        /\ UNCHANGED trusted
     \/ /\ trusted' \in (IF p \in registered THEN Restored(OfProject(p)) ELSE {trusted})
        /\ UNCHANGED <<registered, activeWorkspace>>
  /\ UNCHANGED <<rows, turns, worktrees, challenges, historyPast>> /\ Unmoved

CallArchive == \E w \in Worktrees : Arrives([op |-> "archive", at |-> "untrust", ws |-> w])

\* A turn that is active refuses the cancellation.
ArchiveUntrust ==
  LET c == Head(line) IN
  /\ At("archive", "untrust")
  /\ \/ Answered /\ UNCHANGED trusted
     \/ c.ws \in Visible /\ trusted' = trusted \ {c.ws} /\ Step([c EXCEPT !.at = "remove"])
  /\ UNCHANGED <<database, worktrees, challenges, historyPast>> /\ Unmoved
ArchiveRemove ==
  LET c == Head(line) IN
  /\ At("archive", "remove")
  /\ \/ Answered /\ UNCHANGED worktrees
     \/ worktrees' = worktrees \ {c.ws} /\ Step([c EXCEPT !.at = "forget"])
  /\ UNCHANGED <<database, memory, historyPast>> /\ Unmoved
ArchiveForget ==
  /\ At("archive", "forget") /\ Answered
  /\ \/ writable /\ Forgets(Head(line).ws)
     \/ UNCHANGED <<rows, turns, activeWorkspace>>
  /\ UNCHANGED <<registered, worktrees, memory, historyPast>> /\ Unmoved

-----------------------------------------------------------------------------
(* Start, shutdown, crash.                                                 *)

\* Seeded bug: a turn that waits for the user is taken to have ended.
BugInterruptsTurns == turns' = [t \in Turns |->
  IF turns[t].st = "running" THEN [turns[t] EXCEPT !.st = "interrupted"] ELSE turns[t]]

\* Turns whose last status is not an end are interrupted.
InterruptsTurns == turns' = [t \in Turns |->
  IF turns[t].st \in Unfinished THEN [turns[t] EXCEPT !.st = "interrupted"] ELSE turns[t]]

\* restore_startup ends with the readiness in every case.
RestoreEnds == Answered /\ startup' = "ready"
Recover ==
  /\ At("restore", "recover")
  /\ \/ /\ writable /\ InterruptsTurns /\ recovered' = TRUE
        /\ Step([op |-> "restore", at |-> "activate"]) /\ UNCHANGED startup
     \/ RestoreEnds /\ recovered' = FALSE /\ UNCHANGED turns
  /\ UNCHANGED <<registered, rows, activeWorkspace, worktrees, memory, acceptingWriters, writable,
                 closedHistory, commands, crashes, fresh>>
RestoreTrust ==
  /\ At("restore", "activate") /\ RestoreEnds
  /\ trusted' \in (IF writable THEN SUBSET (Visible \intersect worktrees) ELSE {trusted})
  /\ UNCHANGED <<database, worktrees, challenges, acceptingWriters, writable, closedHistory,
                 commands, crashes, historyPast>>

\* shutdown and force_shutdown_now: refuse at once, and do the rest behind those in line; a
\* shutdown that is under way or has succeeded is shared.
CallShutdown ==
  /\ closedHistory \in {"open", "failed"}
  /\ acceptingWriters' = FALSE /\ writable' = FALSE /\ challenges' = {}
  /\ closedHistory' = "closing" /\ line' = Append(line, ShutdownTask)
  /\ UNCHANGED <<database, worktrees, trusted, startup, commands, crashes, historyPast>>

\* Seeded bug: a failure ends the task before it has completed its outcome.
BugShutdown ==
  /\ At("shutdown", "recover") /\ Answered
  /\ \/ InterruptsTurns /\ closedHistory' = "closed"
     \/ UNCHANGED <<closedHistory, turns>>
  /\ UNCHANGED <<registered, rows, activeWorkspace, worktrees, memory, startup, acceptingWriters,
                 writable, commands, crashes, historyPast>>

\* force_shutdown_now of the store.
Shutdown ==
  /\ At("shutdown", "recover") /\ Answered
  /\ \/ InterruptsTurns /\ closedHistory' \in {"closed", "failed"}
     \/ closedHistory' = "failed" /\ UNCHANGED turns
  /\ UNCHANGED <<registered, rows, activeWorkspace, worktrees, memory, startup, acceptingWriters,
                 writable, commands, crashes, historyPast>>

\* The process ends, at any point, and is started again.
CrashHistory ==
  /\ crashes < MaxCrash /\ crashes' = crashes + 1
  /\ trusted' = {} /\ challenges' = {} /\ line' = <<Restore>> /\ startup' = "pending"
  /\ acceptingWriters' = TRUE /\ writable' = TRUE /\ closedHistory' = "open" /\ fresh' = {}
  /\ UNCHANGED <<database, worktrees, commands, recovered>>

-----------------------------------------------------------------------------
HistoryStep ==
  \/ AppendEvent \/ DeleteHistory \/ Lookup \/ Persist \/ Activate \/ SelectCreated \/ Preflight
  \/ Select \/ Untrust \/ Unregister \/ ArchiveUntrust \/ ArchiveRemove \/ ArchiveForget
  \/ Recover \/ RestoreTrust \/ Shutdown
HistoryNext ==
  \/ CallAppend \/ CallDelete \/ CallRegister \/ CallCreate \/ CallSelect \/ CallUnregister
  \/ CallArchive \/ CallShutdown \/ CrashHistory
  \/ \E w \in Worktrees : IssueChallenge(w)
  \/ Register \/ HistoryStep

\* What holds the lock goes on, except that nobody has to answer the picker.
HistoryFairness == WF_historyVars(HistoryStep)
HistorySpec == HistoryInit /\ [][HistoryNext]_historyVars /\ HistoryFairness

-----------------------------------------------------------------------------
(* Properties.                                                             *)

\* The active workspace that the database names is one that the user sees.
ActiveIsVisible == activeWorkspace # NoWorkspace => activeWorkspace \in Visible

\* A workspace is trusted (turns may run in it) only as long as the user sees it: whatever
\* fails half way, its trust does not outlive its row or its project.
TrustedIsVisible == trusted \subseteq Visible

\* One workspace per request of the client, also when it is sent again after a crash.
OneWorkspacePerRequest ==
  \A v, w \in Existing :
    (rows[v].request = rows[w].request /\ v # w) => rows[v].request = "forgotten"

\* What the database and the memory say of workspaces fits together, wherever a command was
\* cut short by a failure, a shutdown or a crash.
WorkspacesAgree == ActiveIsVisible /\ TrustedIsVisible /\ OneWorkspacePerRequest

\* When the start is over every turn that counts as unfinished was begun in this run, unless
\* the recovery failed.
TurnsAreClosed ==
  (startup = "ready" /\ recovered) => \A t \in Turns : turns[t].st \in Unfinished => t \in fresh

\* What a start finds, and what is there while it goes on, is what was promised.
HistoryIsSound == WorkspacesAgree /\ TurnsAreClosed

\* A shutdown is answered, unless the picker is open.
ShutdownAnswered ==
  (closedHistory = "closing")
    ~> (closedHistory # "closing" \/ (line # <<>> /\ Head(line).op = "register"))
=============================================================================
