---------------------------- MODULE TurnSession -----------------------------
(***************************************************************************)
(* The main turn: how src-tauri/src/codex/supervisor.rs starts, confirms,  *)
(* interrupts, rolls back and ends a turn while workspaces are switched,   *)
(* threads opened and the App Server lost and replaced.                    *)
(*                                                                         *)
(* Commands are asynchronous functions: each runs between two awaits under *)
(* the state lock, so a command here is a record in "call" that advances   *)
(* one locked section at a time. Responses reach their caller directly;    *)
(* notifications go through one signal loop, so a response and a           *)
(* notification of the same turn are handled in either order.              *)
(*                                                                         *)
(* The App Server is external: it answers a turn/start late, in any order, *)
(* or never, and ends its turns when it likes.                             *)
(***************************************************************************)
EXTENDS Naturals, Sequences, FiniteSets

CONSTANTS Workspaces,
          Threads,        \* App Server threads
          Home,           \* the workspace whose root is a thread's cwd
          Calls,          \* commands that can be in flight at once
          Offered,        \* bound on the clients: the kinds of command they issue
          MaxToken,       \* bound on turn starts
          MaxTurn,        \* bound on turns the server creates
          MaxGeneration,  \* bound on App Server generations
          MaxNotes,       \* bound on the signal channel (1024 in the code)
          None

ASSUME TurnSessionAssumption ==
  /\ Home \in [Threads -> Workspaces]
  /\ Offered \subseteq {"thread", "start", "answer", "interrupt", "cancel", "unregister"}
  /\ None \notin Workspaces \union Threads
  /\ MaxToken \in Nat /\ MaxTurn \in Nat
  /\ MaxGeneration \in Nat \ {0} /\ MaxNotes \in Nat

Tokens == 1..MaxToken          \* 0 stands for no token and for no lease
Turns == 1..MaxTurn            \* 0 stands for no turn
Generations == 1..MaxGeneration

VARIABLES
  generation,  \* state.generation
  ready,       \* health is Ready and a runtime is installed
  active,      \* active_workspace, active_thread_id, active_turn_id
  pending,     \* pending_turn_start, or None
  handles,     \* thread_handles of the active and of the saved contexts
  saved,       \* active_thread_id of the saved contexts
  gates,       \* workspace_cancellation_gates
  units,       \* main_work_units: the lease bound to a turn
  decision,    \* fallback_decisions: at most one entry per source turn
  outcomes,    \* history: resolution events emitted for a decision
  nextToken,   \* next_turn_start_token
  lease,       \* contexts of the main work unit runtime, by start token
  inval,       \* invalidate_generation: not due, due, done
  call,        \* commands in flight
  loop,        \* what the signal loop still owes for the last notification
  aftermath,   \* what a rollback still owes: abandon a lease, interrupt a turn
  inbox,       \* external: turn/start requests not answered, with the turn begun
  srv,         \* external: the server's turns
  notes,       \* external: notifications on their way to the signal loop
  asked        \* external: turns a turn/interrupt was sent for

conn == <<generation, ready>>
session == <<active, pending, handles, saved, gates, units, decision, outcomes>>
work == <<lease, inval, aftermath>>
server == <<inbox, srv, notes, asked>>
vars == <<conn, session, nextToken, work, call, loop, server>>

NoSession == [ws |-> None, thread |-> None, turn |-> 0]
NoCall == [pc |-> "idle", ws |-> None, thread |-> None, token |-> 0, turn |-> 0, gen |-> 0]
NoDecision == [st |-> "absent", ws |-> None, done |-> FALSE, claim |-> 0]
NoTurn == [st |-> "unused", thread |-> None, token |-> 0]
IdleLoop == [lease |-> 0, rollback |-> 0]

Phases == {"idle", "startReady", "answerReady", "threadReady", "interruptReady",
           "begin", "attach", "send", "sent", "replied", "failed",
           "threadSent", "interruptSent"}

PendingStart ==
  [token : Tokens, gen : Generations, ws : Workspaces, thread : Threads,
   turn : Turns \union {0}, terminal : BOOLEAN, leased : BOOLEAN,
   decision : Turns \union {0}]

ASSUME PendingAssumption == None \notin PendingStart

Decision ==
  [st : {"absent", "pending", "claimed"}, ws : Workspaces \union {None},
   done : BOOLEAN, claim : Tokens \union {0}]
Command ==
  [pc : Phases, ws : Workspaces \union {None}, thread : Threads \union {None},
   token : Tokens \union {0}, turn : Turns \union {0}, gen : Generations \union {0}]
Notification ==
  [m : {"started", "decision", "completed"}, turn : Turns, ok : BOOLEAN]
    \union [m : {"violation"}, turn : {0}, ok : {TRUE}]

SessionType ==
  /\ active \in [ws : Workspaces \union {None}, thread : Threads \union {None},
                 turn : Turns \union {0}]
  /\ pending \in PendingStart \union {None}
  /\ handles \in [Workspaces -> SUBSET Threads]
  /\ saved \in [Workspaces -> Threads \union {None}]
  /\ gates \subseteq Workspaces
  /\ units \in [Turns -> Tokens \union {0}]
  /\ decision \in [Turns -> Decision]
  /\ outcomes \in [Turns -> Nat]

WorkType ==
  /\ lease \in [Tokens -> [st : {"none", "open", "settled"}, gen : Generations \union {0}]]
  /\ inval \in [Generations -> {"no", "due", "done"}]
  /\ aftermath \subseteq [lease : Tokens \union {0}, turn : Turns \union {0}]

\* A command has a workspace and a generation, one that starts a turn has its
\* token and its thread.
CallType ==
  /\ call \in [Calls -> Command]
  /\ \A c \in Calls :
       /\ call[c].pc # "idle" => call[c].ws \in Workspaces /\ call[c].gen \in Generations
       /\ call[c].pc \in {"begin", "attach", "send", "sent", "replied", "failed"} =>
            call[c].token \in Tokens /\ call[c].thread \in Threads
       /\ call[c].pc \in {"replied", "answerReady", "interruptReady"} => call[c].turn \in Turns

ServerType ==
  /\ inbox \subseteq [token : Tokens, thread : Threads, turn : Turns \union {0}]
  /\ srv \in [Turns -> [st : {"unused", "running", "ended"},
                        thread : Threads \union {None}, token : Tokens \union {0}]]
  /\ notes \in Seq(Notification)
  /\ asked \subseteq Turns

\* What the supervisor, its commands and the server can hold. A reservation and a
\* command that starts a turn carry a real token, a notification a real turn.
TypeOK ==
  /\ generation \in Generations /\ ready \in BOOLEAN
  /\ SessionType
  /\ nextToken \in 0..MaxToken
  /\ WorkType
  /\ CallType
  /\ loop \in [lease : Tokens \union {0}, rollback : Tokens \union {0}]
  /\ ServerType

Init ==
  /\ generation = 1
  /\ ready = TRUE
  /\ active = NoSession
  /\ pending = None
  /\ handles = [w \in Workspaces |-> {}]
  /\ saved = [w \in Workspaces |-> None]
  /\ gates = {}
  /\ units = [t \in Turns |-> 0]
  /\ decision = [t \in Turns |-> NoDecision]
  /\ outcomes = [t \in Turns |-> 0]
  /\ nextToken = 0
  /\ lease = [k \in Tokens |-> [st |-> "none", gen |-> 0]]
  /\ inval = [g \in Generations |-> "no"]
  /\ call = [c \in Calls |-> NoCall]
  /\ loop = IdleLoop
  /\ aftermath = {}
  /\ inbox = {}
  /\ srv = [t \in Turns |-> NoTurn]
  /\ notes = <<>>
  /\ asked = {}
-----------------------------------------------------------------------------
(* The workspace whose context is loaded.                                  *)

Busy == active.turn # 0 \/ pending # None
NoUnits == [t \in Turns |-> 0]
NoDecisions == [t \in Turns |-> NoDecision]

\* Seeded bug: a workspace is switched under a start that is only pending.
BugActivateUnderPending(w) ==
  IF active.ws = w
  THEN UNCHANGED <<active, saved, units, decision>>
  ELSE /\ active.turn = 0
       /\ active' = [ws |-> w, thread |-> saved[w], turn |-> 0]
       /\ saved' = [v \in Workspaces |->
                      IF v = active.ws THEN active.thread ELSE saved[v]]
       /\ units' = NoUnits
       /\ decision' = NoDecisions

\* activate_workspace_context: the context of another workspace is loaded only
\* between turns, and what belongs to the session left behind is dropped.
Activate(w) ==
  IF active.ws = w
  THEN UNCHANGED <<active, saved, units, decision>>
  ELSE /\ ~Busy
       /\ active' = [ws |-> w, thread |-> saved[w], turn |-> 0]
       /\ saved' = [v \in Workspaces |->
                      IF v = active.ws THEN active.thread ELSE saved[v]]
       /\ units' = NoUnits
       /\ decision' = NoDecisions

\* ready_context, the first locked section of every command. A command carries
\* the workspace it is for, and a thread or a turn the client knows.
ReadyContext(c, phase, w, th, t) ==
  /\ call[c].pc = "idle" /\ ready
  /\ Activate(w)
  /\ call' = [call EXCEPT ![c] = [pc |-> phase, ws |-> w, thread |-> th, token |-> 0,
                                  turn |-> t, gen |-> generation]]
  /\ UNCHANGED <<conn, pending, handles, gates, outcomes, nextToken, work, loop, server>>

Issue(c) ==
  \E w \in Workspaces :
    \/ "thread" \in Offered /\ ReadyContext(c, "threadReady", w, None, 0)
    \/ "start" \in Offered /\ \E th \in handles[w] : ReadyContext(c, "startReady", w, th, 0)
    \/ "answer" \in Offered /\ \E t \in Turns :
         decision[t].st # "absent" /\ ReadyContext(c, "answerReady", w, None, t)
    \/ "interrupt" \in Offered /\ \E t \in Turns :
         t = active.turn /\ ReadyContext(c, "interruptReady", w, srv[t].thread, t)

\* An await that fails, a check that does not hold, an answer that never comes:
\* the command returns an error and leaves the state as it was.
CommandFails(c) ==
  /\ call[c].pc \in {"startReady", "answerReady", "threadReady", "interruptReady",
                     "threadSent", "interruptSent"}
  /\ call' = [call EXCEPT ![c] = NoCall]
  /\ UNCHANGED <<conn, session, nextToken, work, loop, server>>

BeginCancellation(w) ==
  /\ "cancel" \in Offered /\ w \notin gates
  /\ ~(active.ws = w /\ active.turn # 0)
  /\ pending # None => pending.ws # w
  /\ gates' = gates \union {w}
  /\ UNCHANGED <<conn, active, pending, handles, saved, units, decision, outcomes,
                 nextToken, work, call, loop, server>>

ReleaseCancellation(w) ==
  /\ w \in gates
  /\ gates' = gates \ {w}
  /\ UNCHANGED <<conn, active, pending, handles, saved, units, decision, outcomes,
                 nextToken, work, call, loop, server>>

\* unregister_workspace_root, and the registration that later reopens it.
Unregister(w) ==
  /\ "unregister" \in Offered
  /\ ~(active.ws = w /\ Busy)
  /\ handles' = [handles EXCEPT ![w] = {}]
  /\ saved' = [saved EXCEPT ![w] = None]
  /\ active' = IF active.ws = w THEN NoSession ELSE active
  /\ UNCHANGED <<conn, pending, gates, units, decision, outcomes,
                 nextToken, work, call, loop, server>>

-----------------------------------------------------------------------------
(* Threads: thread_start, thread_resume and thread_list.                   *)

SendThread(c) ==
  /\ call[c].pc = "threadReady" /\ ready /\ generation = call[c].gen
  /\ call' = [call EXCEPT ![c].pc = "threadSent"]
  /\ UNCHANGED <<conn, session, nextToken, work, loop, server>>

\* accept_thread_response: the cwd of the answer is checked against the
\* workspace of the request, the state only against the generation.
AcceptThread(c, th) ==
  /\ call[c].pc = "threadSent"
  /\ Home[th] = call[c].ws
  /\ generation = call[c].gen /\ active.ws # None
  /\ handles' = [handles EXCEPT ![active.ws] = @ \union {th}]
  /\ active' = [active EXCEPT !.thread = th]
  /\ call' = [call EXCEPT ![c] = NoCall]
  /\ UNCHANGED <<conn, pending, saved, gates, units, decision, outcomes,
                 nextToken, work, loop, server>>

ListThreads(c, listed) ==
  /\ call[c].pc = "threadSent"
  /\ \A th \in listed : Home[th] = call[c].ws
  /\ generation = call[c].gen /\ active.ws # None
  /\ handles' = [handles EXCEPT ![active.ws] = @ \union listed]
  /\ call' = [call EXCEPT ![c] = NoCall]
  /\ UNCHANGED <<conn, active, pending, saved, gates, units, decision, outcomes,
                 nextToken, work, loop, server>>

\* The App Server dies with what it was doing.
ServerGone ==
  /\ inbox' = {}
  /\ notes' = <<>>
  /\ srv' = [t \in Turns |-> IF srv[t].st = "running" THEN [srv[t] EXCEPT !.st = "ended"]
                             ELSE srv[t]]
  /\ asked' = {}

\* stop_for_thread_policy_violation.
PolicyStop(c) ==
  /\ call[c].pc = "threadSent" /\ generation = call[c].gen
  /\ ready' = FALSE
  /\ active' = [active EXCEPT !.thread = None, !.turn = 0]
  /\ pending' = None
  /\ units' = NoUnits
  /\ handles' = [w \in Workspaces |-> IF w = active.ws THEN {} ELSE handles[w]]
  /\ inval' = [inval EXCEPT ![generation] = IF @ = "no" THEN "due" ELSE @]
  /\ call' = [call EXCEPT ![c] = NoCall]
  /\ ServerGone
  /\ UNCHANGED <<generation, saved, gates, decision, outcomes, nextToken, lease,
                 aftermath, loop>>

-----------------------------------------------------------------------------
(* turn_start and answer_fallback_decision.                                *)

Reservation(c, th, d) ==
  [token |-> nextToken + 1, gen |-> call[c].gen, ws |-> call[c].ws, thread |-> th,
   turn |-> 0, terminal |-> FALSE, leased |-> FALSE, decision |-> d]

\* Seeded bug: the cancellation gate is not looked at.
BugMayStartGated(c) ==
  /\ generation = call[c].gen
  /\ ~Busy
  /\ nextToken < MaxToken

\* Seeded bug: only a start that is pending keeps another one out.
BugMayStartBesideTurn(c) ==
  /\ generation = call[c].gen
  /\ call[c].ws \notin gates
  /\ pending = None
  /\ nextToken < MaxToken

\* The checks under the lock that both commands make before they reserve.
MayStart(c) ==
  /\ generation = call[c].gen
  /\ call[c].ws \notin gates
  /\ ~Busy
  /\ nextToken < MaxToken      \* bound

\* The handle of a thread is known only in the context it was made in.
Reserve(c) ==
  /\ call[c].pc = "startReady"
  /\ MayStart(c)
  /\ active.ws = call[c].ws /\ call[c].thread \in handles[call[c].ws]
  /\ nextToken' = nextToken + 1
  /\ pending' = Reservation(c, call[c].thread, 0)
  /\ call' = [call EXCEPT ![c].pc = "begin", ![c].token = nextToken + 1]
  /\ UNCHANGED <<conn, active, handles, saved, gates, units, decision, outcomes, work,
                 loop, server>>

\* The claim of a decision (FallbackDecisionLedger::claim) and its reservation.
ClaimDecision(c) ==
  LET d == call[c].turn IN
  /\ call[c].pc = "answerReady"
  /\ MayStart(c)
  /\ decision[d].st = "pending" /\ decision[d].done
  /\ decision[d].ws = call[c].ws
  /\ active.ws # None /\ srv[d].thread \in handles[active.ws]
  /\ nextToken' = nextToken + 1
  /\ decision' = [decision EXCEPT ![d].st = "claimed", ![d].claim = nextToken + 1]
  /\ pending' = Reservation(c, srv[d].thread, d)
  /\ call' = [call EXCEPT ![c].pc = "send", ![c].token = nextToken + 1,
                          ![c].thread = srv[d].thread, ![c].turn = 0]
  /\ UNCHANGED <<conn, active, handles, saved, gates, units, outcomes, work, loop, server>>

\* A claim that meets a decision of which the time is over, in whatever state, removes it
\* and is refused; the UI hears of it from the answer only.
ClaimExpired(c) ==
  LET d == call[c].turn IN
  /\ call[c].pc = "answerReady"
  /\ MayStart(c)
  /\ decision[d].st # "absent"
  /\ decision' = [decision EXCEPT ![d] = NoDecision]
  /\ call' = [call EXCEPT ![c] = NoCall]
  /\ UNCHANGED <<conn, active, pending, handles, saved, gates, units, outcomes, nextToken,
                 work, loop, server>>

\* MainWorkUnitRuntime::begin: no lease when the repository cannot be observed
\* or the generation has been invalidated meanwhile.
BeginWorkUnit(c) ==
  /\ call[c].pc = "begin"
  /\ call' = [call EXCEPT ![c].pc = "attach"]
  /\ \/ UNCHANGED lease
     \/ /\ inval[call[c].gen] # "done"
        /\ lease' = [lease EXCEPT ![call[c].token] = [st |-> "open", gen |-> call[c].gen]]
  /\ UNCHANGED <<conn, session, nextToken, inval, aftermath, loop, server>>

Settled(ks) ==
  [k \in Tokens |-> IF k \in ks /\ lease[k].st = "open"
                    THEN [lease[k] EXCEPT !.st = "settled"] ELSE lease[k]]

\* Seeded bug: a lease whose reservation is gone is not abandoned.
BugAttachForgets(c) ==
  LET k == call[c].token IN
  /\ call[c].pc = "attach"
  /\ call' = [call EXCEPT ![c].pc = "send"]
  /\ pending' = IF lease[k].st # "none" /\ generation = call[c].gen
                    /\ pending # None /\ pending.token = k
                 THEN [pending EXCEPT !.leased = TRUE] ELSE pending
  /\ UNCHANGED <<conn, active, handles, saved, gates, units, decision, outcomes, nextToken,
                 work, loop, server>>

\* The lease goes to the reservation if that is still the current one.
AttachWorkUnit(c) ==
  LET k == call[c].token IN
  /\ call[c].pc = "attach"
  /\ call' = [call EXCEPT ![c].pc = "send"]
  /\ IF lease[k].st = "none"
     THEN UNCHANGED <<pending, lease>>
     ELSE IF generation = call[c].gen /\ pending # None /\ pending.token = k
          THEN pending' = [pending EXCEPT !.leased = TRUE] /\ UNCHANGED lease
          ELSE lease' = Settled({k}) /\ UNCHANGED pending
  /\ UNCHANGED <<conn, active, handles, saved, gates, units, decision, outcomes, nextToken,
                 inval, aftermath, loop, server>>

\* thread/goal/set and turn/start: sent, or refused by the connection.
Send(c) ==
  /\ call[c].pc = "send"
  /\ \/ /\ ready /\ generation = call[c].gen
        /\ inbox' = inbox \union {[token |-> call[c].token, thread |-> call[c].thread, turn |-> 0]}
        /\ call' = [call EXCEPT ![c].pc = "sent"]
     \/ /\ call' = [call EXCEPT ![c].pc = "failed"]
        /\ UNCHANGED inbox
  /\ UNCHANGED <<conn, session, nextToken, work, loop, srv, notes, asked>>

Timeout(c) ==
  /\ call[c].pc = "sent"
  /\ call' = [call EXCEPT ![c].pc = "failed"]
  /\ UNCHANGED <<conn, session, nextToken, work, loop, server>>

-----------------------------------------------------------------------------
(* Confirmation and rollback of the pending start.                         *)

\* confirm_pending_turn_start, the checks.
CanConfirm(g, k, th, t) ==
  /\ generation = g
  /\ pending # None
  /\ pending.token = k /\ pending.gen = g
  /\ pending.ws = active.ws
  /\ pending.thread = th
  /\ pending.turn \in {0, t}

\* Its effects, which a turn that has already ended does not have ...
Confirmed(t) ==
  IF pending.terminal THEN active ELSE [active EXCEPT !.thread = pending.thread, !.turn = t]

\* ... and bind_pending_main_work_unit.
Bound(t) ==
  IF pending.leased /\ ~pending.terminal /\ units[t] = 0
  THEN [units EXCEPT ![t] = pending.token] ELSE units

\* Seeded bug: the claim of a start that ends is restored, not completed.
BugRestoreClaim(p) ==
  IF p.decision # 0 /\ decision[p.decision].claim = p.token
  THEN [decision EXCEPT ![p.decision].st = "pending", ![p.decision].claim = 0] ELSE decision

\* FallbackDecisionLedger::complete.
WithoutClaim(p) ==
  IF p.decision # 0 /\ decision[p.decision].claim = p.token
  THEN [decision EXCEPT ![p.decision] = NoDecision] ELSE decision

Told(p) ==
  IF p.decision # 0 THEN [outcomes EXCEPT ![p.decision] = @ + 1] ELSE outcomes

\* Seeded bug: a rolled back turn is left running.
BugRollbackRuns(p, a, u, interrupt) ==
  LET committed == p.turn # 0 /\ a.thread = p.thread /\ a.turn = p.turn IN
  /\ pending' = None
  /\ active' = IF committed THEN [a EXCEPT !.turn = 0] ELSE a
  /\ units' = IF committed THEN [u EXCEPT ![p.turn] = 0] ELSE u
  /\ decision' = WithoutClaim(p)
  /\ outcomes' = Told(p)
  /\ aftermath' = aftermath \union
       {[lease |-> IF p.leased THEN p.token ELSE 0, turn |-> 0]}

\* rollback_pending_turn_start of start p in session a with units u: a turn that
\* was committed stops being the active one and, if asked, is interrupted later.
RollbackOf(p, a, u, interrupt) ==
  LET committed == p.turn # 0 /\ a.thread = p.thread /\ a.turn = p.turn IN
  /\ pending' = None
  /\ active' = IF committed THEN [a EXCEPT !.turn = 0] ELSE a
  /\ units' = IF committed THEN [u EXCEPT ![p.turn] = 0] ELSE u
  /\ decision' = WithoutClaim(p)
  /\ outcomes' = Told(p)
  /\ aftermath' = aftermath \union
       {[lease |-> IF p.leased THEN p.token ELSE 0,
         turn |-> IF committed /\ interrupt THEN p.turn ELSE 0]}

Rollback(g, k, interrupt) ==
  IF generation = g /\ pending # None /\ pending.token = k
  THEN RollbackOf(pending, active, units, interrupt)
  ELSE UNCHANGED <<pending, active, units, decision, outcomes, aftermath>>

\* Seeded bug: only a start that is bound to its turn is rolled back.
BugStartFailedUnbound(c) ==
  /\ call[c].pc = "failed"
  /\ IF pending # None /\ pending.turn # 0
     THEN Rollback(call[c].gen, call[c].token, TRUE)
     ELSE UNCHANGED <<pending, active, units, decision, outcomes, aftermath>>
  /\ call' = [call EXCEPT ![c] = NoCall]
  /\ UNCHANGED <<conn, handles, saved, gates, nextToken, lease, inval, loop, server>>

StartFailed(c) ==
  /\ call[c].pc = "failed"
  /\ Rollback(call[c].gen, call[c].token, TRUE)
  /\ call' = [call EXCEPT ![c] = NoCall]
  /\ UNCHANGED <<conn, handles, saved, gates, nextToken, lease, inval, loop, server>>

\* The response to turn/start. A continuation whose claim is gone is undone
\* after it has been confirmed.
StartReplied(c) ==
  LET t == call[c].turn
      ok == CanConfirm(call[c].gen, call[c].token, call[c].thread, t)
      p == [pending EXCEPT !.turn = t]
      claimed == pending.decision # 0 => decision[pending.decision].claim = pending.token
  IN
  /\ call[c].pc = "replied"
  /\ call' = [call EXCEPT ![c] = NoCall]
  /\ \/ /\ ok /\ claimed
        /\ active' = Confirmed(t)
        /\ units' = Bound(t)
        /\ decision' = WithoutClaim(pending)
        /\ outcomes' = Told(pending)
        /\ pending' = None
        /\ UNCHANGED aftermath
     \/ /\ ok /\ ~claimed
        /\ RollbackOf(p, Confirmed(t), Bound(t), TRUE)
     \/ /\ ~ok
        /\ Rollback(call[c].gen, call[c].token, TRUE)
  /\ UNCHANGED <<conn, handles, saved, gates, nextToken, lease, inval, loop, server>>

\* The rest of a rollback, outside the lock.
AfterRollback(r) ==
  /\ r \in aftermath
  /\ aftermath' = aftermath \ {r}
  /\ lease' = Settled({r.lease})
  /\ asked' = IF r.turn # 0 /\ ready THEN asked \union {r.turn} ELSE asked
  /\ UNCHANGED <<conn, session, nextToken, inval, call, loop, inbox, srv, notes>>

\* turn_interrupt: the start it may have to roll back is read before the
\* request and rolled back after its acknowledgement.
SendInterrupt(c) ==
  LET t == call[c].turn IN
  /\ call[c].pc = "interruptReady" /\ ready /\ generation = call[c].gen
  /\ asked' = asked \union {t}
  /\ call' = [call EXCEPT ![c].pc = "interruptSent", ![c].token =
       IF pending # None /\ pending.turn = t /\ pending.thread = call[c].thread
       THEN pending.token ELSE 0]
  /\ UNCHANGED <<conn, session, nextToken, work, loop, inbox, srv, notes>>

InterruptAcked(c) ==
  /\ call[c].pc = "interruptSent"
  /\ Rollback(call[c].gen, call[c].token, FALSE)
  /\ call' = [call EXCEPT ![c] = NoCall]
  /\ UNCHANGED <<conn, handles, saved, gates, nextToken, lease, inval, loop, server>>

-----------------------------------------------------------------------------
(* The signal loop: handle_notification, one notification at a time.       *)

\* handle_disconnect and handle_protocol_violation; probe and a new connection
\* attempt clear the same.
Teardown ==
  /\ ready
  /\ ready' = FALSE
  /\ active' = [active EXCEPT !.turn = 0]
  /\ pending' = None
  /\ units' = NoUnits
  /\ decision' = NoDecisions
  /\ inval' = [inval EXCEPT ![generation] = IF @ = "no" THEN "due" ELSE @]
  /\ ServerGone
  /\ UNCHANGED <<generation, handles, saved, gates, outcomes, lease, aftermath>>

ConnectionLost == Teardown /\ UNCHANGED <<nextToken, call, loop>>

Receive(m) ==
  /\ ready /\ loop = IdleLoop
  /\ notes # <<>> /\ Head(notes).m = m

TurnStarted ==
  LET t == Head(notes).turn
      th == srv[t].thread
  IN
  /\ Receive("started")
  /\ \/ /\ pending # None /\ CanConfirm(generation, pending.token, th, t)
        /\ active' = Confirmed(t)
        /\ units' = Bound(t)
        /\ pending' = [pending EXCEPT !.turn = t]
        /\ notes' = Tail(notes)
        /\ UNCHANGED <<conn, handles, saved, gates, decision, outcomes, work, inbox, srv,
                       asked>>
     \/ /\ pending = None /\ active.thread = th /\ active.turn = t
        /\ notes' = Tail(notes)
        /\ UNCHANGED <<conn, session, work, inbox, srv, asked>>
     \/ /\ IF pending # None
           THEN ~CanConfirm(generation, pending.token, th, t)
           ELSE active.thread # th \/ active.turn # t
        /\ Teardown
  /\ UNCHANGED <<nextToken, call, loop>>

\* A decision card of the running turn; one that does not belong to the active
\* turn is a violation, for which the active turn is interrupted.
DecisionCard ==
  LET t == Head(notes).turn
      here == active.ws # None /\ active.turn = t /\ active.thread = srv[t].thread
  IN
  /\ Receive("decision")
  /\ notes' = Tail(notes)
  /\ decision' = IF here /\ decision[t].st = "absent"
                 THEN [decision EXCEPT ![t] = [NoDecision EXCEPT !.st = "pending",
                                                                 !.ws = active.ws]]
                 ELSE decision
  /\ asked' = IF ~here /\ active.turn # 0 /\ active.thread = srv[active.turn].thread
              THEN asked \union {active.turn} ELSE asked
  /\ UNCHANGED <<conn, active, pending, handles, saved, gates, units, outcomes,
                 nextToken, work, call, loop, inbox, srv>>

\* turn/completed: the decisions of the turn, then the start that is still
\* pending for it, then the active turn and its lease.
TurnCompleted ==
  LET t == Head(notes).turn
      ok == Head(notes).ok
      th == srv[t].thread
      mine == pending # None /\ pending.thread = th /\ pending.turn = t
      current == active.thread = th /\ active.turn = t
      bound == IF current THEN units[t] ELSE 0
  IN
  /\ Receive("completed")
  /\ notes' = Tail(notes)
  /\ decision' = IF decision[t].st = "absent" THEN decision
                 ELSE IF ok THEN [decision EXCEPT ![t].done = TRUE]
                 ELSE [decision EXCEPT ![t] = NoDecision]
  /\ outcomes' = IF decision[t].st # "absent" /\ ~ok
                 THEN [outcomes EXCEPT ![t] = @ + 1] ELSE outcomes
  /\ pending' = IF mine
                THEN [pending EXCEPT !.terminal = @ \/ ok, !.leased = @ /\ bound = 0]
                ELSE pending
  /\ active' = IF current THEN [active EXCEPT !.turn = 0] ELSE active
  /\ units' = IF current THEN [units EXCEPT ![t] = 0] ELSE units
  /\ loop' = [lease |-> bound, rollback |-> IF mine /\ ~ok THEN pending.token ELSE 0]
  /\ UNCHANGED <<conn, handles, saved, gates, nextToken, work, call, inbox, srv, asked>>

ProtocolViolation ==
  /\ Receive("violation")
  /\ Teardown
  /\ UNCHANGED <<nextToken, call, loop>>

\* Seeded bug: the end of the work unit is skipped.
BugLoopTerminalSkipped ==
  /\ loop.lease # 0
  /\ loop' = [loop EXCEPT !.lease = 0]
  /\ UNCHANGED <<conn, session, nextToken, work, call, server>>

\* What handle_notification awaits after the lock: the end of the work unit,
LoopTerminal ==
  /\ loop.lease # 0
  /\ lease' = Settled({loop.lease})
  /\ loop' = [loop EXCEPT !.lease = 0]
  /\ UNCHANGED <<conn, session, nextToken, inval, aftermath, call, server>>

\* then the rollback of a start whose turn did not complete.
LoopRollback ==
  /\ loop.lease = 0 /\ loop.rollback # 0
  /\ Rollback(generation, loop.rollback, FALSE)
  /\ loop' = IdleLoop
  /\ UNCHANGED <<conn, handles, saved, gates, nextToken, lease, inval, call, server>>

\* Seeded bug: a decision that is being answered expires all the same.
BugExpireClaimed(t) ==
  /\ ready /\ decision[t].st # "absent"
  /\ decision' = [decision EXCEPT ![t] = NoDecision]
  /\ outcomes' = [outcomes EXCEPT ![t] = @ + 1]
  /\ UNCHANGED <<conn, active, pending, handles, saved, gates, units, nextToken, work,
                 call, loop, server>>

\* expire_pending, the decisions: one that is claimed is left alone.
ExpireDecision(t) ==
  /\ ready /\ decision[t].st = "pending"
  /\ decision' = [decision EXCEPT ![t] = NoDecision]
  /\ outcomes' = [outcomes EXCEPT ![t] = @ + 1]
  /\ UNCHANGED <<conn, active, pending, handles, saved, gates, units, nextToken, work,
                 call, loop, server>>

Invalidate(g) ==
  /\ inval[g] = "due"
  /\ inval' = [inval EXCEPT ![g] = "done"]
  /\ lease' = Settled({k \in Tokens : lease[k].gen = g})
  /\ UNCHANGED <<conn, session, nextToken, aftermath, call, loop, server>>

\* A replacement connection: begin_connection_attempt clears every context
\* before the old generation is invalidated and the next one spawned.
Reconnect ==
  /\ ~ready /\ inval[generation] = "done" /\ generation < MaxGeneration
  /\ generation' = generation + 1
  /\ ready' = TRUE
  /\ active' = NoSession
  /\ pending' = None
  /\ handles' = [w \in Workspaces |-> {}]
  /\ saved' = [w \in Workspaces |-> None]
  /\ units' = NoUnits
  /\ decision' = NoDecisions
  /\ UNCHANGED <<gates, outcomes, nextToken, work, call, loop, server>>

-----------------------------------------------------------------------------
(* External: the App Server.                                               *)

Note(m, t, ok) == [m |-> m, turn |-> t, ok |-> ok]
Waiting(k) == {c \in Calls : call[c].pc = "sent" /\ call[c].token = k}

\* A turn begins. Its notification and the response are handled in either order,
\* since the response does not go through the signal loop.
ServerStart(r, t) ==
  /\ ready /\ r \in inbox /\ r.turn = 0 /\ srv[t].st = "unused"
  /\ \A u \in Turns : u < t => srv[u].st # "unused"
  /\ Len(notes) < MaxNotes
  /\ inbox' = (inbox \ {r}) \union {[r EXCEPT !.turn = t]}
  /\ srv' = [srv EXCEPT ![t] = [st |-> "running", thread |-> r.thread, token |-> r.token]]
  /\ notes' = Append(notes, Note("started", t, TRUE))
  /\ UNCHANGED <<conn, session, nextToken, work, call, loop, asked>>

\* The response, or a refusal if no turn was begun. Once the request has timed
\* out the connection does not know its id any more and reports a violation.
ServerRespond(r) ==
  /\ ready /\ r \in inbox
  /\ inbox' = inbox \ {r}
  /\ call' = [c \in Calls |->
       IF c \notin Waiting(r.token) THEN call[c]
       ELSE IF r.turn = 0 THEN [call[c] EXCEPT !.pc = "failed"]
       ELSE [call[c] EXCEPT !.pc = "replied", !.turn = r.turn]]
  /\ notes' = IF Waiting(r.token) # {} THEN notes ELSE Append(notes, Note("violation", 0, TRUE))
  /\ UNCHANGED <<conn, session, nextToken, work, loop, srv, asked>>

ServerDecision(t) ==
  /\ ready /\ srv[t].st = "running" /\ Len(notes) < MaxNotes
  /\ decision[t].st = "absent" /\ outcomes[t] = 0
  /\ \A i \in 1..Len(notes) : notes[i] # Note("decision", t, TRUE)
  /\ notes' = Append(notes, Note("decision", t, TRUE))
  /\ UNCHANGED <<conn, session, nextToken, work, call, loop, inbox, srv, asked>>

ServerEnd(t, ok) ==
  /\ ready /\ srv[t].st = "running" /\ Len(notes) < MaxNotes
  /\ srv' = [srv EXCEPT ![t].st = "ended"]
  /\ notes' = Append(notes, Note("completed", t, ok))
  /\ UNCHANGED <<conn, session, nextToken, work, call, loop, inbox, asked>>

-----------------------------------------------------------------------------

CallStep(c) ==
  \/ SendThread(c) \/ \E th \in Threads : AcceptThread(c, th)
  \/ \E listed \in SUBSET Threads : ListThreads(c, listed)
  \/ PolicyStop(c)
  \/ Reserve(c) \/ ClaimDecision(c) \/ ClaimExpired(c)
  \/ BeginWorkUnit(c) \/ AttachWorkUnit(c)
  \/ Send(c) \/ Timeout(c) \/ StartFailed(c) \/ StartReplied(c)
  \/ SendInterrupt(c) \/ InterruptAcked(c)
  \/ CommandFails(c)

LoopStep ==
  \/ TurnStarted \/ DecisionCard \/ TurnCompleted \/ ProtocolViolation
  \/ LoopTerminal \/ LoopRollback

ServerStep ==
  \/ \E r \in inbox : ServerRespond(r) \/ \E t \in Turns : ServerStart(r, t)
  \/ \E t \in Turns : ServerDecision(t) \/ \E ok \in BOOLEAN : ServerEnd(t, ok)

Next ==
  \/ \E c \in Calls : Issue(c) \/ CallStep(c)
  \/ \E w \in Workspaces : BeginCancellation(w) \/ ReleaseCancellation(w) \/ Unregister(w)
  \/ \E r \in aftermath : AfterRollback(r)
  \/ LoopStep
  \/ \E t \in Turns : ExpireDecision(t)
  \/ ConnectionLost
  \/ \E g \in Generations : Invalidate(g)
  \/ Reconnect
  \/ ServerStep

Spec == Init /\ [][Next]_vars

\* Every request of the client has a deadline, the signal loop is a task of its
\* own, and so is what follows a rollback or a lost connection.
FairSpec ==
  /\ Spec
  /\ \A c \in Calls : WF_vars(CallStep(c))
  /\ WF_vars(LoopStep)
  /\ \A r \in [lease : Tokens \union {0}, turn : Turns \union {0}] : WF_vars(AfterRollback(r))
  /\ \A g \in Generations : WF_vars(Invalidate(g))

-----------------------------------------------------------------------------
(* Properties.                                                             *)

\* A workspace that is being cancelled has no turn, active or pending, although
\* the gate is raised and turns are started by different commands that suspend
\* between their checks.
GateExcludesTurn ==
  \A w \in gates : /\ ~(active.ws = w /\ active.turn # 0)
                   /\ pending # None => pending.ws # w

\* A start is never pending beside another turn: the active turn, if there is
\* one, is the one the pending start has been bound to.
OneTurn == pending # None /\ active.turn # 0 => pending.turn = active.turn

\* The session a pending start was reserved in is still the loaded one.
PendingInSession == pending # None => pending.ws = active.ws /\ pending.gen = generation

\* A decision is claimed exactly while the continuation that claims it is
\* pending, so that an answer can neither be given twice nor be lost.
ClaimHasContinuation ==
  ready => \A t \in Turns :
    decision[t].st = "claimed" <=> pending # None /\ pending.decision = t

\* The UI is told at most one outcome of a decision: accepted, failed, expired.
OneOutcome == \A t \in Turns : outcomes[t] <= 1

\* A work unit that is open is somebody's to end: the start that is opening it,
\* the pending start, the active turn, the signal loop, a rollback, or an
\* invalidation that is due.
LeaseHeld ==
  \A k \in Tokens : lease[k].st = "open" =>
    \/ \E c \in Calls : call[c].pc = "attach" /\ call[c].token = k
    \/ pending # None /\ pending.leased /\ pending.token = k
    \/ active.turn # 0 /\ units[active.turn] = k
    \/ loop.lease = k
    \/ \E r \in aftermath : r.lease = k
    \/ inval[lease[k].gen] = "due"

\* A turn that runs on the server is supervised: it is the active one, or a
\* command waits for its response, or its notification is still on the way, or
\* it has been told to stop, or the connection is about to be closed.
NoOrphanTurn ==
  ready => \A t \in Turns : srv[t].st = "running" =>
    \/ active.turn = t
    \/ \E r \in inbox : r.turn = t /\ Waiting(r.token) # {}
    \/ \E c \in Calls : call[c].pc = "replied" /\ call[c].turn = t
    \/ \E i \in 1..Len(notes) : notes[i].m = "violation" \/ notes[i] = Note("started", t, TRUE)
    \/ t \in asked \/ \E r \in aftermath : r.turn = t

\* An answer is neither given twice nor lost, and the UI hears of one outcome.
DecisionsAreSound == ClaimHasContinuation /\ OneOutcome

\* Whatever is open or runs is somebody's to end.
NothingIsOrphaned == LeaseHeld /\ NoOrphanTurn

StartSettles(k) ==
  (pending # None /\ pending.token = k) ~> ~(pending # None /\ pending.token = k)

LeaseSettles(k) ==
  (lease[k].st = "open") ~>
    (lease[k].st = "settled" \/ (active.turn # 0 /\ units[active.turn] = k))

\* A start does not stay pending: whatever becomes of its response and of its
\* notifications, the turn is confirmed or the reservation is rolled back. Nor does its
\* work unit stay open without a turn: it is settled, or bound to the active one.
TurnsSettle == \A k \in Tokens : StartSettles(k) /\ LeaseSettles(k)

\* docs/requirements/codex-main-session.md, CODE-F-076: every mutation is bound
\* to the workspace it is for. So a thread becomes known in its own workspace.
ThreadStaysInWorkspace ==
  \A w \in Workspaces : \A th \in handles[w] : Home[th] = w

=============================================================================
