-------------------------- MODULE TurnSessionProofs -------------------------
(* Proofs about TurnSession, for every set of workspaces, threads and       *)
(* commands and every bound.                                                *)
EXTENDS TurnSession, TLAPS

USE DEF conn, session, work, server, Tokens, Turns, Generations

-----------------------------------------------------------------------------
(* Types of the parts, one lemma for each way in which a part changes.     *)

\* A command that enters a phase with what that phase reads keeps the types.
LEMMA CallSet ==
  ASSUME CallType, NEW c \in Calls, NEW r \in Command, call' = [call EXCEPT ![c] = r],
         r.pc # "idle" => r.ws \in Workspaces /\ r.gen \in Generations,
         r.pc \in {"begin", "attach", "send", "sent", "replied", "failed"} =>
           r.token \in Tokens /\ r.thread \in Threads,
         r.pc \in {"replied", "answerReady", "interruptReady"} => r.turn \in Turns
  PROVE  CallType'
BY DEF CallType

\* A command that returns keeps the types.
LEMMA CallDone ==
  ASSUME CallType, NEW c \in Calls, call' = [call EXCEPT ![c] = NoCall]
  PROVE  CallType'
<1>1. NoCall \in Command
  BY DEF NoCall, Command, Phases
<1> QED BY <1>1, CallSet DEF NoCall

\* A command that moves on with what it holds keeps the types.
LEMMA CallAdvance ==
  ASSUME CallType, NEW c \in Calls, NEW ph \in Phases, call' = [call EXCEPT ![c].pc = ph],
         call[c].pc # "idle",
         ph \in {"begin", "attach", "send", "sent", "failed"} =>
           call[c].token \in Tokens /\ call[c].thread \in Threads,
         ph \notin {"replied", "answerReady", "interruptReady"}
  PROVE  CallType'
<1>1. call[c] \in Command /\ call[c].ws \in Workspaces /\ call[c].gen \in Generations
  BY DEF CallType
<1> DEFINE r == [call[c] EXCEPT !.pc = ph]
<1>2. /\ r \in Command /\ r.pc = ph /\ r.ws = call[c].ws /\ r.gen = call[c].gen
      /\ r.token = call[c].token /\ r.thread = call[c].thread
  BY <1>1 DEF Command
<1>3. call' = [call EXCEPT ![c] = r]
  BY DEF CallType
<1> QED BY <1>1, <1>2, <1>3, CallSet

\* The commands keep their types when they keep their values.
LEMMA CallKept == CallType /\ UNCHANGED call => CallType'
BY DEF CallType

\* The session keeps its types when it keeps its values.
LEMMA SessionKept == SessionType /\ UNCHANGED session => SessionType'
BY DEF SessionType

\* The work units keep their types when they keep their values.
LEMMA WorkKept == WorkType /\ UNCHANGED work => WorkType'
BY DEF WorkType

\* The server keeps its types when it keeps its values.
LEMMA ServerKept == ServerType /\ UNCHANGED server => ServerType'
BY DEF ServerType

\* Taking the oldest notification off the queue leaves a queue of notifications.
LEMMA NoteTaken ==
  ASSUME notes \in Seq(Notification), notes # <<>>
  PROVE  Tail(notes) \in Seq(Notification) /\ Head(notes) \in Notification
OBVIOUS

\* A server that goes away leaves its variables typed.
LEMMA ServerGoneType == ASSUME ServerType, ServerGone PROVE ServerType'
<1>1. srv' \in [Turns -> [st : {"unused", "running", "ended"},
                          thread : Threads \union {None}, token : Tokens \union {0}]]
  BY DEF ServerType, ServerGone
<1> QED BY <1>1 DEF ServerType, ServerGone

\* Settling leases leaves leases.
LEMMA SettledType ==
  ASSUME WorkType, NEW ks
  PROVE  Settled(ks) \in [Tokens -> [st : {"none", "open", "settled"}, gen : Generations \union {0}]]
BY DEF WorkType, Settled

\* No work unit and no decision, for every turn, are typed.
LEMMA NothingType ==
  /\ NoUnits \in [Turns -> Tokens \union {0}]
  /\ NoDecision \in Decision
  /\ NoDecisions \in [Turns -> Decision]
BY DEF NoUnits, NoDecision, NoDecisions, Decision

\* That no session is loaded is a session.
LEMMA NoSessionType ==
  NoSession \in [ws : Workspaces \union {None}, thread : Threads \union {None}, turn : Turns \union {0}]
BY DEF NoSession

-----------------------------------------------------------------------------
(* Types: the commands.                                                    *)

\* activate_workspace_context keeps the types of the session.
LEMMA ActivateType ==
  ASSUME TypeOK, NEW w \in Workspaces, Activate(w), UNCHANGED <<pending, handles, gates, outcomes>>
  PROVE  SessionType'
BY NothingType DEF Activate, TypeOK, SessionType

\* Issue keeps the types.
LEMMA IssueType == ASSUME TypeOK, NEW c \in Calls, Issue(c) PROVE TypeOK'
<1>1. ASSUME NEW ph \in {"startReady", "threadReady", "answerReady", "interruptReady"},
             NEW w \in Workspaces, NEW th \in Threads \union {None},
             NEW t \in Turns \union {0}, ReadyContext(c, ph, w, th, t),
             ph \in {"answerReady", "interruptReady"} => t \in Turns
      PROVE  TypeOK'
  <2>1. SessionType'
    BY <1>1, ActivateType DEF ReadyContext
  <2> DEFINE r == [pc |-> ph, ws |-> w, thread |-> th, token |-> 0, turn |-> t,
                   gen |-> generation]
  <2>2. r \in Command /\ r.ws \in Workspaces /\ r.gen \in Generations
    BY DEF Command, Phases, TypeOK
  <2>3. CallType'
    BY <1>1, <2>2, CallSet DEF ReadyContext, TypeOK
  <2> QED BY <1>1, <2>1, <2>3, WorkKept, ServerKept DEF ReadyContext, TypeOK
<1>2. \A w \in Workspaces : handles[w] \subseteq Threads
  BY DEF TypeOK, SessionType
<1>3. \A t \in Turns : srv[t].thread \in Threads \union {None}
  BY DEF TypeOK, ServerType
<1> QED BY <1>1, <1>2, <1>3 DEF Issue

\* A command with a ready context that moves on keeps the types.
LEMMA ReadyAdvance ==
  ASSUME TypeOK, NEW c \in Calls, NEW ph \in Phases, call' = [call EXCEPT ![c].pc = ph],
         call[c].pc # "idle",
         ph \in {"begin", "attach", "send", "sent", "failed"} =>
           call[c].pc \in {"begin", "attach", "send", "sent", "failed"},
         ph \notin {"replied", "answerReady", "interruptReady"}
  PROVE  CallType'
BY CallAdvance DEF TypeOK, CallType

\* A command that fails, finds its decision too old, sends or times out keeps the types.
LEMMA SimpleCommandType ==
  ASSUME TypeOK, NEW c \in Calls,
         CommandFails(c) \/ ClaimExpired(c) \/ SendThread(c) \/ Timeout(c)
  PROVE  TypeOK'
<1>1. CASE CommandFails(c)
  BY <1>1, CallDone, SessionKept, WorkKept, ServerKept DEF CommandFails, TypeOK
<1>2. CASE SendThread(c)
  <2>1. CallType'
    BY <1>2, ReadyAdvance DEF SendThread, Phases
  <2> QED BY <1>2, <2>1, SessionKept, WorkKept, ServerKept DEF SendThread, TypeOK
<1>3. CASE Timeout(c)
  <2>1. CallType'
    BY <1>3, ReadyAdvance DEF Timeout, Phases
  <2> QED BY <1>3, <2>1, SessionKept, WorkKept, ServerKept DEF Timeout, TypeOK
<1>4. CASE ClaimExpired(c)
  <2>1. SessionType'
    BY <1>4, NothingType DEF ClaimExpired, TypeOK, SessionType
  <2> QED BY <1>4, <2>1, CallDone, WorkKept, ServerKept DEF ClaimExpired, TypeOK
<1> QED BY <1>1, <1>2, <1>3, <1>4

\* The gate of a cancellation and an unregistration keep the types.
LEMMA WorkspaceType ==
  ASSUME TypeOK, NEW w \in Workspaces,
         BeginCancellation(w) \/ ReleaseCancellation(w) \/ Unregister(w)
  PROVE  TypeOK'
<1>1. CASE BeginCancellation(w)
  BY <1>1, CallKept, WorkKept, ServerKept DEF BeginCancellation, TypeOK, SessionType
<1>2. CASE ReleaseCancellation(w)
  BY <1>2, CallKept, WorkKept, ServerKept DEF ReleaseCancellation, TypeOK, SessionType
<1>3. CASE Unregister(w)
  <2>1. SessionType'
    BY <1>3, NoSessionType DEF Unregister, TypeOK, SessionType
  <2> QED BY <1>3, <2>1, CallKept, WorkKept, ServerKept DEF Unregister, TypeOK
<1> QED BY <1>1, <1>2, <1>3

\* The answers to the thread commands keep the types.
LEMMA ThreadType ==
  ASSUME TypeOK, NEW c \in Calls,
         \/ \E th \in Threads : AcceptThread(c, th)
         \/ \E listed \in SUBSET Threads : ListThreads(c, listed)
         \/ PolicyStop(c)
  PROVE  TypeOK'
<1>1. ASSUME NEW th \in Threads, AcceptThread(c, th) PROVE TypeOK'
  <2>1. SessionType'
    BY <1>1 DEF AcceptThread, TypeOK, SessionType
  <2> QED BY <1>1, <2>1, CallDone, WorkKept, ServerKept DEF AcceptThread, TypeOK
<1>2. ASSUME NEW listed \in SUBSET Threads, ListThreads(c, listed) PROVE TypeOK'
  <2>1. SessionType'
    BY <1>2 DEF ListThreads, TypeOK, SessionType
  <2> QED BY <1>2, <2>1, CallDone, WorkKept, ServerKept DEF ListThreads, TypeOK
<1>3. CASE PolicyStop(c)
  <2>1. SessionType'
    BY <1>3, NothingType DEF PolicyStop, TypeOK, SessionType
  <2>2. WorkType'
    BY <1>3 DEF PolicyStop, TypeOK, WorkType
  <2>3. ServerType'
    BY <1>3, ServerGoneType DEF PolicyStop, TypeOK
  <2> QED BY <1>3, <2>1, <2>2, <2>3, CallDone DEF PolicyStop, TypeOK
<1> QED BY <1>1, <1>2, <1>3

\* Reserve keeps the types.
LEMMA ReserveType == ASSUME TypeOK, NEW c \in Calls, Reserve(c) PROVE TypeOK'
<1> USE TurnSessionAssumption
<1>1. nextToken + 1 \in Tokens /\ generation = call[c].gen
  BY DEF Reserve, MayStart, TypeOK
<1>2. /\ call[c] \in Command /\ call[c].ws \in Workspaces /\ call[c].gen \in Generations
      /\ call[c].thread \in Threads
  BY DEF Reserve, TypeOK, CallType, SessionType
<1>3. Reservation(c, call[c].thread, 0) \in PendingStart
  BY <1>1, <1>2 DEF Reservation, PendingStart
<1>4. SessionType'
  BY <1>3 DEF Reserve, TypeOK, SessionType
<1> DEFINE r == [call[c] EXCEPT !.pc = "begin", !.token = nextToken + 1]
<1>5. r \in Command /\ r.ws = call[c].ws /\ r.gen = call[c].gen /\ r.thread = call[c].thread
      /\ r.pc = "begin" /\ r.token = nextToken + 1
  BY <1>1, <1>2 DEF Command, Phases
<1>6. call' = [call EXCEPT ![c] = r]
  BY DEF Reserve, TypeOK, CallType
<1>7. CallType'
  BY <1>1, <1>2, <1>5, <1>6, CallSet DEF TypeOK
<1> QED BY <1>1, <1>4, <1>7, WorkKept, ServerKept DEF Reserve, TypeOK

\* ClaimDecision keeps the types.
LEMMA ClaimType == ASSUME TypeOK, NEW c \in Calls, ClaimDecision(c) PROVE TypeOK'
<1> USE TurnSessionAssumption
<1> DEFINE d == call[c].turn
<1>1. nextToken + 1 \in Tokens /\ generation = call[c].gen
  BY DEF ClaimDecision, MayStart, TypeOK
<1>2. /\ call[c] \in Command /\ call[c].ws \in Workspaces /\ call[c].gen \in Generations
      /\ d \in Turns /\ active.ws \in Workspaces
  BY DEF ClaimDecision, TypeOK, CallType, SessionType
<1>3. srv[d].thread \in Threads
  BY <1>2 DEF ClaimDecision, TypeOK, SessionType
<1>4. Reservation(c, srv[d].thread, d) \in PendingStart
  BY <1>1, <1>2, <1>3 DEF Reservation, PendingStart
<1>5. decision' \in [Turns -> Decision]
  <2>1. [decision[d] EXCEPT !.st = "claimed", !.claim = nextToken + 1] \in Decision
    <3>1. decision[d] \in Decision
      BY <1>2 DEF TypeOK, SessionType
    <3>2. \A e \in Decision, k \in Tokens :
            [e EXCEPT !.st = "claimed", !.claim = k] \in Decision
      BY DEF Decision
    <3> QED BY <1>1, <3>1, <3>2
  <2>2. decision' = [decision EXCEPT ![d] = [decision[d] EXCEPT !.st = "claimed",
                                                                !.claim = nextToken + 1]]
    BY <1>2 DEF ClaimDecision, TypeOK, SessionType, Decision
  <2> QED BY <1>2, <2>1, <2>2 DEF TypeOK, SessionType
<1>6. SessionType'
  BY <1>4, <1>5 DEF ClaimDecision, TypeOK, SessionType
<1> DEFINE r == [call[c] EXCEPT !.pc = "send", !.token = nextToken + 1,
                                !.thread = srv[d].thread, !.turn = 0]
<1>7. r \in Command /\ r.ws = call[c].ws /\ r.gen = call[c].gen /\ r.thread = srv[d].thread
      /\ r.pc = "send" /\ r.token = nextToken + 1
  BY <1>1, <1>2, <1>3 DEF Command, Phases
<1>8. call' = [call EXCEPT ![c] = r]
  BY DEF ClaimDecision, TypeOK, CallType
<1>9. CallType'
  BY <1>1, <1>2, <1>3, <1>7, <1>8, CallSet DEF TypeOK
<1> QED BY <1>1, <1>6, <1>9, WorkKept, ServerKept DEF ClaimDecision, TypeOK

\* Beginning and attaching a work unit keep the types.
LEMMA WorkUnitType ==
  ASSUME TypeOK, NEW c \in Calls, BeginWorkUnit(c) \/ AttachWorkUnit(c)
  PROVE  TypeOK'
<1>0. call[c] \in Command /\ (call[c].pc # "idle" => call[c].gen \in Generations)
  BY DEF TypeOK, CallType
<1>1. CASE BeginWorkUnit(c)
  <2>1. CallType'
    BY <1>1, ReadyAdvance DEF BeginWorkUnit, Phases
  <2>2. WorkType'
    BY <1>0, <1>1 DEF BeginWorkUnit, TypeOK, WorkType
  <2> QED BY <1>1, <2>1, <2>2, SessionKept, ServerKept DEF BeginWorkUnit, TypeOK
<1>2. CASE AttachWorkUnit(c)
  <2>1. CallType'
    BY <1>2, ReadyAdvance DEF AttachWorkUnit, Phases
  <2>2. WorkType'
    BY <1>2, SettledType DEF AttachWorkUnit, TypeOK, WorkType
  <2>3. SessionType'
    <3>1. pending # None => [pending EXCEPT !.leased = TRUE] \in PendingStart
      BY DEF TypeOK, SessionType, PendingStart
    <3> QED BY <1>2, <3>1 DEF AttachWorkUnit, TypeOK, SessionType
  <2> QED BY <1>2, <2>1, <2>2, <2>3, ServerKept DEF AttachWorkUnit, TypeOK
<1> QED BY <1>1, <1>2

\* Send keeps the types.
LEMMA SendType == ASSUME TypeOK, NEW c \in Calls, Send(c) PROVE TypeOK'
<1>1. call[c] \in Command /\ call[c].token \in Tokens /\ call[c].thread \in Threads
  BY DEF Send, TypeOK, CallType
<1>2. CallType'
  <2>1. CASE call' = [call EXCEPT ![c].pc = "sent"]
    BY <2>1, ReadyAdvance DEF Send, Phases
  <2>2. CASE call' = [call EXCEPT ![c].pc = "failed"]
    BY <2>2, ReadyAdvance DEF Send, Phases
  <2> QED BY <2>1, <2>2 DEF Send
<1>3. ServerType'
  <2>1. [token |-> call[c].token, thread |-> call[c].thread, turn |-> 0]
          \in [token : Tokens, thread : Threads, turn : Turns \union {0}]
    BY <1>1
  <2> QED BY <2>1 DEF Send, TypeOK, ServerType
<1> QED BY <1>2, <1>3, SessionKept, WorkKept DEF Send, TypeOK

-----------------------------------------------------------------------------
(* Types: confirmation and rollback.                                       *)

ActiveType == [ws : Workspaces \union {None}, thread : Threads \union {None},
               turn : Turns \union {0}]

\* A confirmed start makes a typed session, binding and pending start.
LEMMA ConfirmedType ==
  ASSUME TypeOK, pending \in PendingStart, NEW t \in Turns
  PROVE  /\ Confirmed(t) \in ActiveType
         /\ Bound(t) \in [Turns -> Tokens \union {0}]
         /\ [pending EXCEPT !.turn = t] \in PendingStart
<1>1. Confirmed(t) \in ActiveType
  BY DEF Confirmed, ActiveType, TypeOK, SessionType, PendingStart
<1>2. Bound(t) \in [Turns -> Tokens \union {0}]
  BY DEF Bound, TypeOK, SessionType, PendingStart
<1>3. [pending EXCEPT !.turn = t] \in PendingStart
  BY DEF PendingStart
<1> QED BY <1>1, <1>2, <1>3

\* Dropping a claimed decision and reporting an outcome keep the types.
LEMMA ClaimGoneType ==
  ASSUME TypeOK, NEW p \in PendingStart
  PROVE  WithoutClaim(p) \in [Turns -> Decision] /\ Told(p) \in [Turns -> Nat]
<1>1. p.decision \in Turns \union {0}
  BY DEF PendingStart
<1>2. WithoutClaim(p) \in [Turns -> Decision]
  BY <1>1, NothingType DEF WithoutClaim, TypeOK, SessionType
<1>3. Told(p) \in [Turns -> Nat]
  BY <1>1 DEF Told, TypeOK, SessionType
<1> QED BY <1>2, <1>3

\* Rolling a given start back keeps the types.
LEMMA RollbackOfType ==
  ASSUME TypeOK, NEW p \in PendingStart, NEW a \in ActiveType,
         NEW u \in [Turns -> Tokens \union {0}], NEW interrupt \in BOOLEAN,
         RollbackOf(p, a, u, interrupt), UNCHANGED <<handles, saved, gates, lease, inval>>
  PROVE  SessionType' /\ WorkType'
<1>1. p.token \in Tokens /\ p.turn \in Turns \union {0}
  BY DEF PendingStart
<1>2. active' \in ActiveType /\ units' \in [Turns -> Tokens \union {0}]
  BY <1>1 DEF RollbackOf, ActiveType
<1>3. decision' \in [Turns -> Decision] /\ outcomes' \in [Turns -> Nat]
  BY ClaimGoneType DEF RollbackOf
<1>4. aftermath' \subseteq [lease : Tokens \union {0}, turn : Turns \union {0}]
  BY <1>1 DEF RollbackOf, TypeOK, WorkType
<1> QED BY <1>2, <1>3, <1>4 DEF RollbackOf, SessionType, ActiveType, TypeOK, WorkType

\* rollback_pending_turn_start keeps the types, whether it finds its start or not.
LEMMA RollbackType ==
  ASSUME TypeOK, NEW g, NEW k, NEW interrupt \in BOOLEAN, Rollback(g, k, interrupt),
         UNCHANGED <<handles, saved, gates, lease, inval>>
  PROVE  SessionType' /\ WorkType'
<1>1. CASE generation = g /\ pending # None /\ pending.token = k
  <2>1. pending \in PendingStart /\ active \in ActiveType /\ units \in [Turns -> Tokens \union {0}]
    BY <1>1 DEF TypeOK, SessionType, ActiveType
  <2> QED BY <1>1, <2>1, RollbackOfType DEF Rollback
<1>2. CASE ~(generation = g /\ pending # None /\ pending.token = k)
  BY <1>2, SessionKept, WorkKept DEF Rollback, TypeOK
<1> QED BY <1>1, <1>2

\* StartFailed keeps the types.
LEMMA StartFailedType == ASSUME TypeOK, NEW c \in Calls, StartFailed(c) PROVE TypeOK'
BY RollbackType, CallDone, ServerKept DEF StartFailed, TypeOK

\* StartReplied keeps the types.
LEMMA StartRepliedType == ASSUME TypeOK, NEW c \in Calls, StartReplied(c) PROVE TypeOK'
<1> DEFINE t == call[c].turn
           p == [pending EXCEPT !.turn = t]
           ok == CanConfirm(call[c].gen, call[c].token, call[c].thread, t)
<1>1. t \in Turns
  BY DEF StartReplied, TypeOK, CallType
<1>2. ok => pending \in PendingStart
  BY DEF CanConfirm, TypeOK, SessionType
<1>3. SessionType' /\ WorkType'
  <2>1. ASSUME ok, active' = Confirmed(t), units' = Bound(t),
               decision' = WithoutClaim(pending), outcomes' = Told(pending),
               pending' = None, UNCHANGED <<aftermath, handles, saved, gates, lease, inval>>
        PROVE  SessionType' /\ WorkType'
    BY <1>1, <1>2, <2>1, ConfirmedType, ClaimGoneType
       DEF SessionType, ActiveType, TypeOK, WorkType
  <2>2. ASSUME ok, RollbackOf(p, Confirmed(t), Bound(t), TRUE),
               UNCHANGED <<handles, saved, gates, lease, inval>>
        PROVE  SessionType' /\ WorkType'
    BY <1>1, <1>2, <2>2, ConfirmedType, RollbackOfType
  <2>3. ASSUME Rollback(call[c].gen, call[c].token, TRUE),
               UNCHANGED <<handles, saved, gates, lease, inval>>
        PROVE  SessionType' /\ WorkType'
    BY <2>3, RollbackType
  <2> QED BY <2>1, <2>2, <2>3 DEF StartReplied
<1> QED BY <1>3, CallDone, ServerKept DEF StartReplied, TypeOK

\* AfterRollback keeps the types.
LEMMA AfterRollbackType == ASSUME TypeOK, NEW r \in aftermath, AfterRollback(r) PROVE TypeOK'
<1>1. r \in [lease : Tokens \union {0}, turn : Turns \union {0}]
  BY DEF TypeOK, WorkType
<1>2. WorkType'
  BY SettledType DEF AfterRollback, TypeOK, WorkType
<1>3. ServerType'
  BY <1>1 DEF AfterRollback, TypeOK, ServerType
<1> QED BY <1>2, <1>3, SessionKept, CallKept DEF AfterRollback, TypeOK

\* Sending an interrupt and its acknowledgement keep the types.
LEMMA InterruptType ==
  ASSUME TypeOK, NEW c \in Calls, SendInterrupt(c) \/ InterruptAcked(c)
  PROVE  TypeOK'
<1>1. CASE SendInterrupt(c)
  <2>1. call[c] \in Command /\ call[c].turn \in Turns /\ call[c].ws \in Workspaces
        /\ call[c].gen \in Generations
    BY <1>1 DEF SendInterrupt, TypeOK, CallType
  <2>2. PICK k \in Tokens \union {0} :
          call' = [call EXCEPT ![c].pc = "interruptSent", ![c].token = k]
    BY <1>1 DEF SendInterrupt, TypeOK, SessionType, PendingStart
  <2> DEFINE r == [call[c] EXCEPT !.pc = "interruptSent", !.token = k]
  <2>3. r \in Command /\ r.ws = call[c].ws /\ r.gen = call[c].gen /\ r.pc = "interruptSent"
    BY <2>1 DEF Command, Phases
  <2>4. call' = [call EXCEPT ![c] = r]
    BY <2>2 DEF TypeOK, CallType
  <2>5. CallType'
    BY <2>1, <2>3, <2>4, CallSet DEF TypeOK
  <2>6. ServerType'
    BY <1>1, <2>1 DEF SendInterrupt, TypeOK, ServerType
  <2> QED BY <1>1, <2>5, <2>6, SessionKept, WorkKept DEF SendInterrupt, TypeOK
<1>2. CASE InterruptAcked(c)
  BY <1>2, RollbackType, CallDone, ServerKept DEF InterruptAcked, TypeOK
<1> QED BY <1>1, <1>2

-----------------------------------------------------------------------------
(* Types: the signal loop, the connection and the server.                  *)

\* Tearing the session down keeps the types.
LEMMA TeardownType ==
  ASSUME TypeOK, Teardown, UNCHANGED <<nextToken, call, loop>>
  PROVE  TypeOK'
<1>1. SessionType'
  BY NothingType DEF Teardown, TypeOK, SessionType
<1>2. WorkType'
  BY DEF Teardown, TypeOK, WorkType
<1>3. ServerType'
  BY ServerGoneType DEF Teardown, TypeOK
<1> QED BY <1>1, <1>2, <1>3, CallKept DEF Teardown, TypeOK

\* The notification that is received carries a turn and an outcome.
LEMMA HeadType ==
  ASSUME TypeOK, NEW m, Receive(m), m # "violation"
  PROVE  /\ Head(notes) \in Notification /\ Head(notes).turn \in Turns
         /\ Head(notes).ok \in BOOLEAN /\ Tail(notes) \in Seq(Notification)
<1>1. Head(notes) \in Notification /\ Tail(notes) \in Seq(Notification)
  BY NoteTaken DEF Receive, TypeOK, ServerType
<1> QED BY <1>1 DEF Receive, Notification

\* TurnStarted keeps the types.
LEMMA TurnStartedType == ASSUME TypeOK, TurnStarted PROVE TypeOK'
<1> DEFINE t == Head(notes).turn
<1>1. t \in Turns /\ Tail(notes) \in Seq(Notification)
  BY HeadType DEF TurnStarted
<1>2. ASSUME pending # None, active' = Confirmed(t), units' = Bound(t),
             pending' = [pending EXCEPT !.turn = t], notes' = Tail(notes),
             UNCHANGED <<conn, handles, saved, gates, decision, outcomes, work, inbox, srv, asked,
                         nextToken, call, loop>>
      PROVE  TypeOK'
  <2>1. pending \in PendingStart
    BY <1>2 DEF TypeOK, SessionType
  <2>2. SessionType'
    BY <1>1, <1>2, <2>1, ConfirmedType DEF TypeOK, SessionType, ActiveType
  <2>3. ServerType'
    BY <1>1, <1>2 DEF TypeOK, ServerType
  <2> QED BY <1>2, <2>2, <2>3, WorkKept, CallKept DEF TypeOK
<1>3. ASSUME notes' = Tail(notes), UNCHANGED <<conn, session, work, inbox, srv, asked,
                                               nextToken, call, loop>>
      PROVE  TypeOK'
  <2>1. ServerType'
    BY <1>1, <1>3 DEF TypeOK, ServerType
  <2> QED BY <1>3, <2>1, SessionKept, WorkKept, CallKept DEF TypeOK
<1>4. ASSUME Teardown, UNCHANGED <<nextToken, call, loop>> PROVE TypeOK'
  BY <1>4, TeardownType
<1> QED BY <1>2, <1>3, <1>4 DEF TurnStarted

\* DecisionCard keeps the types.
LEMMA DecisionCardType == ASSUME TypeOK, DecisionCard PROVE TypeOK'
<1> DEFINE t == Head(notes).turn
<1>1. t \in Turns /\ Tail(notes) \in Seq(Notification)
  BY HeadType DEF DecisionCard
<1>2. active.ws # None => [NoDecision EXCEPT !.st = "pending", !.ws = active.ws] \in Decision
  BY DEF NoDecision, Decision, TypeOK, SessionType
<1>3. decision' \in [Turns -> Decision]
  BY <1>1, <1>2 DEF DecisionCard, TypeOK, SessionType
<1>4. ServerType'
  BY <1>1 DEF DecisionCard, TypeOK, ServerType, SessionType
<1> QED BY <1>3, <1>4, WorkKept, CallKept DEF DecisionCard, TypeOK, SessionType

\* TurnCompleted keeps the types.
LEMMA TurnCompletedType == ASSUME TypeOK, TurnCompleted PROVE TypeOK'
<1> DEFINE t == Head(notes).turn
           ok == Head(notes).ok
           mine == pending # None /\ pending.thread = srv[t].thread /\ pending.turn = t
           current == active.thread = srv[t].thread /\ active.turn = t
           bound == IF current THEN units[t] ELSE 0
<1>1. t \in Turns /\ ok \in BOOLEAN /\ Tail(notes) \in Seq(Notification)
  BY HeadType DEF TurnCompleted
<1>2. decision' \in [Turns -> Decision]
  <2>1. decision[t] \in Decision
    BY <1>1 DEF TypeOK, SessionType
  <2>2. [decision[t] EXCEPT !.done = TRUE] \in Decision
    BY <2>1 DEF Decision
  <2>3. [decision EXCEPT ![t].done = TRUE] = [decision EXCEPT ![t] = [decision[t] EXCEPT !.done = TRUE]]
    BY <1>1 DEF TypeOK, SessionType
  <2> QED BY <1>1, <2>2, <2>3, NothingType DEF TurnCompleted, TypeOK, SessionType
<1>3. outcomes' \in [Turns -> Nat]
  BY <1>1 DEF TurnCompleted, TypeOK, SessionType
<1>4. pending' \in PendingStart \union {None}
  <2>1. pending \in PendingStart \union {None}
    BY DEF TypeOK, SessionType
  <2>2. \A p \in PendingStart, a, b \in BOOLEAN :
          [p EXCEPT !.terminal = a, !.leased = b] \in PendingStart
    BY DEF PendingStart
  <2>3. mine => pending' = [pending EXCEPT !.terminal = (pending.terminal \/ ok),
                                           !.leased = (pending.leased /\ bound = 0)]
    BY DEF TurnCompleted
  <2>4. ~mine => pending' = pending
    BY DEF TurnCompleted
  <2>5. (pending.terminal \/ ok) \in BOOLEAN /\ (pending.leased /\ bound = 0) \in BOOLEAN
    OBVIOUS
  <2> HIDE DEF bound, ok
  <2> QED BY <2>1, <2>2, <2>3, <2>4, <2>5
<1>5. active' \in ActiveType /\ units' \in [Turns -> Tokens \union {0}]
  BY <1>1 DEF TurnCompleted, TypeOK, SessionType, ActiveType
<1>6. SessionType'
  BY <1>2, <1>3, <1>4, <1>5 DEF TurnCompleted, TypeOK, SessionType, ActiveType
<1>7. loop' \in [lease : Tokens \union {0}, rollback : Tokens \union {0}]
  <2>1. bound \in Tokens \union {0}
    BY <1>1 DEF TypeOK, SessionType
  <2>2. mine => pending.token \in Tokens
    BY DEF TypeOK, SessionType, PendingStart
  <2>3. loop' = [lease |-> bound, rollback |-> IF mine /\ ~ok THEN pending.token ELSE 0]
    BY DEF TurnCompleted
  <2> QED BY <2>1, <2>2, <2>3
<1>8. ServerType'
  BY <1>1 DEF TurnCompleted, TypeOK, ServerType
<1> QED BY <1>6, <1>7, <1>8, WorkKept, CallKept DEF TurnCompleted, TypeOK

\* LoopStep keeps the types.
LEMMA LoopType == ASSUME TypeOK, LoopStep PROVE TypeOK'
<1>1. CASE ProtocolViolation
  BY <1>1, TeardownType DEF ProtocolViolation
<1>2. CASE LoopTerminal
  <2>1. WorkType'
    BY <1>2, SettledType DEF LoopTerminal, TypeOK, WorkType
  <2> QED BY <1>2, <2>1, SessionKept, ServerKept, CallKept DEF LoopTerminal, TypeOK
<1>3. CASE LoopRollback
  BY <1>3, RollbackType, ServerKept, CallKept DEF LoopRollback, TypeOK, IdleLoop
<1> QED BY <1>1, <1>2, <1>3, TurnStartedType, DecisionCardType, TurnCompletedType DEF LoopStep

\* A lost connection, a reconnect and the timers keep the types.
LEMMA ConnectionType ==
  ASSUME TypeOK,
         \/ ConnectionLost \/ Reconnect
         \/ \E t \in Turns : ExpireDecision(t)
         \/ \E g \in Generations : Invalidate(g)
  PROVE  TypeOK'
<1>1. CASE ConnectionLost
  BY <1>1, TeardownType DEF ConnectionLost
<1>2. CASE Reconnect
  <2>1. generation' \in Generations
    BY <1>2, TurnSessionAssumption DEF Reconnect, TypeOK
  <2>2. SessionType'
    BY <1>2, NothingType, NoSessionType DEF Reconnect, TypeOK, SessionType
  <2> QED BY <1>2, <2>1, <2>2, WorkKept, CallKept, ServerKept DEF Reconnect, TypeOK
<1>3. ASSUME NEW t \in Turns, ExpireDecision(t) PROVE TypeOK'
  <2>1. SessionType'
    BY <1>3, NothingType DEF ExpireDecision, TypeOK, SessionType
  <2> QED BY <1>3, <2>1, WorkKept, CallKept, ServerKept DEF ExpireDecision, TypeOK
<1>4. ASSUME NEW g \in Generations, Invalidate(g) PROVE TypeOK'
  <2>1. WorkType'
    BY <1>4, SettledType DEF Invalidate, TypeOK, WorkType
  <2> QED BY <1>4, <2>1, SessionKept, CallKept, ServerKept DEF Invalidate, TypeOK
<1> QED BY <1>1, <1>2, <1>3, <1>4

\* ServerStep keeps the types.
LEMMA ServerStepType == ASSUME TypeOK, ServerStep PROVE TypeOK'
<1>1. ASSUME NEW n \in Notification, notes' = Append(notes, n)
      PROVE  notes' \in Seq(Notification)
  BY <1>1 DEF TypeOK, ServerType
<1>2. ASSUME NEW r \in inbox, NEW t \in Turns, ServerStart(r, t) PROVE TypeOK'
  <2>1. r \in [token : Tokens, thread : Threads, turn : Turns \union {0}]
    BY DEF TypeOK, ServerType
  <2>2. Note("started", t, TRUE) \in Notification
    BY DEF Note, Notification
  <2>3. ServerType'
    BY <1>1, <1>2, <2>1, <2>2 DEF ServerStart, TypeOK, ServerType
  <2> QED BY <1>2, <2>3, SessionKept, WorkKept, CallKept DEF ServerStart, TypeOK
<1>3. ASSUME NEW r \in inbox, ServerRespond(r) PROVE TypeOK'
  <2>1. r \in [token : Tokens, thread : Threads, turn : Turns \union {0}]
    BY DEF TypeOK, ServerType
  <2>2. Note("violation", 0, TRUE) \in Notification
    BY DEF Note, Notification
  <2>3. ServerType'
    BY <1>1, <1>3, <2>2 DEF ServerRespond, TypeOK, ServerType
  <2>4. CallType'
    <3> SUFFICES ASSUME NEW c \in Calls
                 PROVE  /\ call'[c] \in Command
                        /\ call'[c].pc # "idle" =>
                             call'[c].ws \in Workspaces /\ call'[c].gen \in Generations
                        /\ call'[c].pc \in {"begin", "attach", "send", "sent", "replied", "failed"} =>
                             call'[c].token \in Tokens /\ call'[c].thread \in Threads
                        /\ call'[c].pc \in {"replied", "answerReady", "interruptReady"} =>
                             call'[c].turn \in Turns
      BY <1>3 DEF ServerRespond, CallType
    <3>1. call[c] \in Command
      BY DEF TypeOK, CallType
    <3>2. CASE c \notin Waiting(r.token)
      BY <1>3, <3>2 DEF ServerRespond, TypeOK, CallType
    <3>3. CASE c \in Waiting(r.token)
      <4>1. /\ call[c].pc = "sent" /\ call[c].ws \in Workspaces /\ call[c].gen \in Generations
            /\ call[c].token \in Tokens /\ call[c].thread \in Threads
        BY <3>3 DEF Waiting, TypeOK, CallType
      <4>2. CASE r.turn = 0
        <5>1. call'[c] = [call[c] EXCEPT !.pc = "failed"]
          BY <1>3, <3>3, <4>2 DEF ServerRespond
        <5> QED BY <3>1, <4>1, <5>1 DEF Command, Phases
      <4>3. CASE r.turn # 0
        <5>1. call'[c] = [call[c] EXCEPT !.pc = "replied", !.turn = r.turn] /\ r.turn \in Turns
          BY <1>3, <2>1, <3>3, <4>3 DEF ServerRespond
        <5> QED BY <3>1, <4>1, <5>1 DEF Command, Phases
      <4> QED BY <4>2, <4>3
    <3> QED BY <3>2, <3>3
  <2> QED BY <1>3, <2>3, <2>4, SessionKept, WorkKept DEF ServerRespond, TypeOK
<1>4. ASSUME NEW t \in Turns, ServerDecision(t) PROVE TypeOK'
  <2>1. Note("decision", t, TRUE) \in Notification
    BY DEF Note, Notification
  <2>2. ServerType'
    BY <1>1, <1>4, <2>1 DEF ServerDecision, TypeOK, ServerType
  <2> QED BY <1>4, <2>2, SessionKept, WorkKept, CallKept DEF ServerDecision, TypeOK
<1>5. ASSUME NEW t \in Turns, NEW ok \in BOOLEAN, ServerEnd(t, ok) PROVE TypeOK'
  <2>1. Note("completed", t, ok) \in Notification
    BY DEF Note, Notification
  <2>2. ServerType'
    BY <1>1, <1>5, <2>1 DEF ServerEnd, TypeOK, ServerType
  <2> QED BY <1>5, <2>2, SessionKept, WorkKept, CallKept DEF ServerEnd, TypeOK
<1> QED BY <1>2, <1>3, <1>4, <1>5 DEF ServerStep

\* A session that has just connected is typed.
LEMMA TypeInit == Init => TypeOK
<1> SUFFICES ASSUME Init PROVE TypeOK
  OBVIOUS
<1>1. SessionType
  BY NoSessionType, NothingType DEF Init, SessionType
<1>2. WorkType
  BY DEF Init, WorkType
<1>3. CallType
  BY DEF Init, CallType, NoCall, Command, Phases
<1>4. ServerType
  BY DEF Init, ServerType, NoTurn
<1> QED BY <1>1, <1>2, <1>3, <1>4, TurnSessionAssumption DEF Init, TypeOK, IdleLoop

\* Every step keeps the types.
LEMMA TypeStep == TypeOK /\ [Next]_vars => TypeOK'
<1> SUFFICES ASSUME TypeOK, [Next]_vars PROVE TypeOK'
  OBVIOUS
<1>1. ASSUME NEW c \in Calls, CallStep(c) PROVE TypeOK'
  BY <1>1, SimpleCommandType, ThreadType, ReserveType, ClaimType, WorkUnitType, SendType,
     StartFailedType, StartRepliedType, InterruptType DEF CallStep
<1>2. CASE UNCHANGED vars
  BY <1>2, SessionKept, WorkKept, CallKept, ServerKept DEF vars, TypeOK
<1> QED BY <1>1, <1>2, IssueType, WorkspaceType, AfterRollbackType, LoopType, ConnectionType,
           ServerStepType DEF Next

\* Every variable keeps its type, in particular a command that starts a turn
\* always has its token and a notification its turn.
THEOREM TypeCorrect == Spec => []TypeOK
BY TypeInit, TypeStep, PTL DEF Spec

-----------------------------------------------------------------------------
(* One turn, in the loaded session, outside the gates.                     *)

\* The decisions that can be answered are those of the loaded session: without
\* this a continuation could be reserved in a session other than its own.
DecisionInSession ==
  active.ws # None =>
    \A t \in Turns : decision[t].st # "absent" => decision[t].ws = active.ws

SessionInv == OneTurn /\ PendingInSession /\ GateExcludesTurn /\ DecisionInSession

\* Steps that leave alone all that the invariant is about.
LEMMA SessionInvKept ==
  ASSUME SessionInv, UNCHANGED <<generation, active, pending, gates, decision>>
  PROVE  SessionInv'
BY DEF SessionInv, OneTurn, PendingInSession, GateExcludesTurn, DecisionInSession

\* Steps after which nothing is pending and no turn is active.
LEMMA NotBusyInv ==
  ASSUME pending' = None, active'.turn = 0, DecisionInSession'
  PROVE  SessionInv'
BY DEF SessionInv, OneTurn, PendingInSession, GateExcludesTurn

\* Steps that at most forget the pending start, the active turn and decisions.
LEMMA ForgetInv ==
  ASSUME TypeOK, SessionInv, UNCHANGED <<generation, gates>>,
         pending' \in {pending, None}, active'.ws = active.ws,
         active'.turn \in {active.turn, 0},
         \A t \in Turns : decision'[t].st = "absent" \/ decision'[t].ws = decision[t].ws,
         \A t \in Turns : decision'[t].st # "absent" => decision[t].st # "absent"
  PROVE  SessionInv'
BY DEF SessionInv, OneTurn, PendingInSession, GateExcludesTurn, DecisionInSession

\* Dropping a claimed decision changes no other one.
LEMMA ClaimGone ==
  ASSUME TypeOK, NEW p \in PendingStart, decision' = WithoutClaim(p)
  PROVE  \A t \in Turns : decision'[t] = decision[t] \/ decision'[t].st = "absent"
<1>1. p.decision \in Turns \union {0}
  BY DEF PendingStart
<1> QED BY <1>1 DEF WithoutClaim, NoDecision, TypeOK, SessionType

\* SessionInv survives a rollback.
LEMMA RollbackInv ==
  ASSUME TypeOK, SessionInv, NEW g, NEW k, NEW interrupt \in BOOLEAN,
         Rollback(g, k, interrupt), UNCHANGED <<generation, gates>>
  PROVE  SessionInv'
<1>1. CASE generation = g /\ pending # None /\ pending.token = k
  <2>1. pending \in PendingStart
    BY <1>1 DEF TypeOK, SessionType
  <2>2. /\ pending' = None /\ decision' = WithoutClaim(pending)
        /\ active'.ws = active.ws /\ active'.turn \in {active.turn, 0}
    BY <1>1 DEF Rollback, RollbackOf, TypeOK, SessionType
  <2>3. \A t \in Turns : decision'[t] = decision[t] \/ decision'[t].st = "absent"
    BY <2>1, <2>2, ClaimGone
  <2> QED BY <2>2, <2>3, ForgetInv
<1>2. CASE ~(generation = g /\ pending # None /\ pending.token = k)
  BY <1>2, SessionInvKept DEF Rollback
<1> QED BY <1>1, <1>2

\* A confirmed start makes its own turn the active one, and that only where the
\* start could be made: in the loaded session and outside the gates.
LEMMA ConfirmedInv ==
  ASSUME TypeOK, SessionInv, NEW g, NEW k, NEW th, NEW t \in Turns, CanConfirm(g, k, th, t)
  PROVE  /\ pending \in PendingStart /\ pending.ws = active.ws
         /\ Confirmed(t).ws = active.ws
         /\ Confirmed(t).turn \in {0, t}
         /\ active.ws \notin gates
<1>1. pending \in PendingStart /\ pending.ws = active.ws /\ pending.turn \in {0, t}
  BY DEF CanConfirm, TypeOK, SessionType
<1>2. active.turn \in {0, t}
  BY <1>1 DEF SessionInv, OneTurn, CanConfirm, TypeOK, SessionType
<1>3. Confirmed(t).ws = active.ws /\ Confirmed(t).turn \in {0, t}
  BY <1>2 DEF Confirmed, TypeOK, SessionType
<1>4. active.ws \notin gates
  BY <1>1 DEF CanConfirm, SessionInv, GateExcludesTurn
<1> QED BY <1>1, <1>3, <1>4

\* SessionInv survives Teardown.
LEMMA TeardownInv == ASSUME TypeOK, SessionInv, Teardown PROVE SessionInv'
<1>1. pending' = None /\ active'.turn = 0
  BY DEF Teardown, TypeOK, SessionType
<1>2. DecisionInSession'
  BY DEF Teardown, NoDecisions, NoDecision, DecisionInSession
<1> QED BY <1>1, <1>2, NotBusyInv

\* SessionInv survives Issue.
LEMMA IssueInv == ASSUME TypeOK, SessionInv, NEW c \in Calls, Issue(c) PROVE SessionInv'
<1>1. PICK w \in Workspaces : Activate(w) /\ UNCHANGED <<generation, pending, gates>>
  BY DEF Issue, ReadyContext
<1>2. CASE active.ws = w
  BY <1>1, <1>2, SessionInvKept DEF Activate
<1>3. CASE active.ws # w
  <2>1. pending' = None /\ active'.turn = 0
    BY <1>1, <1>3 DEF Activate, Busy
  <2>2. DecisionInSession'
    BY <1>1, <1>3 DEF Activate, NoDecisions, NoDecision, DecisionInSession
  <2> QED BY <2>1, <2>2, NotBusyInv
<1> QED BY <1>2, <1>3

\* SessionInv survives a gate that opens or closes and an unregistration.
LEMMA WorkspaceInv ==
  ASSUME TypeOK, SessionInv, NEW w \in Workspaces,
         BeginCancellation(w) \/ ReleaseCancellation(w) \/ Unregister(w)
  PROVE  SessionInv'
<1>1. CASE BeginCancellation(w)
  BY <1>1 DEF BeginCancellation, SessionInv, OneTurn, PendingInSession, GateExcludesTurn,
              DecisionInSession
<1>2. CASE ReleaseCancellation(w)
  BY <1>2 DEF ReleaseCancellation, SessionInv, OneTurn, PendingInSession, GateExcludesTurn,
              DecisionInSession
<1>3. CASE Unregister(w)
  <2>1. CASE active.ws = w
    <3>1. pending' = None /\ active'.turn = 0 /\ active'.ws = None
      BY <1>3, <2>1 DEF Unregister, Busy, NoSession
    <3> QED BY <3>1, NotBusyInv DEF DecisionInSession
  <2>2. CASE active.ws # w
    BY <1>3, <2>2, SessionInvKept DEF Unregister
  <2> QED BY <2>1, <2>2
<1> QED BY <1>1, <1>2, <1>3

\* SessionInv survives the answers to the thread commands.
LEMMA ThreadInv ==
  ASSUME TypeOK, SessionInv, NEW c \in Calls,
         \/ \E th \in Threads : AcceptThread(c, th)
         \/ \E listed \in SUBSET Threads : ListThreads(c, listed)
         \/ PolicyStop(c)
  PROVE  SessionInv'
<1>1. ASSUME NEW th \in Threads, AcceptThread(c, th) PROVE SessionInv'
  <2>1. active'.ws = active.ws /\ active'.turn = active.turn
    BY <1>1 DEF AcceptThread, TypeOK, SessionType
  <2> QED BY <1>1, <2>1, ForgetInv DEF AcceptThread
<1>2. ASSUME NEW listed \in SUBSET Threads, ListThreads(c, listed) PROVE SessionInv'
  BY <1>2, SessionInvKept DEF ListThreads
<1>3. CASE PolicyStop(c)
  <2>1. pending' = None /\ active'.turn = 0 /\ active'.ws = active.ws
    BY <1>3 DEF PolicyStop, TypeOK, SessionType
  <2> QED BY <1>3, <2>1, ForgetInv DEF PolicyStop
<1> QED BY <1>1, <1>2, <1>3

\* SessionInv survives a reservation and the claim of a decision.
LEMMA StartInv ==
  ASSUME TypeOK, SessionInv, NEW c \in Calls, Reserve(c) \/ ClaimDecision(c)
  PROVE  SessionInv'
<1>1. /\ generation = call[c].gen /\ call[c].ws \notin gates /\ call[c].ws \in Workspaces
      /\ active.turn = 0 /\ pending = None /\ UNCHANGED <<generation, active, gates>>
  BY DEF Reserve, ClaimDecision, MayStart, Busy, TypeOK, CallType
<1>2. ASSUME active.ws = call[c].ws, NEW th, NEW d, pending' = Reservation(c, th, d),
             DecisionInSession'
      PROVE  SessionInv'
  <2>1. pending'.ws = active.ws /\ pending'.gen = generation /\ active'.turn = 0
    BY <1>1, <1>2 DEF Reservation
  <2> QED BY <1>1, <1>2, <2>1 DEF SessionInv, OneTurn, PendingInSession, GateExcludesTurn
<1>3. CASE Reserve(c)
  <2>1. DecisionInSession'
    BY <1>3 DEF Reserve, SessionInv, DecisionInSession
  <2> QED BY <1>2, <1>3, <2>1 DEF Reserve
<1>4. CASE ClaimDecision(c)
  <2> DEFINE d == call[c].turn
  <2>1. d \in Turns /\ decision[d].st # "absent" /\ decision[d].ws = call[c].ws /\ active.ws # None
    BY <1>4 DEF ClaimDecision, TypeOK, CallType
  <2>2. active.ws = call[c].ws
    BY <2>1 DEF SessionInv, DecisionInSession
  <2>3. \A t \in Turns : decision'[t].ws = decision[t].ws
                         /\ (decision'[t].st # "absent" => decision[t].st # "absent")
    <3>1. \A t \in Turns : decision[t] \in Decision
      BY DEF TypeOK, SessionType
    <3> QED BY <1>4, <2>1, <3>1 DEF ClaimDecision, Decision, TypeOK, SessionType
  <2>4. DecisionInSession'
    BY <1>1, <2>3 DEF SessionInv, DecisionInSession
  <2> QED BY <1>2, <1>4, <2>2, <2>4 DEF ClaimDecision
<1> QED BY <1>3, <1>4

\* SessionInv survives AttachWorkUnit.
LEMMA AttachInv == ASSUME TypeOK, SessionInv, NEW c \in Calls, AttachWorkUnit(c) PROVE SessionInv'
<1>1. CASE UNCHANGED pending
  BY <1>1, SessionInvKept DEF AttachWorkUnit
<1>2. CASE pending # None /\ pending' = [pending EXCEPT !.leased = TRUE]
  <2>1. /\ pending'.ws = pending.ws /\ pending'.gen = pending.gen /\ pending'.turn = pending.turn
    BY <1>2 DEF TypeOK, SessionType, PendingStart
  <2> QED BY <1>2, <2>1 DEF AttachWorkUnit, SessionInv, OneTurn, PendingInSession,
                            GateExcludesTurn, DecisionInSession
<1> QED BY <1>1, <1>2 DEF AttachWorkUnit

\* SessionInv survives the reply to turn/start.
LEMMA StartRepliedInv ==
  ASSUME TypeOK, SessionInv, NEW c \in Calls, StartReplied(c)
  PROVE  SessionInv'
<1> DEFINE t == call[c].turn
           p == [pending EXCEPT !.turn = t]
           ok == CanConfirm(call[c].gen, call[c].token, call[c].thread, t)
<1>1. t \in Turns /\ UNCHANGED <<generation, gates>>
  BY DEF StartReplied, TypeOK, CallType
<1>2. ok => /\ pending \in PendingStart /\ Confirmed(t).ws = active.ws
            /\ Confirmed(t).turn \in {0, t} /\ active.ws \notin gates
  BY <1>1, ConfirmedInv
<1>3. ASSUME ok, pending' = None, active'.ws = active.ws,
             \A x \in Turns : decision'[x] = decision[x] \/ decision'[x].st = "absent"
      PROVE  SessionInv'
  <2>1. DecisionInSession'
    BY <1>3 DEF SessionInv, DecisionInSession
  <2> QED BY <1>1, <1>2, <1>3, <2>1
          DEF SessionInv, OneTurn, PendingInSession, GateExcludesTurn
<1>4. ASSUME ok, active' = Confirmed(t), decision' = WithoutClaim(pending), pending' = None
      PROVE  SessionInv'
  <2>1. \A x \in Turns : decision'[x] = decision[x] \/ decision'[x].st = "absent"
    BY <1>2, <1>4, ClaimGone
  <2> QED BY <1>2, <1>3, <1>4, <2>1
<1>5. ASSUME ok, RollbackOf(p, Confirmed(t), Bound(t), TRUE) PROVE SessionInv'
  <2>1. p \in PendingStart /\ Confirmed(t) \in ActiveType
    BY <1>1, <1>2, <1>5, ConfirmedType
  <2>2. pending' = None /\ active'.ws = active.ws /\ decision' = WithoutClaim(p)
    BY <1>2, <1>5, <2>1 DEF RollbackOf, ActiveType
  <2>3. \A x \in Turns : decision'[x] = decision[x] \/ decision'[x].st = "absent"
    BY <2>1, <2>2, ClaimGone
  <2> QED BY <1>3, <1>5, <2>2, <2>3
<1>6. ASSUME Rollback(call[c].gen, call[c].token, TRUE) PROVE SessionInv'
  BY <1>1, <1>6, RollbackInv
<1> QED BY <1>4, <1>5, <1>6 DEF StartReplied

\* SessionInv survives every step of a command.
LEMMA CommandInv ==
  ASSUME TypeOK, SessionInv, NEW c \in Calls, CallStep(c)
  PROVE  SessionInv'
<1>1. CASE CommandFails(c) \/ SendThread(c) \/ Timeout(c) \/ BeginWorkUnit(c) \/ Send(c)
            \/ SendInterrupt(c)
  BY <1>1, SessionInvKept
     DEF CommandFails, SendThread, Timeout, BeginWorkUnit, Send, SendInterrupt
<1>2. CASE StartFailed(c)
  BY <1>2, RollbackInv DEF StartFailed
<1>3. CASE InterruptAcked(c)
  BY <1>3, RollbackInv DEF InterruptAcked
<1>4. CASE ClaimExpired(c)
  <2>1. \A x \in Turns : decision'[x] = decision[x] \/ decision'[x].st = "absent"
    BY <1>4 DEF ClaimExpired, NoDecision, TypeOK, SessionType
  <2> QED BY <1>4, <2>1, ForgetInv DEF ClaimExpired
<1> QED BY <1>1, <1>2, <1>3, <1>4, ThreadInv, StartInv, AttachInv, StartRepliedInv DEF CallStep

\* SessionInv survives TurnStarted.
LEMMA TurnStartedInv == ASSUME TypeOK, SessionInv, TurnStarted PROVE SessionInv'
<1> DEFINE t == Head(notes).turn
           th == srv[t].thread
<1>1. t \in Turns
  BY HeadType DEF TurnStarted
<1>2. ASSUME pending # None, CanConfirm(generation, pending.token, th, t),
             active' = Confirmed(t), pending' = [pending EXCEPT !.turn = t],
             UNCHANGED <<generation, gates, decision>>
      PROVE  SessionInv'
  <2>1. /\ pending \in PendingStart /\ pending.ws = active.ws
        /\ active'.ws = active.ws /\ active'.turn \in {0, t} /\ active.ws \notin gates
    BY <1>1, <1>2, ConfirmedInv
  <2>2. pending'.ws = pending.ws /\ pending'.gen = pending.gen /\ pending'.turn = t
    BY <1>2, <2>1 DEF PendingStart
  <2> QED BY <1>2, <2>1, <2>2
          DEF SessionInv, OneTurn, PendingInSession, GateExcludesTurn, DecisionInSession
<1>3. CASE UNCHANGED <<conn, session>>
  BY <1>3, SessionInvKept
<1>4. CASE Teardown
  BY <1>4, TeardownInv
<1> QED BY <1>2, <1>3, <1>4 DEF TurnStarted

\* SessionInv survives DecisionCard.
LEMMA DecisionCardInv == ASSUME TypeOK, SessionInv, DecisionCard PROVE SessionInv'
<1> DEFINE t == Head(notes).turn
<1>1. t \in Turns
  BY HeadType DEF DecisionCard
<1>2. DecisionInSession'
  <2>1. CASE decision' = [decision EXCEPT ![t] = [NoDecision EXCEPT !.st = "pending",
                                                                     !.ws = active.ws]]
    <3>1. \A x \in Turns : decision'[x] = decision[x] \/ decision'[x].ws = active.ws
      BY <1>1, <2>1 DEF NoDecision, TypeOK, SessionType
    <3> QED BY <3>1 DEF DecisionCard, SessionInv, DecisionInSession
  <2>2. CASE UNCHANGED decision
    BY <2>2 DEF DecisionCard, SessionInv, DecisionInSession
  <2> QED BY <2>1, <2>2 DEF DecisionCard
<1> QED BY <1>2 DEF DecisionCard, SessionInv, OneTurn, PendingInSession, GateExcludesTurn

\* SessionInv survives TurnCompleted.
LEMMA TurnCompletedInv == ASSUME TypeOK, SessionInv, TurnCompleted PROVE SessionInv'
<1> DEFINE t == Head(notes).turn
<1>1. t \in Turns /\ UNCHANGED <<generation, gates>>
  BY HeadType DEF TurnCompleted
<1>2. active'.ws = active.ws /\ active'.turn \in {active.turn, 0}
  BY DEF TurnCompleted, TypeOK, SessionType
<1>3. \A x \in Turns : /\ decision'[x].st # "absent" => decision[x].st # "absent"
                       /\ decision'[x].st = "absent" \/ decision'[x].ws = decision[x].ws
  <2>1. \A x \in Turns : decision[x] \in Decision
    BY DEF TypeOK, SessionType
  <2>2. CASE decision' = [decision EXCEPT ![t].done = TRUE]
    BY <1>1, <2>1, <2>2 DEF Decision, TypeOK, SessionType
  <2>3. CASE decision' = [decision EXCEPT ![t] = NoDecision]
    BY <1>1, <2>3 DEF NoDecision, TypeOK, SessionType
  <2> QED BY <2>2, <2>3 DEF TurnCompleted
<1>4. CASE pending' = pending
  BY <1>1, <1>2, <1>3, <1>4, ForgetInv
<1>5. CASE pending # None /\ pending' # pending
  <2>1. pending \in PendingStart
    BY <1>5 DEF TypeOK, SessionType
  <2>2. \A p \in PendingStart : \A a, b :
          /\ [p EXCEPT !.terminal = a, !.leased = b].ws = p.ws
          /\ [p EXCEPT !.terminal = a, !.leased = b].gen = p.gen
          /\ [p EXCEPT !.terminal = a, !.leased = b].turn = p.turn
    BY DEF PendingStart
  <2>3. PICK a, b : pending' = [pending EXCEPT !.terminal = a, !.leased = b]
    BY <1>5 DEF TurnCompleted
  <2>4. pending'.ws = pending.ws /\ pending'.gen = pending.gen /\ pending'.turn = pending.turn
    BY <2>1, <2>2, <2>3
  <2> QED BY <1>1, <1>2, <1>3, <1>5, <2>4
          DEF SessionInv, OneTurn, PendingInSession, GateExcludesTurn, DecisionInSession
<1> QED BY <1>4, <1>5 DEF TurnCompleted

\* SessionInv survives the steps of the loop, the connection and the server.
LEMMA OtherInv ==
  ASSUME TypeOK, SessionInv,
         \/ ConnectionLost \/ ProtocolViolation \/ Reconnect \/ LoopTerminal \/ LoopRollback
         \/ \E r \in aftermath : AfterRollback(r)
         \/ \E t \in Turns : ExpireDecision(t)
         \/ \E g \in Generations : Invalidate(g)
         \/ ServerStep
  PROVE  SessionInv'
<1>1. CASE ConnectionLost \/ ProtocolViolation
  BY <1>1, TeardownInv DEF ConnectionLost, ProtocolViolation
<1>2. CASE Reconnect
  <2>1. pending' = None /\ active'.turn = 0 /\ active'.ws = None
    BY <1>2 DEF Reconnect, NoSession
  <2> QED BY <2>1, NotBusyInv DEF DecisionInSession
<1>3. CASE LoopRollback
  BY <1>3, RollbackInv DEF LoopRollback
<1>4. ASSUME NEW t \in Turns, ExpireDecision(t) PROVE SessionInv'
  <2>1. \A x \in Turns : decision'[x] = decision[x] \/ decision'[x].st = "absent"
    BY <1>4 DEF ExpireDecision, NoDecision, TypeOK, SessionType
  <2> QED BY <1>4, <2>1, ForgetInv DEF ExpireDecision
<1>5. CASE LoopTerminal \/ (\E r \in aftermath : AfterRollback(r))
            \/ (\E g \in Generations : Invalidate(g)) \/ ServerStep
  BY <1>5, SessionInvKept
     DEF LoopTerminal, AfterRollback, Invalidate, ServerStep, ServerStart, ServerRespond,
         ServerDecision, ServerEnd
<1> QED BY <1>1, <1>2, <1>3, <1>4, <1>5

\* SessionInv survives every step.
LEMMA SessionStep == TypeOK /\ SessionInv /\ [Next]_vars => SessionInv'
<1> SUFFICES ASSUME TypeOK, SessionInv, [Next]_vars PROVE SessionInv'
  OBVIOUS
<1>1. CASE UNCHANGED vars
  BY <1>1, SessionInvKept DEF vars
<1> QED BY <1>1, IssueInv, CommandInv, WorkspaceInv, TurnStartedInv, DecisionCardInv,
           TurnCompletedInv, OtherInv DEF Next, LoopStep

\* When nothing is loaded SessionInv holds.
LEMMA SessionInit == Init => SessionInv
BY DEF Init, SessionInv, OneTurn, PendingInSession, GateExcludesTurn, DecisionInSession,
       NoSession

\* SessionInv holds throughout.
LEMMA SessionSafe == Spec => []SessionInv
BY TypeCorrect, SessionInit, SessionStep, PTL DEF Spec

\* At most one turn is in progress, whatever the order of the response, of the
\* notifications and of the commands.
THEOREM OneTurnHolds == Spec => []OneTurn
<1>1. SessionInv => OneTurn
  BY DEF SessionInv
<1> QED BY <1>1, SessionSafe, PTL

\* The session is not switched or closed under a start that is in progress.
THEOREM PendingInSessionHolds == Spec => []PendingInSession
<1>1. SessionInv => PendingInSession
  BY DEF SessionInv
<1> QED BY <1>1, SessionSafe, PTL

\* No turn is in progress in a workspace that is being cancelled.
THEOREM GateExcludesTurnHolds == Spec => []GateExcludesTurn
<1>1. SessionInv => GateExcludesTurn
  BY DEF SessionInv
<1> QED BY <1>1, SessionSafe, PTL

-----------------------------------------------------------------------------
(* Tokens, what the server has, and what is on its way.                    *)

\* A command that starts a turn has a token of its own; until it has sent that,
\* nobody else knows it.
StartPhases == {"begin", "attach", "send", "sent", "replied", "failed"}
Unsent == {"begin", "attach", "send"}
Known(k) == /\ k \in Tokens /\ k <= nextToken
            /\ \A c \in Calls : call[c].pc \in Unsent => call[c].token # k

TokensAreOwn ==
  /\ \A c \in Calls : call[c].token <= nextToken /\ call[c].gen <= generation
  /\ pending # None => pending.token <= nextToken
  /\ loop.rollback <= nextToken
  /\ \A c, d \in Calls : call[c].pc \in StartPhases /\ call[d].pc \in StartPhases
                           /\ call[c].token = call[d].token => c = d

\* What the server has was sent, and a turn of it is of the token that began it.
ServerIsTrue ==
  /\ \A t \in Turns : srv[t].st # "unused" => Known(srv[t].token)
  /\ \A r \in inbox :
       Known(r.token) /\ (r.turn # 0 => srv[r.turn].st # "unused" /\ srv[r.turn].token = r.token)
  /\ \A c \in Calls : call[c].pc = "replied" =>
       srv[call[c].turn].st # "unused" /\ srv[call[c].turn].token = call[c].token
  /\ ~ready => \A t \in Turns : srv[t].st # "running"

\* What is notified is so, and a turn has one card and one end.
Tells(i, m, t) == notes[i].m = m /\ notes[i].turn = t
NoteIsTrue(i) ==
  /\ notes[i].m # "violation" => srv[notes[i].turn].st # "unused"
  /\ notes[i].m = "completed" => srv[notes[i].turn].st = "ended"
  /\ notes[i].m \in {"started", "decision"} => notes[i].ok
NotesAreTrue ==
  \A i \in 1..Len(notes) :
    /\ NoteIsTrue(i)
    /\ \A j \in 1..Len(notes) :
         notes[i].m \in {"decision", "completed"} /\ Tells(j, notes[i].m, notes[i].turn) => i = j

\* A pending start that is bound to a turn is of that turn's thread; if the turn
\* is over for the start, or the loop is about to roll it back, it is over.
PendingIsTrue ==
  pending # None =>
    /\ pending.turn # 0 => /\ srv[pending.turn].st # "unused"
                           /\ srv[pending.turn].thread = pending.thread
    /\ pending.terminal \/ pending.token = loop.rollback =>
         pending.turn # 0 /\ srv[pending.turn].st = "ended"

\* An interrupt that may roll back a start was sent for the turn of that start.
InterruptIsTrue ==
  \A c \in Calls : call[c].pc = "interruptSent" /\ call[c].token # 0 =>
    /\ call[c].turn # 0
    /\ ready /\ call[c].gen = generation => call[c].turn \in asked
    /\ pending # None /\ pending.token = call[c].token => pending.turn = call[c].turn

BaseInv == TokensAreOwn /\ ServerIsTrue /\ NotesAreTrue /\ PendingIsTrue /\ InterruptIsTrue

-----------------------------------------------------------------------------
(* How a step may move each part.                                          *)

\* The server's turns stay what they are.
SrvGrows ==
  \A t \in Turns :
    /\ srv[t].st # "unused" => /\ srv'[t].st # "unused" /\ srv'[t].token = srv[t].token
                               /\ srv'[t].thread = srv[t].thread
    /\ srv[t].st = "ended" => srv'[t].st = "ended"

\* A command keeps its place, leaves the phases of a start, or advances in them.
CallMoves ==
  \A c \in Calls :
    \/ call'[c] = call[c]
    \/ /\ call'[c].pc \notin StartPhases \union {"interruptSent"}
       /\ call'[c].token <= nextToken /\ call'[c].gen <= generation
    \/ /\ call[c].pc \in StartPhases /\ call'[c].pc \in StartPhases \ {"replied"}
       /\ call'[c].token = call[c].token /\ call'[c].gen = call[c].gen
       /\ call'[c].pc \in Unsent => call[c].pc \in Unsent

\* The pending start is dropped, or keeps its token, thread and turn.
PendingMoves ==
  pending' # None =>
    /\ pending # None /\ pending'.token = pending.token /\ pending'.thread = pending.thread
    /\ pending'.turn = pending.turn /\ pending'.terminal = pending.terminal

\* Tokens are their commands' own as long as a new one is the next.
LEMMA TokensMove ==
  ASSUME TypeOK, TypeOK', TokensAreOwn, CallMoves, PendingMoves,
         UNCHANGED <<nextToken, generation>>, loop'.rollback \in {loop.rollback, 0}
  PROVE  TokensAreOwn'
<1>1. nextToken \in Nat
  BY DEF TypeOK
<1>2. \A c \in Calls : call'[c].token <= nextToken /\ call'[c].gen <= generation
  BY DEF CallMoves, TokensAreOwn
<1>3. \A c \in Calls : call'[c].pc \in StartPhases =>
        call[c].pc \in StartPhases /\ call'[c].token = call[c].token
  BY DEF CallMoves, StartPhases
<1>4. \A c, d \in Calls : call'[c].pc \in StartPhases /\ call'[d].pc \in StartPhases
                           /\ call'[c].token = call'[d].token => c = d
  BY <1>3 DEF TokensAreOwn
<1>5. pending' # None => pending'.token <= nextToken
  BY DEF PendingMoves, TokensAreOwn
<1>6. loop'.rollback <= nextToken
  BY <1>1 DEF TokensAreOwn
<1> QED BY <1>2, <1>4, <1>5, <1>6 DEF TokensAreOwn

\* What is known of a token stays known.
LEMMA KnownMoves ==
  ASSUME TypeOK, UNCHANGED nextToken,
         \A c \in Calls : call'[c].pc \in Unsent =>
           call[c].pc \in Unsent /\ call'[c].token = call[c].token
  PROVE  \A k : Known(k) => Known(k)'
BY DEF Known

\* The commands that move make nothing known unknown.
LEMMA CallMovesKnown ==
  ASSUME TypeOK, CallMoves, UNCHANGED nextToken
  PROVE  \A k : Known(k) => Known(k)'
<1>1. \A c \in Calls : call'[c].pc \in Unsent =>
        call[c].pc \in Unsent /\ call'[c].token = call[c].token
  BY DEF CallMoves, StartPhases, Unsent
<1> QED BY <1>1, KnownMoves

\* The server's side, when it begins nothing.
LEMMA ServerMove ==
  ASSUME TypeOK, ServerIsTrue, SrvGrows, \A k : Known(k) => Known(k)', inbox' \subseteq inbox,
         \A t \in Turns : srv'[t].st # "unused" => srv[t].st # "unused",
         \A c \in Calls : call'[c].pc = "replied" => call[c] = call'[c],
         ~ready' => \A t \in Turns : srv'[t].st # "running"
  PROVE  ServerIsTrue'
<1>1. \A r \in inbox : r.turn \in Turns \union {0}
  BY DEF TypeOK, ServerType
<1>2. \A c \in Calls : call[c].pc = "replied" => call[c].turn \in Turns
  BY DEF TypeOK, CallType
<1>3. ASSUME NEW t \in Turns, srv'[t].st # "unused" PROVE Known(srv[t].token)'
  <2>1. PICK k : k = srv[t].token /\ k = srv'[t].token
    BY <1>3 DEF SrvGrows
  <2>2. Known(k)
    BY <1>3, <2>1 DEF ServerIsTrue
  <2>3. Known(k)'
    BY <2>2
  <2> QED BY <2>1, <2>3 DEF Known
<1>4. ASSUME NEW r \in inbox' 
      PROVE  Known(r.token)' /\ (r.turn # 0 => srv'[r.turn].st # "unused" /\ srv'[r.turn].token = r.token)
  BY <1>1, <1>4 DEF ServerIsTrue, SrvGrows
<1>5. ASSUME NEW c \in Calls, call'[c].pc = "replied"
      PROVE  srv'[call'[c].turn].st # "unused" /\ srv'[call'[c].turn].token = call'[c].token
  BY <1>2, <1>5 DEF ServerIsTrue, SrvGrows
<1> QED BY <1>3, <1>4, <1>5 DEF ServerIsTrue

\* Notifications stay true as the server's turns move on, and when one is taken.
LEMMA NotesMove ==
  ASSUME TypeOK, NotesAreTrue, SrvGrows,
         notes' = notes \/ notes' = <<>> \/ (notes # <<>> /\ notes' = Tail(notes))
  PROVE  NotesAreTrue'
<1>1. notes \in Seq(Notification)
  BY DEF TypeOK, ServerType
<1>2. \A i \in 1..Len(notes) : notes[i] \in Notification
  BY <1>1
<1>3. \A i \in 1..Len(notes) : notes[i].m # "violation" => notes[i].turn \in Turns
  BY <1>2 DEF Notification
<1>4. \A i \in 1..Len(notes) :
        /\ notes[i].m # "violation" => srv'[notes[i].turn].st # "unused"
        /\ notes[i].m = "completed" => srv'[notes[i].turn].st = "ended"
        /\ notes[i].m \in {"started", "decision"} => notes[i].ok
  BY <1>3 DEF NotesAreTrue, NoteIsTrue, SrvGrows
<1>5. \A i, j \in 1..Len(notes) :
        notes[i].m \in {"decision", "completed"} /\ notes[j].m = notes[i].m
          /\ notes[j].turn = notes[i].turn => i = j
  BY DEF NotesAreTrue, Tells
<1>6. CASE notes' = notes
  BY <1>4, <1>5, <1>6 DEF NotesAreTrue, NoteIsTrue, Tells
<1>7. CASE notes' = <<>>
  BY <1>7 DEF NotesAreTrue
<1>8. CASE notes # <<>> /\ notes' = Tail(notes)
  <2>1. Len(notes) \in Nat /\ Len(notes') = Len(notes) - 1
        /\ \A i \in 1..Len(notes') : notes'[i] = notes[i + 1] /\ i + 1 \in 1..Len(notes)
    BY <1>1, <1>8
  <2>2. \A i \in 1..Len(notes') :
          /\ notes'[i].m # "violation" => srv'[notes'[i].turn].st # "unused"
          /\ notes'[i].m = "completed" => srv'[notes'[i].turn].st = "ended"
          /\ notes'[i].m \in {"started", "decision"} => notes'[i].ok
    BY <1>4, <2>1
  <2>3. ASSUME NEW i \in 1..Len(notes'), NEW j \in 1..Len(notes'),
               notes'[i].m \in {"decision", "completed"}, notes'[j].m = notes'[i].m,
               notes'[j].turn = notes'[i].turn
        PROVE  i = j
    <3>1. i + 1 = j + 1
      BY <1>5, <2>1, <2>3
    <3> QED BY <2>1, <3>1
  <2> QED BY <2>2, <2>3 DEF NotesAreTrue, NoteIsTrue, Tells
<1> QED BY <1>6, <1>7, <1>8

\* The pending start stays true when it keeps its place.
LEMMA PendingMove ==
  ASSUME TypeOK, PendingIsTrue, SrvGrows, PendingMoves, loop'.rollback \in {loop.rollback, 0}
  PROVE  PendingIsTrue'
<1> SUFFICES ASSUME pending' # None PROVE PendingIsTrue'
  BY DEF PendingIsTrue
<1>1. /\ pending \in PendingStart /\ pending'.token = pending.token /\ pending'.turn = pending.turn
      /\ pending'.thread = pending.thread /\ pending'.terminal = pending.terminal
  BY DEF PendingMoves, TypeOK, SessionType
<1>2. pending.token # 0 /\ pending.turn \in Turns \union {0}
  BY <1>1 DEF PendingStart
<1> QED BY <1>1, <1>2 DEF PendingIsTrue, SrvGrows, PendingMoves

\* Interrupts stay true when nothing new is sent and the connection stays or goes.
LEMMA InterruptMove ==
  ASSUME InterruptIsTrue, CallMoves, PendingMoves, UNCHANGED generation,
         ready' => ready /\ asked \subseteq asked'
  PROVE  InterruptIsTrue'
<1>1. \A c \in Calls : call'[c].pc = "interruptSent" => call'[c] = call[c]
  BY DEF CallMoves, StartPhases
<1> QED BY <1>1 DEF InterruptIsTrue, PendingMoves

\* A step that at most moves its command, drops the pending start, takes a
\* notification, asks for an interrupt or loses the server.
Quiet ==
  /\ UNCHANGED <<nextToken, generation>>
  /\ CallMoves /\ PendingMoves /\ SrvGrows
  /\ loop'.rollback \in {loop.rollback, 0}
  /\ inbox' \subseteq inbox
  /\ \A t \in Turns : srv'[t].st # "unused" => srv[t].st # "unused"
  /\ notes' = notes \/ notes' = <<>> \/ (notes # <<>> /\ notes' = Tail(notes))
  /\ ready' => ready /\ asked \subseteq asked'
  /\ ~ready' => \A t \in Turns : srv'[t].st # "running"

\* BaseInv survives a quiet step.
LEMMA QuietBase == ASSUME TypeOK, TypeOK', BaseInv, Quiet PROVE BaseInv'
<1>1. TokensAreOwn'
  BY TokensMove DEF BaseInv, Quiet
<1>2. ServerIsTrue'
  <2>1. \A c \in Calls : call'[c].pc = "replied" => call[c] = call'[c]
    BY DEF Quiet, CallMoves, StartPhases
  <2> QED BY <2>1, CallMovesKnown, ServerMove DEF BaseInv, Quiet
<1>3. NotesAreTrue'
  BY NotesMove DEF BaseInv, Quiet
<1>4. PendingIsTrue'
  BY PendingMove DEF BaseInv, Quiet
<1>5. InterruptIsTrue'
  BY InterruptMove DEF BaseInv, Quiet
<1> QED BY <1>1, <1>2, <1>3, <1>4, <1>5 DEF BaseInv

\* A step that leaves the server alone begins and ends no turn.
LEMMA SrvSame == ASSUME UNCHANGED srv PROVE SrvGrows /\ \A t \in Turns : srv'[t].st # "unused" => srv[t].st # "unused"
BY DEF SrvGrows

\* A step that leaves the server and the connection alone is quiet.
LEMMA QuietSame ==
  ASSUME BaseInv, UNCHANGED <<nextToken, generation, ready, inbox, srv>>, CallMoves,
         PendingMoves, loop'.rollback \in {loop.rollback, 0}, asked \subseteq asked',
         notes' = notes \/ (notes # <<>> /\ notes' = Tail(notes))
  PROVE  Quiet
BY SrvSame DEF Quiet, BaseInv, ServerIsTrue

\* A pending start that is kept or dropped moves.
LEMMA PendingKept == pending' \in {pending, None} => PendingMoves
BY DEF PendingMoves

\* Commands that stay move.
LEMMA CallStays == UNCHANGED call => CallMoves
BY DEF CallMoves

\* A command that is not starting a turn moves.
LEMMA CallSets ==
  ASSUME TypeOK, NEW c \in Calls, NEW r, call' = [call EXCEPT ![c] = r],
         r.pc \notin StartPhases \union {"interruptSent"}, r.token <= nextToken,
         r.gen <= generation
  PROVE  CallMoves
<1>1. call' = [d \in Calls |-> IF d = c THEN r ELSE call[d]]
  BY DEF TypeOK, CallType
<1> QED BY <1>1 DEF CallMoves

\* A command that returns moves.
LEMMA CallReturns ==
  ASSUME TypeOK, NEW c \in Calls, call' = [call EXCEPT ![c] = NoCall]
  PROVE  CallMoves
<1>1. NoCall.pc = "idle" /\ NoCall.token = 0 /\ NoCall.gen = 0
  BY DEF NoCall
<1>2. 0 <= nextToken /\ 0 <= generation
  BY DEF TypeOK
<1>3. "idle" \notin StartPhases \union {"interruptSent"}
  BY DEF StartPhases
<1> QED BY <1>1, <1>2, <1>3, CallSets

\* A command that goes on with its start moves.
LEMMA CallGoesOn ==
  ASSUME TypeOK, NEW c \in Calls, NEW ph \in StartPhases \ {"replied"},
         call' = [call EXCEPT ![c].pc = ph], call[c].pc \in StartPhases,
         ph \in Unsent => call[c].pc \in Unsent
  PROVE  CallMoves
<1>1. call[c] \in Command
  BY DEF TypeOK, CallType
<1>2. /\ call'[c].pc = ph /\ call'[c].token = call[c].token /\ call'[c].gen = call[c].gen
      /\ \A d \in Calls : d # c => call'[d] = call[d]
  BY <1>1 DEF TypeOK, CallType, Command
<1> QED BY <1>2 DEF CallMoves

\* The first section of a command, its failure and its thread requests are quiet.
LEMMA QuietCommand ==
  ASSUME TypeOK, BaseInv, NEW c \in Calls,
         Issue(c) \/ CommandFails(c) \/ ClaimExpired(c) \/ SendThread(c)
           \/ (\E th \in Threads : AcceptThread(c, th))
           \/ (\E listed \in SUBSET Threads : ListThreads(c, listed))
  PROVE  Quiet
<1>1. CASE Issue(c)
  <2>0. PICK ph \in {"threadReady", "startReady", "answerReady", "interruptReady"},
             w \in Workspaces : \E th, t : ReadyContext(c, ph, w, th, t)
    BY <1>1 DEF Issue
  <2>1. PICK th, t : ReadyContext(c, ph, w, th, t)
    BY <2>0
  <2> DEFINE r == [pc |-> ph, ws |-> w, thread |-> th, token |-> 0, turn |-> t, gen |-> generation]
  <2>2. r.pc \notin StartPhases \union {"interruptSent"} /\ r.token <= nextToken /\ r.gen <= generation
    BY DEF StartPhases, TypeOK
  <2>3. CallMoves
    BY <2>1, <2>2, CallSets DEF ReadyContext
  <2> QED BY <2>1, <2>3, QuietSame, PendingKept DEF ReadyContext
<1>2. CASE CommandFails(c)
  BY <1>2, QuietSame, PendingKept, CallReturns DEF CommandFails
<1>3. CASE SendThread(c)
  <2> DEFINE r == [call[c] EXCEPT !.pc = "threadSent"]
  <2>1. call[c] \in Command
    BY DEF TypeOK, CallType
  <2>2. r.pc \notin StartPhases \union {"interruptSent"} /\ r.token <= nextToken /\ r.gen <= generation
    BY <2>1 DEF StartPhases, Command, BaseInv, TokensAreOwn
  <2>3. call' = [call EXCEPT ![c] = r]
    BY <1>3 DEF SendThread, TypeOK, CallType
  <2>4. CallMoves
    BY <2>2, <2>3, CallSets
  <2> QED BY <1>3, <2>4, QuietSame, PendingKept DEF SendThread
<1>4. ASSUME NEW th \in Threads, AcceptThread(c, th) PROVE Quiet
  BY <1>4, QuietSame, PendingKept, CallReturns DEF AcceptThread
<1>5. ASSUME NEW listed \in SUBSET Threads, ListThreads(c, listed) PROVE Quiet
  BY <1>5, QuietSame, PendingKept, CallReturns DEF ListThreads
<1>6. CASE ClaimExpired(c)
  BY <1>6, QuietSame, PendingKept, CallReturns DEF ClaimExpired
<1> QED BY <1>1, <1>2, <1>3, <1>4, <1>5, <1>6

\* A rollback keeps or drops the pending start.
LEMMA RollbackPending ==
  ASSUME NEW g, NEW k, NEW interrupt, Rollback(g, k, interrupt)
  PROVE  pending' \in {pending, None}
BY DEF Rollback, RollbackOf

\* The work unit of a start, its timeout, its end and its rollbacks are quiet.
LEMMA QuietStart ==
  ASSUME TypeOK, BaseInv, NEW c \in Calls,
         \/ BeginWorkUnit(c) \/ AttachWorkUnit(c) \/ Timeout(c) \/ StartFailed(c)
         \/ StartReplied(c) \/ InterruptAcked(c)
  PROVE  Quiet
<1>1. CASE BeginWorkUnit(c)
  <2>1. CallMoves
    BY <1>1, CallGoesOn DEF BeginWorkUnit, StartPhases, Unsent
  <2> QED BY <1>1, <2>1, QuietSame, PendingKept DEF BeginWorkUnit
<1>2. CASE AttachWorkUnit(c)
  <2>1. CallMoves
    BY <1>2, CallGoesOn DEF AttachWorkUnit, StartPhases, Unsent
  <2>2. CASE UNCHANGED pending
    BY <1>2, <2>1, <2>2, QuietSame, PendingKept DEF AttachWorkUnit
  <2>3. CASE pending # None /\ pending' = [pending EXCEPT !.leased = TRUE]
    <3>1. PendingMoves
      BY <2>3 DEF PendingMoves, TypeOK, SessionType, PendingStart
    <3> QED BY <1>2, <2>1, <3>1, QuietSame DEF AttachWorkUnit
  <2> QED BY <1>2, <2>2, <2>3 DEF AttachWorkUnit
<1>3. CASE Timeout(c)
  <2>1. CallMoves
    BY <1>3, CallGoesOn DEF Timeout, StartPhases, Unsent
  <2> QED BY <1>3, <2>1, QuietSame, PendingKept DEF Timeout
<1>4. CASE StartFailed(c)
  BY <1>4, QuietSame, PendingKept, CallReturns, RollbackPending DEF StartFailed
<1>5. CASE StartReplied(c)
  <2>1. pending' \in {pending, None}
    BY <1>5, RollbackPending DEF StartReplied, RollbackOf
  <2> QED BY <1>5, <2>1, QuietSame, PendingKept, CallReturns DEF StartReplied
<1>6. CASE InterruptAcked(c)
  BY <1>6, QuietSame, PendingKept, CallReturns, RollbackPending DEF InterruptAcked
<1> QED BY <1>1, <1>2, <1>3, <1>4, <1>5, <1>6

\* What is not a command's and neither starts nor ends a turn is quiet.
LEMMA QuietOther ==
  ASSUME TypeOK, BaseInv,
         \/ \E w \in Workspaces : BeginCancellation(w) \/ ReleaseCancellation(w) \/ Unregister(w)
         \/ \E r \in aftermath : AfterRollback(r)
         \/ LoopTerminal \/ LoopRollback \/ DecisionCard
         \/ \E t \in Turns : ExpireDecision(t)
         \/ \E g \in Generations : Invalidate(g)
  PROVE  Quiet
<1>1. ASSUME NEW w \in Workspaces, BeginCancellation(w) \/ ReleaseCancellation(w) \/ Unregister(w)
      PROVE  Quiet
  BY <1>1, QuietSame, PendingKept, CallStays DEF BeginCancellation, ReleaseCancellation, Unregister
<1>2. ASSUME NEW r \in aftermath, AfterRollback(r) PROVE Quiet
  BY <1>2, QuietSame, PendingKept, CallStays DEF AfterRollback
<1>3. CASE LoopTerminal
  <2>1. loop'.rollback = loop.rollback
    BY <1>3 DEF LoopTerminal, TypeOK
  <2> QED BY <1>3, <2>1, QuietSame, PendingKept, CallStays DEF LoopTerminal
<1>4. CASE LoopRollback
  <2>1. loop'.rollback = 0
    BY <1>4 DEF LoopRollback, IdleLoop
  <2> QED BY <1>4, <2>1, QuietSame, PendingKept, CallStays, RollbackPending DEF LoopRollback
<1>5. CASE DecisionCard
  BY <1>5, QuietSame, PendingKept, CallStays DEF DecisionCard, Receive
<1>6. ASSUME NEW t \in Turns, ExpireDecision(t) PROVE Quiet
  BY <1>6, QuietSame, PendingKept, CallStays DEF ExpireDecision
<1>7. ASSUME NEW g \in Generations, Invalidate(g) PROVE Quiet
  BY <1>7, QuietSame, PendingKept, CallStays DEF Invalidate
<1> QED BY <1>1, <1>2, <1>3, <1>4, <1>5, <1>6, <1>7

\* A server that goes away takes nothing back.
LEMMA GoneGrows ==
  ASSUME TypeOK, ServerGone
  PROVE  /\ SrvGrows /\ \A t \in Turns : srv'[t].st # "running"
         /\ \A t \in Turns : srv'[t].st # "unused" => srv[t].st # "unused"
<1>1. \A t \in Turns : srv[t] \in [st : {"unused", "running", "ended"},
                                   thread : Threads \union {None}, token : Tokens \union {0}]
  BY DEF TypeOK, ServerType
<1>2. \A t \in Turns :
        srv'[t] = IF srv[t].st = "running" THEN [srv[t] EXCEPT !.st = "ended"] ELSE srv[t]
  BY DEF ServerGone
<1>3. \A t \in Turns : srv[t].st = "running" =>
        srv'[t].st = "ended" /\ srv'[t].thread = srv[t].thread /\ srv'[t].token = srv[t].token
  BY <1>1, <1>2
<1>4. \A t \in Turns : srv[t].st # "running" => srv'[t] = srv[t]
  BY <1>2
<1> QED BY <1>3, <1>4 DEF SrvGrows

\* Losing the server, for whatever reason, is quiet.
LEMMA QuietGone ==
  ASSUME TypeOK, BaseInv,
         \/ \E c \in Calls : PolicyStop(c)
         \/ ConnectionLost \/ ProtocolViolation
         \/ Teardown /\ UNCHANGED <<nextToken, call, loop>>
  PROVE  Quiet
<1>1. ASSUME ServerGone, ready' = FALSE, pending' = None, CallMoves,
             UNCHANGED <<nextToken, generation, loop>>
      PROVE  Quiet
  BY <1>1, GoneGrows, PendingKept DEF ServerGone, Quiet
<1>2. ASSUME NEW c \in Calls, PolicyStop(c) PROVE Quiet
  BY <1>1, <1>2, CallReturns DEF PolicyStop
<1>3. CASE Teardown /\ UNCHANGED <<nextToken, call, loop>>
  BY <1>1, <1>3, CallStays DEF Teardown
<1> QED BY <1>2, <1>3 DEF ConnectionLost, ProtocolViolation

-----------------------------------------------------------------------------
(* BaseInv, the steps that are not quiet.                                  *)

\* The pending start that is reserved is new.
LEMMA BaseReserve ==
  ASSUME TypeOK, TypeOK', BaseInv, NEW c \in Calls, NEW th, NEW d, NEW ph \in {"begin", "send"},
         call[c].pc \in {"startReady", "answerReady"}, MayStart(c), nextToken' = nextToken + 1,
         pending' = Reservation(c, th, d),
         call'[c].pc = ph, call'[c].token = nextToken + 1, call'[c].gen = call[c].gen,
         \A e \in Calls : e # c => call'[e] = call[e],
         UNCHANGED <<generation, ready, loop, server>>
  PROVE  BaseInv'
<1>1. PICK n \in Nat : n = nextToken
  BY DEF TypeOK
<1>2. /\ pending'.token = n + 1 /\ pending'.turn = 0 /\ pending'.terminal = FALSE
      /\ nextToken' = n + 1 /\ call'[c].token = n + 1
  BY <1>1 DEF Reservation
<1>3. \A e \in Calls : call[e].token \in Nat /\ call[e].token <= n /\ call[e].gen <= generation
  BY <1>1 DEF TypeOK, CallType, Command, BaseInv, TokensAreOwn
<1>4. loop.rollback \in Nat /\ loop.rollback <= n
  BY <1>1 DEF TypeOK, BaseInv, TokensAreOwn
<1>5. TokensAreOwn'
  <2>1. \A e \in Calls : call'[e].token <= n + 1 /\ call'[e].gen <= generation
    BY <1>2, <1>3
  <2>2. \A e, f \in Calls : call'[e].pc \in StartPhases /\ call'[f].pc \in StartPhases
                             /\ call'[e].token = call'[f].token => e = f
    <3>1. \A e \in Calls : e # c => call'[e].token # n + 1
      BY <1>3
    <3>2. \A e, f \in Calls : call[e].pc \in StartPhases /\ call[f].pc \in StartPhases
                               /\ call[e].token = call[f].token => e = f
      BY DEF BaseInv, TokensAreOwn
    <3> QED BY <1>2, <3>1, <3>2
  <2>3. n + 1 <= n + 1 /\ loop.rollback <= n + 1
    BY <1>4
  <2> QED BY <1>2, <2>1, <2>2, <2>3 DEF TokensAreOwn
<1>6. ASSUME NEW k, Known(k) PROVE Known(k)'
  <2>1. k \in Tokens /\ k <= n /\ k # n + 1 /\ k <= n + 1
    BY <1>1, <1>6 DEF Known
  <2> QED BY <1>2, <1>6, <2>1 DEF Known
<1>7. ServerIsTrue'
  <2>1. \A e \in Calls : call'[e].pc = "replied" => call[e] = call'[e]
    OBVIOUS
  <2> QED BY <1>6, <2>1, SrvSame, ServerMove DEF BaseInv, ServerIsTrue
<1>8. NotesAreTrue'
  BY NotesMove, SrvSame DEF BaseInv
<1>9. PendingIsTrue'
  <2>1. n + 1 # loop.rollback
    BY <1>4
  <2> QED BY <1>2, <2>1 DEF PendingIsTrue
<1>10. InterruptIsTrue'
  <2>1. \A e \in Calls : call'[e].pc = "interruptSent" => e # c /\ call'[e] = call[e]
    OBVIOUS
  <2>2. \A e \in Calls : e # c => call'[e].token # n + 1
    BY <1>3
  <2> QED BY <1>2, <2>1, <2>2 DEF BaseInv, InterruptIsTrue
<1> QED BY <1>5, <1>7, <1>8, <1>9, <1>10 DEF BaseInv

\* BaseInv survives both reservations.
LEMMA BaseStart ==
  ASSUME TypeOK, TypeOK', BaseInv, NEW c \in Calls, Reserve(c) \/ ClaimDecision(c)
  PROVE  BaseInv'
<1>1. call[c] \in Command /\ call \in [Calls -> Command]
  BY DEF TypeOK, CallType
<1>2. CASE Reserve(c)
  <2>1. call'[c].pc = "begin" /\ call'[c].token = nextToken + 1 /\ call'[c].gen = call[c].gen
        /\ \A e \in Calls : e # c => call'[e] = call[e]
    BY <1>1, <1>2 DEF Reserve, Command
  <2> QED BY <1>2, <2>1, BaseReserve DEF Reserve
<1>3. CASE ClaimDecision(c)
  <2>1. call'[c].pc = "send" /\ call'[c].token = nextToken + 1 /\ call'[c].gen = call[c].gen
        /\ \A e \in Calls : e # c => call'[e] = call[e]
    BY <1>1, <1>3 DEF ClaimDecision, Command
  <2> QED BY <1>3, <2>1, BaseReserve DEF ClaimDecision
<1> QED BY <1>2, <1>3

\* A command that changes leaves the others as they are.
LEMMA OthersKeep ==
  ASSUME TypeOK, NEW c \in Calls, NEW ph, call' = [call EXCEPT ![c].pc = ph]
  PROVE  /\ call'[c].pc = ph /\ call'[c].token = call[c].token /\ call'[c].gen = call[c].gen
         /\ call'[c].turn = call[c].turn /\ call'[c].thread = call[c].thread
         /\ \A e \in Calls : e # c => call'[e] = call[e]
BY DEF TypeOK, CallType, Command

\* BaseInv survives Send: the token becomes known to the server.
LEMMA BaseSend == ASSUME TypeOK, TypeOK', BaseInv, NEW c \in Calls, Send(c) PROVE BaseInv'
<1>1. PICK ph \in {"sent", "failed"} : call' = [call EXCEPT ![c].pc = ph]
  BY DEF Send
<1>2. CallMoves
  BY <1>1, CallGoesOn DEF Send, StartPhases, Unsent
<1>3. PendingMoves
  BY PendingKept DEF Send
<1>4. UNCHANGED <<nextToken, generation, ready, loop, srv, notes, asked>>
  BY DEF Send
<1>5. TokensAreOwn' /\ NotesAreTrue' /\ PendingIsTrue' /\ InterruptIsTrue'
  BY <1>2, <1>3, <1>4, TokensMove, NotesMove, PendingMove, InterruptMove, SrvSame DEF BaseInv
<1>6. ServerIsTrue'
  <2>1. \A k : Known(k) => Known(k)'
    BY <1>2, <1>4, CallMovesKnown
  <2>2. PICK k \in Tokens : k = call[c].token
    BY DEF Send, TypeOK, CallType
  <2>3. Known(k)'
    <3>1. call[c].pc \in StartPhases /\ k <= nextToken
      BY <2>2 DEF Send, StartPhases, BaseInv, TokensAreOwn
    <3>2. \A e \in Calls : call'[e].pc \in Unsent => e # c /\ call'[e] = call[e]
      BY <1>1, OthersKeep DEF Unsent
    <3>3. \A e \in Calls : call'[e].pc \in Unsent => call'[e].token # k
      BY <2>2, <3>1, <3>2 DEF BaseInv, TokensAreOwn, StartPhases, Unsent
    <3> QED BY <1>4, <3>1, <3>3 DEF Known
  <2>4. \A r \in inbox' : r \in inbox \/ (r.token = k /\ r.turn = 0)
    BY <2>2 DEF Send
  <2>5. \A r \in inbox' : Known(r.token)' /\ (r.turn # 0 => srv[r.turn].st # "unused" /\ srv[r.turn].token = r.token)
    BY <2>1, <2>3, <2>4 DEF BaseInv, ServerIsTrue
  <2>6. \A e \in Calls : call'[e].pc = "replied" => call'[e] = call[e]
    BY <1>1, OthersKeep
  <2>7. \A t \in Turns : srv[t].st # "unused" => Known(srv[t].token)'
    <3> SUFFICES ASSUME NEW t \in Turns, srv[t].st # "unused" PROVE Known(srv[t].token)'
      OBVIOUS
    <3>1. PICK n : n = srv[t].token
      OBVIOUS
    <3>2. Known(n)'
      BY <2>1, <3>1 DEF BaseInv, ServerIsTrue
    <3> QED BY <1>4, <3>1, <3>2 DEF Known
  <2> QED BY <1>4, <2>5, <2>6, <2>7 DEF BaseInv, ServerIsTrue
<1> QED BY <1>5, <1>6 DEF BaseInv

\* BaseInv survives SendInterrupt: what it may roll back is the turn it is for.
LEMMA BaseInterrupt ==
  ASSUME TypeOK, TypeOK', BaseInv, NEW c \in Calls, SendInterrupt(c)
  PROVE  BaseInv'
<1>1. call[c] \in Command /\ call \in [Calls -> Command] /\ call[c].turn \in Turns
  BY DEF SendInterrupt, TypeOK, CallType
<1>2. PICK k : /\ k = 0 \/ (pending # None /\ k = pending.token /\ pending.turn = call[c].turn)
               /\ call' = [call EXCEPT ![c].pc = "interruptSent", ![c].token = k]
  BY DEF SendInterrupt
<1>3. /\ call'[c].pc = "interruptSent" /\ call'[c].token = k /\ call'[c].turn = call[c].turn
      /\ call'[c].gen = call[c].gen /\ \A e \in Calls : e # c => call'[e] = call[e]
  BY <1>1, <1>2 DEF Command
<1>4. UNCHANGED <<nextToken, generation, ready, pending, loop, inbox, srv, notes>>
      /\ asked' = asked \union {call[c].turn}
  BY DEF SendInterrupt
<1>5. k <= nextToken
  BY <1>2 DEF BaseInv, TokensAreOwn, TypeOK
<1>6. TokensAreOwn'
  BY <1>3, <1>4, <1>5 DEF BaseInv, TokensAreOwn, StartPhases
<1>7. ServerIsTrue'
  <2>1. \A e \in Calls : call'[e].pc \in Unsent => call[e].pc \in Unsent /\ call'[e].token = call[e].token
    BY <1>3 DEF Unsent
  <2>2. \A e \in Calls : call'[e].pc = "replied" => call[e] = call'[e]
    BY <1>3
  <2> QED BY <1>4, <2>1, <2>2, KnownMoves, ServerMove, SrvSame DEF BaseInv, ServerIsTrue
<1>8. NotesAreTrue' /\ PendingIsTrue'
  BY <1>4, NotesMove, PendingMove, PendingKept, SrvSame DEF BaseInv
<1>9. InterruptIsTrue'
  BY <1>1, <1>2, <1>3, <1>4 DEF BaseInv, InterruptIsTrue
<1> QED BY <1>6, <1>7, <1>8, <1>9 DEF BaseInv

\* The notification that is received is true.
LEMMA HeadIsTrue ==
  ASSUME TypeOK, BaseInv, NEW m, Receive(m), m # "violation"
  PROVE  /\ srv[Head(notes).turn].st # "unused"
         /\ m = "completed" => srv[Head(notes).turn].st = "ended"
         /\ Tail(notes) = Tail(notes) /\ 1 \in 1..Len(notes) /\ Head(notes) = notes[1]
<1>1. notes \in Seq(Notification) /\ notes # <<>>
  BY DEF TypeOK, ServerType, Receive
<1>2. 1 \in 1..Len(notes) /\ Head(notes) = notes[1]
  BY <1>1
<1> QED BY <1>2 DEF Receive, BaseInv, NotesAreTrue, NoteIsTrue

\* BaseInv survives TurnStarted.
LEMMA BaseStarted == ASSUME TypeOK, TypeOK', BaseInv, TurnStarted PROVE BaseInv'
<1> DEFINE t == Head(notes).turn
           th == srv[t].thread
<1>1. t \in Turns /\ srv[t].st # "unused" /\ loop.rollback = 0 /\ notes # <<>>
  BY HeadType, HeadIsTrue DEF TurnStarted, Receive, IdleLoop
<1>2. ASSUME pending # None, CanConfirm(generation, pending.token, th, t),
             pending' = [pending EXCEPT !.turn = t], notes' = Tail(notes),
             UNCHANGED <<generation, ready, inbox, srv, asked, nextToken, call, loop>>
      PROVE  BaseInv'
  <2>1. /\ pending'.token = pending.token /\ pending'.thread = th /\ pending'.turn = t
        /\ pending'.terminal = pending.terminal /\ pending.turn \in {0, t} /\ pending.token # 0
    BY <1>2 DEF CanConfirm, TypeOK, SessionType, PendingStart
  <2>2. TokensAreOwn'
    BY <1>2, <2>1 DEF BaseInv, TokensAreOwn
  <2>3. ServerIsTrue' /\ NotesAreTrue'
    BY <1>1, <1>2, ServerMove, NotesMove, SrvSame, CallMovesKnown, CallStays DEF BaseInv, ServerIsTrue
  <2>4. PendingIsTrue'
    BY <1>1, <1>2, <2>1 DEF BaseInv, PendingIsTrue
  <2>5. InterruptIsTrue'
    BY <1>2, <2>1 DEF BaseInv, InterruptIsTrue
  <2> QED BY <2>2, <2>3, <2>4, <2>5 DEF BaseInv
<1>3. ASSUME UNCHANGED <<conn, session, work, inbox, srv, asked, nextToken, call, loop>>,
             notes' = Tail(notes)
      PROVE  BaseInv'
  BY <1>1, <1>3, QuietBase, QuietSame, CallStays, PendingKept
<1>4. ASSUME Teardown, UNCHANGED <<nextToken, call, loop>> PROVE BaseInv'
  BY <1>4, QuietBase, QuietGone
<1> QED BY <1>2, <1>3, <1>4 DEF TurnStarted

\* BaseInv survives TurnCompleted: what is over for the start is over.
LEMMA BaseCompleted == ASSUME TypeOK, TypeOK', BaseInv, TurnCompleted PROVE BaseInv'
<1> DEFINE t == Head(notes).turn
           ok == Head(notes).ok
           th == srv[t].thread
           mine == pending # None /\ pending.thread = th /\ pending.turn = t
<1>1. t \in Turns /\ srv[t].st = "ended" /\ loop.rollback = 0 /\ notes # <<>> /\ 0 <= nextToken
  BY HeadType, HeadIsTrue DEF TurnCompleted, Receive, IdleLoop, TypeOK
<1>2. UNCHANGED <<generation, ready, inbox, srv, asked, nextToken, call>> /\ notes' = Tail(notes)
  BY DEF TurnCompleted
<1>3. loop'.rollback = IF mine /\ ~ok THEN pending.token ELSE 0
  BY DEF TurnCompleted
<1>4. ServerIsTrue' /\ NotesAreTrue'
  BY <1>1, <1>2, ServerMove, NotesMove, SrvSame, CallMovesKnown, CallStays DEF BaseInv, ServerIsTrue
<1>5. CASE ~mine
  <2>1. pending' = pending /\ loop'.rollback = 0
    BY <1>3, <1>5 DEF TurnCompleted
  <2> QED BY <1>2, <1>4, <2>1, TokensMove, PendingMove, InterruptMove, PendingKept, CallStays, SrvSame
          DEF BaseInv
<1>6. CASE mine
  <2>0. pending \in PendingStart /\ pending # None
    BY <1>6 DEF TypeOK, SessionType
  <2>1. \A p \in PendingStart : \A a, b :
          LET q == [p EXCEPT !.terminal = a, !.leased = b] IN
          q.token = p.token /\ q.turn = p.turn /\ q.thread = p.thread
    BY DEF PendingStart
  <2>2. PICK a, b : pending' = [pending EXCEPT !.terminal = a, !.leased = b]
    BY <1>6 DEF TurnCompleted
  <2>3. /\ pending'.token = pending.token /\ pending'.turn = t /\ pending.turn = t
        /\ pending'.thread = th /\ pending.token \in Nat
    BY <1>6, <2>0, <2>1, <2>2 DEF PendingStart
  <2>4. TokensAreOwn'
    BY <1>1, <1>2, <1>3, <2>0, <2>3 DEF BaseInv, TokensAreOwn
  <2>5. PendingIsTrue'
    BY <1>1, <1>2, <2>3 DEF PendingIsTrue
  <2>6. InterruptIsTrue'
    BY <1>2, <2>0, <2>3 DEF BaseInv, InterruptIsTrue
  <2> QED BY <1>4, <2>4, <2>5, <2>6 DEF BaseInv
<1> QED BY <1>5, <1>6

\* BaseInv survives Reconnect: no command is of the generation that begins.
LEMMA BaseReconnect == ASSUME TypeOK, TypeOK', BaseInv, Reconnect PROVE BaseInv'
<1>1. PICK n \in Nat : generation = n /\ generation' = n + 1
  BY DEF Reconnect, TypeOK
<1>2. /\ pending' = None /\ ready' = TRUE
      /\ UNCHANGED <<nextToken, call, loop, inbox, srv, notes, asked>>
  BY DEF Reconnect
<1>3. \A c \in Calls : call[c].gen <= n /\ call[c].gen \in Nat
  BY <1>1 DEF BaseInv, TokensAreOwn, TypeOK, CallType, Command
<1>4. \A c \in Calls : call[c].gen <= n + 1 /\ call[c].gen # n + 1
  BY <1>3
<1>5. TokensAreOwn'
  BY <1>1, <1>2, <1>4 DEF BaseInv, TokensAreOwn
<1>6. ServerIsTrue' /\ NotesAreTrue' /\ PendingIsTrue'
  BY <1>2, ServerMove, NotesMove, SrvSame, CallMovesKnown, CallStays DEF BaseInv, PendingIsTrue
<1>7. InterruptIsTrue'
  BY <1>1, <1>2, <1>4 DEF BaseInv, InterruptIsTrue
<1> QED BY <1>5, <1>6, <1>7 DEF BaseInv

-----------------------------------------------------------------------------
(* BaseInv, the steps of the server.                                       *)

\* A notification that is true and new can be appended.
LEMMA NotesAppend ==
  ASSUME TypeOK, NotesAreTrue, SrvGrows, NEW n \in Notification, notes' = Append(notes, n),
         n.m # "violation" => n.turn \in Turns /\ srv'[n.turn].st # "unused",
         n.m = "completed" => srv'[n.turn].st = "ended",
         n.m \in {"started", "decision"} => n.ok,
         n.m \in {"decision", "completed"} => \A i \in 1..Len(notes) : ~Tells(i, n.m, n.turn)
  PROVE  NotesAreTrue'
<1>1. /\ notes \in Seq(Notification) /\ Len(notes) \in Nat /\ Len(notes') = Len(notes) + 1
      /\ \A i \in 1..Len(notes) : notes'[i] = notes[i] /\ notes[i] \in Notification
      /\ notes'[Len(notes) + 1] = n
  BY DEF TypeOK, ServerType
<1>2. PICK l \in Nat : l = Len(notes) /\ Len(notes') = l + 1
  BY <1>1
<1>3. \A i \in 1..l+1 : i \in 1..l \/ i = l + 1
  OBVIOUS
<1>4. \A i \in 1..l : notes[i].m # "violation" => notes[i].turn \in Turns
  BY <1>1, <1>2 DEF Notification
<1>5. ASSUME NEW i \in 1..l+1
      PROVE  /\ notes'[i].m # "violation" => srv'[notes'[i].turn].st # "unused"
             /\ notes'[i].m = "completed" => srv'[notes'[i].turn].st = "ended"
             /\ notes'[i].m \in {"started", "decision"} => notes'[i].ok
  <2>1. CASE i = l + 1
    BY <1>1, <1>2, <2>1
  <2>2. CASE i \in 1..l
    BY <1>1, <1>2, <1>4, <2>2 DEF NotesAreTrue, NoteIsTrue, SrvGrows
  <2> QED BY <1>3, <2>1, <2>2
<1>6. ASSUME NEW i \in 1..l+1, NEW j \in 1..l+1, notes'[i].m \in {"decision", "completed"},
             notes'[j].m = notes'[i].m, notes'[j].turn = notes'[i].turn
      PROVE  i = j
  <2>1. CASE i \in 1..l /\ j \in 1..l
    BY <1>1, <1>2, <1>6, <2>1 DEF NotesAreTrue, Tells
  <2>2. CASE i = l + 1 /\ j \in 1..l
    BY <1>1, <1>2, <1>6, <2>2 DEF Tells
  <2>3. CASE j = l + 1 /\ i \in 1..l
    BY <1>1, <1>2, <1>6, <2>3 DEF Tells
  <2> QED BY <1>3, <2>1, <2>2, <2>3
<1> QED BY <1>2, <1>5, <1>6 DEF NotesAreTrue, NoteIsTrue, Tells

\* BaseInv survives the beginning of a turn.
LEMMA BaseServerStart ==
  ASSUME TypeOK, TypeOK', BaseInv, NEW r \in inbox, NEW t \in Turns, ServerStart(r, t)
  PROVE  BaseInv'
<1>1. r \in [token : Tokens, thread : Threads, turn : Turns \union {0}] /\ srv[t].st = "unused"
  BY DEF ServerStart, TypeOK, ServerType
<1>2. /\ srv'[t].st = "running" /\ srv'[t].token = r.token
      /\ \A u \in Turns : u # t => srv'[u] = srv[u]
      /\ UNCHANGED <<nextToken, generation, ready, pending, call, loop, asked>> /\ ready
  BY DEF ServerStart, TypeOK, ServerType
<1>3. SrvGrows
  BY <1>1, <1>2 DEF SrvGrows
<1>4. TokensAreOwn' /\ PendingIsTrue' /\ InterruptIsTrue'
  BY <1>2, <1>3, TokensMove, PendingMove, InterruptMove, PendingKept, CallStays DEF BaseInv
<1>5. NotesAreTrue'
  <2> DEFINE n == Note("started", t, TRUE)
  <2>1. n \in Notification /\ n.m = "started" /\ n.turn = t /\ n.ok
    BY DEF Note, Notification
  <2> HIDE DEF n
  <2> QED BY <1>2, <1>3, <2>1, NotesAppend DEF BaseInv, ServerStart, n
<1>6. ServerIsTrue'
  <2>1. \A k : Known(k) => Known(k)'
    BY <1>2, CallMovesKnown, CallStays
  <2>2. PICK k : k = r.token /\ Known(k) /\ Known(k)'
    BY <2>1 DEF BaseInv, ServerIsTrue
  <2>3. ASSUME NEW u \in Turns, srv'[u].st # "unused" PROVE Known(srv[u].token)'
    <3>1. PICK n : n = srv'[u].token
      OBVIOUS
    <3>2. Known(n)'
      BY <1>2, <2>1, <2>2, <2>3, <3>1 DEF BaseInv, ServerIsTrue
    <3> QED BY <3>1, <3>2 DEF Known
  <2>4. ASSUME NEW q \in inbox' 
        PROVE  Known(q.token)' /\ (q.turn # 0 => srv'[q.turn].st # "unused" /\ srv'[q.turn].token = q.token)
    <3>1. CASE q \in inbox
      <4>1. Known(q.token)' /\ q.turn \in Turns \union {0}
        BY <2>1, <3>1 DEF BaseInv, ServerIsTrue, TypeOK, ServerType
      <4> QED BY <1>1, <1>2, <3>1, <4>1 DEF BaseInv, ServerIsTrue
    <3>2. CASE q = [r EXCEPT !.turn = t]
      <4>1. q.token = k /\ q.turn = t
        BY <1>1, <2>2, <3>2
      <4> QED BY <1>2, <2>2, <4>1
    <3> QED BY <3>1, <3>2 DEF ServerStart
  <2>5. ASSUME NEW c \in Calls, call[c].pc = "replied"
        PROVE  srv'[call[c].turn].st # "unused" /\ srv'[call[c].turn].token = call[c].token
    <3>1. call[c].turn \in Turns
      BY <2>5 DEF TypeOK, CallType
    <3> QED BY <1>3, <2>5, <3>1 DEF SrvGrows, BaseInv, ServerIsTrue
  <2> QED BY <1>2, <2>3, <2>4, <2>5 DEF ServerIsTrue
<1> QED BY <1>4, <1>5, <1>6 DEF BaseInv

\* BaseInv survives a response: it reaches the command that sent the token.
LEMMA BaseRespond ==
  ASSUME TypeOK, TypeOK', BaseInv, NEW r \in inbox, ServerRespond(r)
  PROVE  BaseInv'
<1>1. r \in [token : Tokens, thread : Threads, turn : Turns \union {0}]
  BY DEF TypeOK, ServerType
<1>2. UNCHANGED <<nextToken, generation, ready, pending, loop, srv, asked>> /\ inbox' \subseteq inbox
      /\ ready
  BY DEF ServerRespond
<1>3. ASSUME NEW c \in Calls
      PROVE  \/ call'[c] = call[c]
             \/ /\ call[c].pc = "sent" /\ call[c].token = r.token /\ call'[c].token = call[c].token
                /\ call'[c].gen = call[c].gen
                /\ \/ call'[c].pc = "failed"
                   \/ call'[c].pc = "replied" /\ r.turn # 0 /\ call'[c].turn = r.turn
  <2>1. call[c] \in Command
    BY DEF TypeOK, CallType
  <2>2. call'[c] = IF c \notin Waiting(r.token) THEN call[c]
                   ELSE IF r.turn = 0 THEN [call[c] EXCEPT !.pc = "failed"]
                   ELSE [call[c] EXCEPT !.pc = "replied", !.turn = r.turn]
    BY DEF ServerRespond
  <2> QED BY <2>1, <2>2 DEF Waiting, Command
<1>4. \A c \in Calls : call'[c].pc \in StartPhases =>
        call[c].pc \in StartPhases /\ call'[c].token = call[c].token
  BY <1>3 DEF StartPhases
<1>5. TokensAreOwn'
  BY <1>2, <1>3, <1>4 DEF BaseInv, TokensAreOwn
<1>6. NotesAreTrue'
  <2>1. CASE notes' = notes
    BY <1>2, <2>1, NotesMove, SrvSame DEF BaseInv
  <2>2. CASE notes' = Append(notes, Note("violation", 0, TRUE))
    <3> DEFINE n == Note("violation", 0, TRUE)
    <3>1. n \in Notification /\ n.m = "violation"
      BY DEF Note, Notification
    <3> HIDE DEF n
    <3> QED BY <1>2, <2>2, <3>1, NotesAppend, SrvSame DEF BaseInv, n
  <2> QED BY <2>1, <2>2 DEF ServerRespond
<1>7. PendingIsTrue'
  BY <1>2, PendingMove, PendingKept, SrvSame DEF BaseInv
<1>8. InterruptIsTrue'
  <2>1. \A c \in Calls : call'[c].pc = "interruptSent" => call'[c] = call[c]
    BY <1>3
  <2> QED BY <1>2, <2>1 DEF BaseInv, InterruptIsTrue
<1>9. ServerIsTrue'
  <2>1. \A k : Known(k) => Known(k)'
    <3>1. \A c \in Calls : call'[c].pc \in Unsent => call[c].pc \in Unsent /\ call'[c].token = call[c].token
      BY <1>3 DEF Unsent
    <3> QED BY <1>2, <3>1, KnownMoves
  <2>2. \A t \in Turns : srv'[t].st # "unused" => Known(srv[t].token)'
    <3> SUFFICES ASSUME NEW t \in Turns, srv'[t].st # "unused" PROVE Known(srv[t].token)'
      OBVIOUS
    <3>1. PICK n : n = srv'[t].token
      OBVIOUS
    <3>2. Known(n)'
      BY <1>2, <2>1, <3>1 DEF BaseInv, ServerIsTrue
    <3> QED BY <3>1, <3>2 DEF Known
  <2>3. \A q \in inbox' : Known(q.token)' /\ (q.turn # 0 => srv[q.turn].st # "unused" /\ srv[q.turn].token = q.token)
    BY <1>2, <2>1 DEF BaseInv, ServerIsTrue
  <2>4. ASSUME NEW c \in Calls, call'[c].pc = "replied"
        PROVE  srv[call'[c].turn].st # "unused" /\ srv[call'[c].turn].token = call'[c].token
    <3>1. CASE call'[c] = call[c]
      BY <2>4, <3>1 DEF BaseInv, ServerIsTrue
    <3>2. CASE call'[c].turn = r.turn /\ call'[c].token = r.token /\ r.turn # 0
      BY <3>2 DEF BaseInv, ServerIsTrue
    <3> QED BY <1>3, <2>4, <3>1, <3>2
  <2> QED BY <1>2, <2>2, <2>3, <2>4 DEF BaseInv, ServerIsTrue
<1> QED BY <1>5, <1>6, <1>7, <1>8, <1>9 DEF BaseInv

\* BaseInv survives the card and the end of a turn, which are told once.
LEMMA BaseTells ==
  ASSUME TypeOK, TypeOK', BaseInv, NEW t \in Turns,
         ServerDecision(t) \/ (\E ok \in BOOLEAN : ServerEnd(t, ok))
  PROVE  BaseInv'
<1>1. /\ UNCHANGED <<nextToken, generation, ready, pending, call, loop, inbox, asked>> /\ ready
      /\ srv[t].st = "running"
  BY DEF ServerDecision, ServerEnd
<1>2. SrvGrows /\ \A u \in Turns : srv'[u].st # "unused" => srv[u].st # "unused"
  <2>1. CASE srv' = srv
    BY <2>1, SrvSame
  <2>2. CASE srv' = [srv EXCEPT ![t].st = "ended"]
    <3>1. /\ srv'[t].st = "ended" /\ srv'[t].token = srv[t].token /\ srv'[t].thread = srv[t].thread
          /\ \A u \in Turns : u # t => srv'[u] = srv[u]
      BY <2>2 DEF TypeOK, ServerType
    <3> QED BY <1>1, <3>1 DEF SrvGrows
  <2> QED BY <2>1, <2>2 DEF ServerDecision, ServerEnd
<1>3. TokensAreOwn' /\ PendingIsTrue' /\ InterruptIsTrue'
  BY <1>1, <1>2, TokensMove, PendingMove, InterruptMove, PendingKept, CallStays DEF BaseInv
<1>4. ServerIsTrue'
  BY <1>1, <1>2, ServerMove, CallMovesKnown, CallStays DEF BaseInv
<1>5. NotesAreTrue'
  <2>1. CASE ServerDecision(t)
    <3> DEFINE n == Note("decision", t, TRUE)
    <3>1. n \in Notification /\ n.m = "decision" /\ n.turn = t /\ n.ok
      BY DEF Note, Notification
    <3>2. ASSUME NEW i \in 1..Len(notes), Tells(i, "decision", t) PROVE FALSE
      <4>0. notes[i] \in Notification
        BY DEF TypeOK, ServerType
      <4>1. notes[i].ok = TRUE
        BY <3>2, <4>0 DEF BaseInv, NotesAreTrue, NoteIsTrue, Tells, Notification
      <4>2. notes[i] = [m |-> "decision", turn |-> t, ok |-> TRUE]
        BY <3>2, <4>0, <4>1 DEF Tells, Notification
      <4> QED BY <2>1, <4>2 DEF ServerDecision, Note
    <3>3. notes' = Append(notes, n) /\ srv' = srv
      BY <2>1 DEF ServerDecision
    <3> HIDE DEF n
    <3> QED BY <1>1, <1>2, <3>1, <3>2, <3>3, NotesAppend DEF BaseInv
  <2>2. ASSUME NEW ok \in BOOLEAN, ServerEnd(t, ok) PROVE NotesAreTrue'
    <3> DEFINE n == Note("completed", t, ok)
    <3>1. n \in Notification /\ n.m = "completed" /\ n.turn = t
      BY DEF Note, Notification
    <3>2. \A i \in 1..Len(notes) : ~Tells(i, "completed", t)
      BY <1>1 DEF BaseInv, NotesAreTrue, NoteIsTrue, Tells
    <3>3. notes' = Append(notes, n) /\ srv'[t].st = "ended"
      BY <2>2 DEF ServerEnd, TypeOK, ServerType
    <3> HIDE DEF n
    <3> QED BY <1>2, <3>1, <3>2, <3>3, NotesAppend DEF BaseInv
  <2> QED BY <2>1, <2>2
<1> QED BY <1>3, <1>4, <1>5 DEF BaseInv

\* BaseInv survives every step.
LEMMA BaseStep == TypeOK /\ TypeOK' /\ BaseInv /\ [Next]_vars => BaseInv'
<1> SUFFICES ASSUME TypeOK, TypeOK', BaseInv, [Next]_vars PROVE BaseInv'
  OBVIOUS
<1>1. ASSUME NEW c \in Calls, Issue(c) \/ CallStep(c) PROVE BaseInv'
  BY <1>1, QuietBase, QuietCommand, QuietStart, QuietGone, BaseStart, BaseSend, BaseInterrupt
     DEF CallStep
<1>2. CASE LoopStep
  BY <1>2, QuietBase, QuietOther, QuietGone, BaseStarted, BaseCompleted DEF LoopStep
<1>3. CASE ServerStep
  BY <1>3, BaseServerStart, BaseRespond, BaseTells DEF ServerStep
<1>4. CASE UNCHANGED vars
  BY <1>4, QuietBase, QuietSame, CallStays, PendingKept DEF vars
<1> QED BY <1>1, <1>2, <1>3, <1>4, QuietBase, QuietOther, QuietGone, BaseReconnect DEF Next

\* BaseInv holds before anything has happened.
LEMMA BaseInit == Init => BaseInv
<1> SUFFICES ASSUME Init PROVE BaseInv
  OBVIOUS
<1>1. TokensAreOwn
  BY DEF Init, TokensAreOwn, NoCall, IdleLoop, StartPhases
<1>2. ServerIsTrue
  BY DEF Init, ServerIsTrue, NoCall, NoTurn
<1>3. NotesAreTrue /\ PendingIsTrue /\ InterruptIsTrue
  BY DEF Init, NotesAreTrue, PendingIsTrue, InterruptIsTrue, NoCall
<1> QED BY <1>1, <1>2, <1>3 DEF BaseInv

-----------------------------------------------------------------------------
(* Decisions: a claim has its continuation, and an outcome is told once.   *)

\* A continuation has its claim, of a turn that has ended.
ContinuationHasClaim ==
  pending # None /\ pending.decision # 0 =>
    /\ decision[pending.decision].st = "claimed" /\ decision[pending.decision].done
    /\ decision[pending.decision].claim = pending.token
ClaimIsPending ==
  ready => \A t \in Turns : decision[t].st = "claimed" => pending # None /\ pending.decision = t

\* A decision that is there, or is about to be, has no outcome yet.
OpenHasNoOutcome ==
  \A t \in Turns : /\ outcomes[t] <= 1
                   /\ decision[t].st # "absent" => outcomes[t] = 0
                   /\ decision[t].done => decision[t].st # "absent" /\ srv[t].st = "ended"
NotedHasNoOutcome ==
  \A i \in 1..Len(notes) :
    /\ notes[i].m = "decision" =>
         decision[notes[i].turn].st = "absent" /\ outcomes[notes[i].turn] = 0
    /\ notes[i].m = "completed" => ~decision[notes[i].turn].done

DecisionInv == ContinuationHasClaim /\ ClaimIsPending /\ OpenHasNoOutcome /\ NotedHasNoOutcome

\* DecisionInv says what the run checks.
LEMMA DecisionInvSays == ASSUME TypeOK, DecisionInv PROVE DecisionsAreSound
<1>1. ClaimHasContinuation
  BY DEF ClaimHasContinuation, DecisionInv, ContinuationHasClaim, ClaimIsPending, TypeOK,
         SessionType, PendingStart
<1>2. OneOutcome
  BY DEF OneOutcome, DecisionInv, OpenHasNoOutcome
<1> QED BY <1>1, <1>2 DEF DecisionsAreSound

\* Every notification is one that was there or says nothing of a decision.
NotesFrom ==
  \A i \in 1..Len(notes') :
    \/ notes'[i].m \in {"started", "violation"}
    \/ \E j \in 1..Len(notes) : notes'[i] = notes[j]

\* Taking the first notification, or all of them, makes none.
LEMMA NotesTaken ==
  ASSUME TypeOK, notes' = notes \/ notes' = <<>> \/ (notes # <<>> /\ notes' = Tail(notes))
  PROVE  NotesFrom
<1>1. CASE notes' = notes
  BY <1>1 DEF NotesFrom
<1>2. CASE notes' = <<>>
  BY <1>2 DEF NotesFrom
<1>3. CASE notes # <<>> /\ notes' = Tail(notes)
  <2>1. \A i \in 1..Len(notes') : notes'[i] = notes[i + 1] /\ i + 1 \in 1..Len(notes)
    BY <1>3 DEF TypeOK, ServerType
  <2> QED BY <2>1 DEF NotesFrom
<1> QED BY <1>1, <1>2, <1>3

\* Decisions are dropped, without an outcome or with the one that was still due.
LEMMA DecisionDrop ==
  ASSUME TypeOK, DecisionInv, SrvGrows, NotesFrom,
         \A t \in Turns :
           \/ decision'[t] = decision[t] /\ outcomes'[t] = outcomes[t]
           \/ decision'[t] = NoDecision /\ outcomes'[t] = outcomes[t]
           \/ /\ decision[t].st # "absent" /\ decision'[t] = NoDecision
              /\ outcomes'[t] = outcomes[t] + 1,
         pending' # None =>
           /\ pending # None /\ pending'.token = pending.token
           /\ pending'.decision = pending.decision
           /\ pending.decision # 0 => decision'[pending.decision] = decision[pending.decision],
         ready' => \A t \in Turns : decision'[t].st = "claimed" =>
           pending' # None /\ pending'.decision = t
  PROVE  DecisionInv'
<1>0. NoDecision.st = "absent" /\ NoDecision.done = FALSE
  BY DEF NoDecision
<1>1. ContinuationHasClaim'
  BY DEF ContinuationHasClaim, DecisionInv
<1>2. ClaimIsPending'
  BY DEF ClaimIsPending
<1>3. OpenHasNoOutcome'
  <2> SUFFICES ASSUME NEW t \in Turns
               PROVE  /\ outcomes'[t] <= 1
                      /\ decision'[t].st # "absent" => outcomes'[t] = 0
                      /\ decision'[t].done => decision'[t].st # "absent" /\ srv'[t].st = "ended"
    BY DEF OpenHasNoOutcome
  <2>1. /\ outcomes[t] <= 1
        /\ decision[t].st # "absent" => outcomes[t] = 0
        /\ decision[t].done => decision[t].st # "absent" /\ srv[t].st = "ended"
    BY DEF DecisionInv, OpenHasNoOutcome
  <2>2. srv[t].st = "ended" => srv'[t].st = "ended"
    BY DEF SrvGrows
  <2>3. CASE decision'[t] = decision[t] /\ outcomes'[t] = outcomes[t]
    BY <2>1, <2>2, <2>3
  <2>4. CASE decision'[t] = NoDecision /\ outcomes'[t] = outcomes[t]
    BY <1>0, <2>1, <2>4
  <2>5. CASE decision[t].st # "absent" /\ decision'[t] = NoDecision /\ outcomes'[t] = outcomes[t] + 1
    <3>1. outcomes'[t] = 1
      BY <2>1, <2>5
    <3> QED BY <1>0, <2>5, <3>1
  <2> QED BY <2>3, <2>4, <2>5
<1>4. NotedHasNoOutcome'
  <2> SUFFICES ASSUME NEW i \in 1..Len(notes'), notes'[i].m \notin {"started", "violation"}
               PROVE  /\ notes'[i].m = "decision" =>
                           decision'[notes'[i].turn].st = "absent" /\ outcomes'[notes'[i].turn] = 0
                      /\ notes'[i].m = "completed" => ~decision'[notes'[i].turn].done
    BY DEF NotedHasNoOutcome
  <2>1. PICK j \in 1..Len(notes) : notes'[i] = notes[j]
    BY DEF NotesFrom
  <2>2. notes[j] \in Notification
    BY DEF TypeOK, ServerType
  <2>3. notes[j].turn \in Turns
    BY <2>1, <2>2 DEF Notification
  <2>4. /\ notes[j].m = "decision" => decision[notes[j].turn].st = "absent" /\ outcomes[notes[j].turn] = 0
        /\ notes[j].m = "completed" => ~decision[notes[j].turn].done
    BY DEF DecisionInv, NotedHasNoOutcome
  <2> QED BY <1>0, <2>1, <2>3, <2>4
<1> QED BY <1>1, <1>2, <1>3, <1>4 DEF DecisionInv

\* A step that leaves the decisions and the continuation alone.
LEMMA DecisionKept ==
  ASSUME TypeOK, DecisionInv, UNCHANGED <<decision, outcomes>>, SrvGrows, NotesFrom,
         pending' # None => /\ pending # None /\ pending'.token = pending.token
                            /\ pending'.decision = pending.decision,
         ready' => ready /\ (pending # None => pending' # None)
  PROVE  DecisionInv'
BY DecisionDrop DEF DecisionInv, ClaimIsPending

\* The end of a start completes its claim, if it has one.
LEMMA DecisionRollback ==
  ASSUME TypeOK, DecisionInv, NEW p \in PendingStart, pending # None,
         p.decision = pending.decision, p.token = pending.token, pending' = None,
         decision' = WithoutClaim(p), outcomes' = Told(p), SrvGrows, NotesFrom, ready' => ready
  PROVE  DecisionInv'
<1>1. p.decision \in Turns \union {0} /\ decision \in [Turns -> Decision] /\ outcomes \in [Turns -> Nat]
  BY DEF PendingStart, TypeOK, SessionType
<1>2. CASE p.decision = 0
  <2>1. decision' = decision /\ outcomes' = outcomes
    BY <1>2 DEF WithoutClaim, Told
  <2>2. ready' => \A t \in Turns : decision'[t].st # "claimed"
    BY <1>2, <2>1 DEF DecisionInv, ClaimIsPending
  <2> QED BY <2>1, <2>2, DecisionDrop
<1>3. CASE p.decision # 0
  <2>1. decision[p.decision].st = "claimed" /\ decision[p.decision].claim = p.token
    BY <1>3 DEF DecisionInv, ContinuationHasClaim
  <2>2. /\ decision'[p.decision] = NoDecision /\ outcomes'[p.decision] = outcomes[p.decision] + 1
        /\ \A t \in Turns : t # p.decision => decision'[t] = decision[t] /\ outcomes'[t] = outcomes[t]
    BY <1>1, <1>3, <2>1 DEF WithoutClaim, Told
  <2>3. ready' => \A t \in Turns : decision'[t].st # "claimed"
    BY <2>2 DEF DecisionInv, ClaimIsPending, NoDecision
  <2> QED BY <2>1, <2>2, <2>3, DecisionDrop
<1> QED BY <1>2, <1>3

\* rollback_pending_turn_start, whether it finds its start or not.
LEMMA DecisionRollbackOr ==
  ASSUME TypeOK, DecisionInv, NEW g, NEW k, NEW interrupt, Rollback(g, k, interrupt),
         SrvGrows, NotesFrom, UNCHANGED ready
  PROVE  DecisionInv'
<1>1. CASE generation = g /\ pending # None /\ pending.token = k
  <2>1. pending \in PendingStart
    BY <1>1 DEF TypeOK, SessionType
  <2> QED BY <1>1, <2>1, DecisionRollback DEF Rollback, RollbackOf
<1>2. CASE ~(generation = g /\ pending # None /\ pending.token = k)
  BY <1>2, DecisionKept DEF Rollback
<1> QED BY <1>1, <1>2

-----------------------------------------------------------------------------
(* DecisionInv, step by step.                                              *)

\* The first section of a command drops the decisions of another session.
LEMMA DecisionIssue == ASSUME TypeOK, DecisionInv, NEW c \in Calls, Issue(c) PROVE DecisionInv'
<1>1. PICK w \in Workspaces : Activate(w)
  BY DEF Issue, ReadyContext
<1>2. UNCHANGED <<ready, pending, outcomes, srv, notes>>
  BY DEF Issue, ReadyContext
<1>3. SrvGrows /\ NotesFrom
  BY <1>2, SrvSame, NotesTaken
<1>4. CASE decision' = decision
  BY <1>2, <1>3, <1>4, DecisionKept
<1>5. CASE decision' = NoDecisions /\ pending = None
  <2>1. \A t \in Turns : decision'[t] = NoDecision /\ decision'[t].st # "claimed"
    BY <1>5 DEF NoDecisions, NoDecision
  <2> QED BY <1>2, <1>3, <1>5, <2>1, DecisionDrop
<1> QED BY <1>1, <1>4, <1>5 DEF Activate, Busy

\* A step that changes neither decisions nor notifications nor what is pending.
LEMMA DecisionSame ==
  ASSUME TypeOK, DecisionInv, UNCHANGED <<ready, pending, decision, outcomes, srv, notes>>
  PROVE  DecisionInv'
BY DecisionKept, SrvSame, NotesTaken

\* A pending start with another lease, turn or end is still a pending start.
LEMMA PendingRecord ==
  ASSUME NEW p \in PendingStart, NEW q,
         \/ \E b \in BOOLEAN : q = [p EXCEPT !.leased = b]
         \/ \E t \in Turns : q = [p EXCEPT !.turn = t]
         \/ \E a, b \in BOOLEAN : q = [p EXCEPT !.terminal = a, !.leased = b]
  PROVE  /\ q \in PendingStart /\ q # None /\ q.token = p.token /\ q.decision = p.decision
         /\ q.thread = p.thread /\ q.gen = p.gen /\ q.ws = p.ws
<1>1. CASE \E b \in BOOLEAN : q = [p EXCEPT !.leased = b]
  BY <1>1, PendingAssumption DEF PendingStart
<1>2. CASE \E t \in Turns : q = [p EXCEPT !.turn = t]
  BY <1>2, PendingAssumption DEF PendingStart
<1>3. CASE \E a, b \in BOOLEAN : q = [p EXCEPT !.terminal = a, !.leased = b]
  BY <1>3, PendingAssumption DEF PendingStart
<1> QED BY <1>1, <1>2, <1>3

\* Steps of the commands that leave the decisions alone, or end the server.
LEMMA DecisionCommand ==
  ASSUME TypeOK, DecisionInv, NEW c \in Calls,
         \/ CommandFails(c) \/ SendThread(c) \/ (\E th \in Threads : AcceptThread(c, th))
         \/ (\E listed \in SUBSET Threads : ListThreads(c, listed)) \/ PolicyStop(c)
         \/ BeginWorkUnit(c) \/ AttachWorkUnit(c) \/ Send(c) \/ Timeout(c) \/ SendInterrupt(c)
  PROVE  DecisionInv'
<1>1. CASE PolicyStop(c)
  <2>1. SrvGrows /\ NotesFrom
    BY <1>1, GoneGrows, NotesTaken DEF PolicyStop, ServerGone
  <2> QED BY <1>1, <2>1, DecisionKept DEF PolicyStop
<1>2. CASE AttachWorkUnit(c)
  <2>1. UNCHANGED <<ready, decision, outcomes, srv, notes>>
    BY <1>2 DEF AttachWorkUnit
  <2>2. CASE pending # None /\ pending' = [pending EXCEPT !.leased = TRUE]
    <3>1. pending \in PendingStart
      BY <2>2 DEF TypeOK, SessionType
    <3>2. pending'.token = pending.token /\ pending'.decision = pending.decision /\ pending' # None
      BY <2>2, <3>1, PendingRecord
    <3> QED BY <2>1, <2>2, <3>2, DecisionKept, SrvSame, NotesTaken
  <2> QED BY <1>2, <2>1, <2>2, DecisionSame DEF AttachWorkUnit
<1> QED BY <1>1, <1>2, DecisionSame
        DEF CommandFails, SendThread, AcceptThread, ListThreads, BeginWorkUnit, Send, Timeout,
            SendInterrupt

\* A reservation of turn_start has no decision, and there was no claim before.
LEMMA DecisionReserve == ASSUME TypeOK, DecisionInv, NEW c \in Calls, Reserve(c) PROVE DecisionInv'
<1>1. UNCHANGED <<ready, decision, outcomes, srv, notes>> /\ pending = None
  BY DEF Reserve, MayStart, Busy
<1>2. pending'.decision = 0
  BY DEF Reserve, Reservation
<1>3. ContinuationHasClaim' /\ ClaimIsPending'
  BY <1>1, <1>2 DEF DecisionInv, ContinuationHasClaim, ClaimIsPending
<1>4. OpenHasNoOutcome' /\ NotedHasNoOutcome'
  BY <1>1 DEF DecisionInv, OpenHasNoOutcome, NotedHasNoOutcome
<1> QED BY <1>3, <1>4 DEF DecisionInv

\* A claim is made with its continuation.
LEMMA DecisionClaim ==
  ASSUME TypeOK, TypeOK', DecisionInv, NEW c \in Calls, ClaimDecision(c)
  PROVE  DecisionInv'
<1> DEFINE d == call[c].turn
<1>1. d \in Turns /\ decision[d].st = "pending" /\ decision[d].done /\ pending = None
      /\ UNCHANGED <<ready, outcomes, srv, notes>>
  BY DEF ClaimDecision, MayStart, Busy, TypeOK, CallType
<1>2. pending' = Reservation(c, srv[d].thread, d)
  BY DEF ClaimDecision
<1>3. pending'.decision = d /\ pending'.token = nextToken + 1 /\ pending' \in PendingStart
  <2>1. pending'.decision = d /\ pending'.token = nextToken + 1
    BY <1>2 DEF Reservation
  <2>2. Reservation(c, srv[d].thread, d) \in PendingStart
    <3>0. nextToken + 1 \in Tokens
      BY TurnSessionAssumption DEF ClaimDecision, MayStart, TypeOK
    <3>1. /\ nextToken + 1 \in Tokens /\ call[c].gen \in Generations /\ call[c].ws \in Workspaces
      BY <3>0 DEF ClaimDecision, TypeOK, CallType
    <3>2. srv[d].thread \in Threads
      BY <1>1 DEF ClaimDecision, TypeOK, SessionType
    <3> QED BY <1>1, <3>1, <3>2 DEF Reservation, PendingStart
  <2> QED BY <1>2, <2>1, <2>2
<1>4. pending' # None
  BY <1>3, PendingAssumption
<1>5. decision' = [decision EXCEPT ![d].st = "claimed", ![d].claim = nextToken + 1]
  BY DEF ClaimDecision
<1>6. decision[d] \in Decision /\ decision \in [Turns -> Decision]
  BY <1>1 DEF TypeOK, SessionType
<1>7. /\ decision'[d].st = "claimed" /\ decision'[d].claim = nextToken + 1
      /\ decision'[d].done = decision[d].done
      /\ \A t \in Turns : t # d => decision'[t] = decision[t]
  BY <1>1, <1>5, <1>6 DEF Decision
<1> HIDE DEF d
<1>8. ContinuationHasClaim'
  BY <1>1, <1>3, <1>7 DEF ContinuationHasClaim
<1>9. ClaimIsPending'
  BY <1>1, <1>3, <1>4, <1>7 DEF DecisionInv, ClaimIsPending
<1>10. OpenHasNoOutcome'
  BY <1>1, <1>7 DEF DecisionInv, OpenHasNoOutcome
<1>11. NotedHasNoOutcome'
  <2> SUFFICES ASSUME NEW i \in 1..Len(notes)
               PROVE  /\ notes[i].m = "decision" =>
                           decision'[notes[i].turn].st = "absent" /\ outcomes[notes[i].turn] = 0
                      /\ notes[i].m = "completed" => ~decision'[notes[i].turn].done
    BY <1>1 DEF NotedHasNoOutcome
  <2>1. /\ notes[i].m = "decision" =>
             decision[notes[i].turn].st = "absent" /\ outcomes[notes[i].turn] = 0
        /\ notes[i].m = "completed" => ~decision[notes[i].turn].done
    BY DEF DecisionInv, NotedHasNoOutcome
  <2>2. notes[i] \in Notification
    BY DEF TypeOK, ServerType
  <2>3. notes[i].m \in {"decision", "completed"} => notes[i].turn \in Turns
    BY <2>2 DEF Notification
  <2> QED BY <1>1, <1>7, <2>1, <2>3
<1> QED BY <1>8, <1>9, <1>10, <1>11 DEF DecisionInv

\* The response completes the claim: a continuation that is pending has one.
LEMMA DecisionReplied ==
  ASSUME TypeOK, DecisionInv, NEW c \in Calls, StartReplied(c)
  PROVE  DecisionInv'
<1> DEFINE t == call[c].turn
           p == [pending EXCEPT !.turn = t]
           ok == CanConfirm(call[c].gen, call[c].token, call[c].thread, t)
<1>1. t \in Turns /\ UNCHANGED <<ready, srv, notes>>
  BY DEF StartReplied, TypeOK, CallType
<1>2. SrvGrows /\ NotesFrom
  BY <1>1, SrvSame, NotesTaken
<1>3. ok => pending # None /\ pending \in PendingStart
  BY DEF CanConfirm, TypeOK, SessionType
<1>4. ASSUME ok, decision' = WithoutClaim(pending), outcomes' = Told(pending), pending' = None
      PROVE  DecisionInv'
  BY <1>1, <1>2, <1>3, <1>4, DecisionRollback
<1>5. ASSUME ok, RollbackOf(p, Confirmed(t), Bound(t), TRUE) PROVE DecisionInv'
  <2>1. p \in PendingStart /\ p.decision = pending.decision /\ p.token = pending.token
    BY <1>1, <1>3, <1>5, PendingRecord
  <2>2. decision' = WithoutClaim(p) /\ outcomes' = Told(p) /\ pending' = None
    BY <1>5 DEF RollbackOf
  <2> QED BY <1>1, <1>2, <1>3, <1>5, <2>1, <2>2, DecisionRollback
<1>6. ASSUME Rollback(call[c].gen, call[c].token, TRUE) PROVE DecisionInv'
  BY <1>1, <1>2, <1>6, DecisionRollbackOr
<1> QED BY <1>4, <1>5, <1>6 DEF StartReplied

\* The other ends of a start complete its claim too.
LEMMA DecisionEnds ==
  ASSUME TypeOK, DecisionInv,
         (\E c \in Calls : StartFailed(c) \/ InterruptAcked(c)) \/ LoopRollback
  PROVE  DecisionInv'
<1>1. UNCHANGED <<ready, srv, notes>> /\ \E g, k : \E i \in BOOLEAN : Rollback(g, k, i)
  BY DEF StartFailed, InterruptAcked, LoopRollback
<1> QED BY <1>1, DecisionRollbackOr, SrvSame, NotesTaken

\* Losing the connection and reconnecting drop every decision.
LEMMA DecisionGone == ASSUME TypeOK, DecisionInv, Teardown \/ Reconnect PROVE DecisionInv'
<1>1. pending' = None /\ decision' = NoDecisions /\ outcomes' = outcomes
  BY DEF Teardown, Reconnect
<1>2. SrvGrows /\ NotesFrom
  BY GoneGrows, SrvSame, NotesTaken DEF Teardown, Reconnect, ServerGone
<1>3. \A t \in Turns : decision'[t] = NoDecision /\ decision'[t].st # "claimed"
  BY <1>1 DEF NoDecisions, NoDecision
<1> QED BY <1>1, <1>2, <1>3, DecisionDrop

\* A decision that expires is not being answered.
LEMMA DecisionExpires ==
  ASSUME TypeOK, DecisionInv, NEW t \in Turns, ExpireDecision(t)
  PROVE  DecisionInv'
<1>1. /\ decision[t].st = "pending" /\ decision'[t] = NoDecision
      /\ outcomes'[t] = outcomes[t] + 1
      /\ \A u \in Turns : u # t => decision'[u] = decision[u] /\ outcomes'[u] = outcomes[u]
      /\ UNCHANGED <<ready, pending, srv, notes>>
  BY DEF ExpireDecision, TypeOK, SessionType
<1>2. SrvGrows /\ NotesFrom
  BY <1>1, SrvSame, NotesTaken
<1>3. pending # None /\ pending.decision # 0 =>
        pending.decision \in Turns /\ decision[pending.decision].st = "claimed"
  BY DEF TypeOK, SessionType, PendingStart, DecisionInv, ContinuationHasClaim
<1>4. pending # None /\ pending.decision # 0 =>
        decision'[pending.decision] = decision[pending.decision]
  BY <1>1, <1>3
<1>5. ready => \A u \in Turns : decision'[u].st = "claimed" => pending # None /\ pending.decision = u
  BY <1>1 DEF DecisionInv, ClaimIsPending, NoDecision
<1> QED BY <1>1, <1>2, <1>4, <1>5, DecisionDrop

\* A decision too old to be claimed is dropped when no continuation is pending.
LEMMA DecisionTooOld ==
  ASSUME TypeOK, DecisionInv, NEW c \in Calls, ClaimExpired(c)
  PROVE  DecisionInv'
<1> DEFINE t == call[c].turn
<1>1. /\ \A u \in Turns : decision'[u] = decision[u] \/ decision'[u] = NoDecision
      /\ outcomes' = outcomes /\ pending = None /\ pending' = None
      /\ UNCHANGED <<ready, srv, notes>>
  BY DEF ClaimExpired, MayStart, Busy, TypeOK, SessionType
<1>2. SrvGrows /\ NotesFrom
  BY <1>1, SrvSame, NotesTaken
<1>3. ready => \A u \in Turns : decision'[u].st = "claimed" => pending # None /\ pending.decision = u
  BY <1>1 DEF DecisionInv, ClaimIsPending, NoDecision
<1> QED BY <1>1, <1>2, <1>3, DecisionDrop

\* A confirmation changes no decision.
LEMMA DecisionStarted == ASSUME TypeOK, DecisionInv, TurnStarted PROVE DecisionInv'
<1> DEFINE t == Head(notes).turn
           th == srv[t].thread
<1>1. t \in Turns /\ notes # <<>>
  BY HeadType DEF TurnStarted, Receive
<1>2. ASSUME pending # None, pending' = [pending EXCEPT !.turn = t], notes' = Tail(notes),
             UNCHANGED <<ready, decision, outcomes, srv>>
      PROVE  DecisionInv'
  <2>1. pending \in PendingStart
    BY <1>2 DEF TypeOK, SessionType
  <2>2. pending' # None /\ pending'.token = pending.token /\ pending'.decision = pending.decision
    BY <1>1, <1>2, <2>1, PendingRecord
  <2> QED BY <1>1, <1>2, <2>2, DecisionKept, SrvSame, NotesTaken
<1>3. ASSUME notes' = Tail(notes), UNCHANGED <<ready, pending, decision, outcomes, srv>>
      PROVE  DecisionInv'
  BY <1>1, <1>3, DecisionKept, SrvSame, NotesTaken
<1> QED BY <1>2, <1>3, DecisionGone DEF TurnStarted

\* Of the notifications that are left none is of the turn whose card or end was taken.
LEMMA RestIsOther ==
  ASSUME TypeOK, BaseInv, NEW m \in {"decision", "completed"}, Receive(m),
         notes' = Tail(notes)
  PROVE  /\ NotesFrom
         /\ \A i \in 1..Len(notes') : notes'[i].m = m => notes'[i].turn # Head(notes).turn
<1>1. notes # <<>> /\ Head(notes).m = m /\ notes \in Seq(Notification)
  BY DEF Receive, TypeOK, ServerType
<1>2. Head(notes) = notes[1] /\ 1 \in 1..Len(notes)
  BY <1>1
<1>3. \A i \in 1..Len(notes') : notes'[i] = notes[i + 1] /\ i + 1 \in 1..Len(notes) /\ i + 1 # 1
  BY <1>1
<1>4. ASSUME NEW i \in 1..Len(notes'), notes'[i].m = m, notes'[i].turn = Head(notes).turn
      PROVE  FALSE
  <2>1. Tells(i + 1, notes[1].m, notes[1].turn) /\ i + 1 \in 1..Len(notes) /\ i + 1 # 1
    BY <1>1, <1>2, <1>3, <1>4 DEF Tells
  <2> QED BY <1>1, <1>2, <2>1 DEF BaseInv, NotesAreTrue
<1> QED BY <1>1, <1>4, NotesTaken

\* What a notification says of a decision, when it is one of those that were there.
LEMMA NotedFrom ==
  ASSUME TypeOK, DecisionInv, NotesFrom, NEW i \in 1..Len(notes')
  PROVE  /\ notes'[i].m \in {"decision", "completed"} => notes'[i].turn \in Turns
         /\ notes'[i].m = "decision" =>
              decision[notes'[i].turn].st = "absent" /\ outcomes[notes'[i].turn] = 0
         /\ notes'[i].m = "completed" => ~decision[notes'[i].turn].done
<1> SUFFICES ASSUME notes'[i].m \in {"decision", "completed"}
             PROVE  /\ notes'[i].turn \in Turns
                    /\ notes'[i].m = "decision" =>
                         decision[notes'[i].turn].st = "absent" /\ outcomes[notes'[i].turn] = 0
                    /\ notes'[i].m = "completed" => ~decision[notes'[i].turn].done
  OBVIOUS
<1>1. PICK j \in 1..Len(notes) : notes'[i] = notes[j]
  BY DEF NotesFrom
<1>2. notes[j] \in Notification
  BY DEF TypeOK, ServerType
<1>3. notes[j].turn \in Turns
  BY <1>1, <1>2 DEF Notification
<1> QED BY <1>1, <1>3 DEF DecisionInv, NotedHasNoOutcome

\* The card of a turn makes its decision.
LEMMA DecisionMade == ASSUME TypeOK, BaseInv, DecisionInv, DecisionCard PROVE DecisionInv'
<1> DEFINE t == Head(notes).turn
<1>1. t \in Turns /\ notes # <<>> /\ notes' = Tail(notes) /\ UNCHANGED <<ready, pending, outcomes, srv>>
  BY HeadType DEF DecisionCard, Receive
<1>2. NotesFrom /\ \A i \in 1..Len(notes') : notes'[i].m = "decision" => notes'[i].turn # t
  BY RestIsOther DEF DecisionCard
<1>3. CASE decision' = decision
  BY <1>1, <1>2, <1>3, DecisionKept, SrvSame
<1>4. CASE decision' = [decision EXCEPT ![t] = [NoDecision EXCEPT !.st = "pending", !.ws = active.ws]]
  <2>1. outcomes[t] = 0 /\ decision[t].st = "absent" /\ ~decision[t].done
    <3>1. 1 \in 1..Len(notes) /\ notes[1] = Head(notes) /\ Head(notes).m = "decision"
      BY <1>1 DEF DecisionCard, Receive, TypeOK, ServerType
    <3>2. outcomes[t] = 0 /\ decision[t].st = "absent"
      BY <3>1 DEF DecisionInv, NotedHasNoOutcome
    <3> QED BY <1>1, <3>2 DEF DecisionInv, OpenHasNoOutcome
  <2>2. /\ decision'[t].st = "pending" /\ decision'[t].done = FALSE
        /\ \A u \in Turns : u # t => decision'[u] = decision[u]
    BY <1>1, <1>4 DEF NoDecision, TypeOK, SessionType
  <2>3. ContinuationHasClaim' /\ ClaimIsPending'
    <3>1. pending # None => pending.decision \in Turns \union {0}
      BY DEF TypeOK, SessionType, PendingStart
    <3> QED BY <1>1, <2>1, <2>2, <3>1 DEF DecisionInv, ContinuationHasClaim, ClaimIsPending
  <2>4. OpenHasNoOutcome'
    BY <1>1, <2>1, <2>2 DEF DecisionInv, OpenHasNoOutcome
  <2>5. NotedHasNoOutcome'
    BY <1>1, <1>2, <2>2, NotedFrom DEF NotedHasNoOutcome
  <2> QED BY <2>3, <2>4, <2>5 DEF DecisionInv
<1> QED BY <1>3, <1>4 DEF DecisionCard

\* The end of a turn makes its decision answerable, or drops it with its outcome; no
\* decision is being answered before that.
LEMMA DecisionCompleted == ASSUME TypeOK, BaseInv, DecisionInv, TurnCompleted PROVE DecisionInv'
<1> DEFINE t == Head(notes).turn
           ok == Head(notes).ok
<1>1. /\ t \in Turns /\ notes # <<>> /\ notes' = Tail(notes) /\ UNCHANGED <<ready, srv>> /\ ready
      /\ srv[t].st = "ended" /\ Head(notes).m = "completed"
  BY HeadType, HeadIsTrue DEF TurnCompleted, Receive
<1>2. NotesFrom /\ \A i \in 1..Len(notes') : notes'[i].m = "completed" => notes'[i].turn # t
  BY RestIsOther DEF TurnCompleted
<1>3. ~decision[t].done
  <2>1. 1 \in 1..Len(notes) /\ notes[1] = Head(notes)
    BY <1>1 DEF TypeOK, ServerType
  <2> QED BY <1>1, <2>1 DEF DecisionInv, NotedHasNoOutcome
<1>4. decision[t].st # "claimed" /\ (pending # None => pending.decision # t)
  BY <1>1, <1>3 DEF DecisionInv, ContinuationHasClaim, ClaimIsPending
<1>5. /\ pending' # None => /\ pending # None /\ pending'.token = pending.token
                            /\ pending'.decision = pending.decision
      /\ pending # None => pending' # None
  <2>1. CASE pending' = pending
    BY <2>1
  <2>2. CASE pending # None /\ pending' # pending
    <3>1. pending \in PendingStart
      BY <2>2 DEF TypeOK, SessionType
    <3>2. PICK a, b \in BOOLEAN : pending' = [pending EXCEPT !.terminal = a, !.leased = b]
      <4> DEFINE bound == IF active.thread = srv[t].thread /\ active.turn = t THEN units[t] ELSE 0
                 a == pending.terminal \/ ok
                 b == pending.leased /\ bound = 0
      <4>1. a \in BOOLEAN /\ b \in BOOLEAN
        OBVIOUS
      <4>2. pending' = [pending EXCEPT !.terminal = a, !.leased = b]
        BY <2>2 DEF TurnCompleted
      <4> HIDE DEF a, b
      <4> QED BY <4>1, <4>2
    <3> QED BY <2>2, <3>1, <3>2, PendingRecord
  <2> QED BY <2>1, <2>2 DEF TurnCompleted
<1>6. CASE decision[t].st = "absent"
  <2>1. decision' = decision /\ outcomes' = outcomes
    BY <1>6 DEF TurnCompleted
  <2> QED BY <1>1, <1>2, <1>5, <2>1, DecisionKept, SrvSame
<1>7. CASE decision[t].st # "absent" /\ ~ok
  <2>1. /\ decision'[t] = NoDecision /\ outcomes'[t] = outcomes[t] + 1
        /\ \A u \in Turns : u # t => decision'[u] = decision[u] /\ outcomes'[u] = outcomes[u]
    BY <1>1, <1>7 DEF TurnCompleted, TypeOK, SessionType
  <2>2. pending # None /\ pending.decision # 0 => decision'[pending.decision] = decision[pending.decision]
    <3>1. pending # None => pending.decision \in Turns \union {0}
      BY DEF TypeOK, SessionType, PendingStart
    <3> QED BY <1>4, <2>1, <3>1
  <2>3. \A u \in Turns : decision'[u].st = "claimed" => pending' # None /\ pending'.decision = u
    BY <1>1, <1>5, <2>1 DEF DecisionInv, ClaimIsPending, NoDecision
  <2> QED BY <1>1, <1>2, <1>5, <1>7, <2>1, <2>2, <2>3, DecisionDrop, SrvSame
<1>8. CASE decision[t].st # "absent" /\ ok
  <2>1. decision[t] \in Decision /\ decision \in [Turns -> Decision]
    BY <1>1 DEF TypeOK, SessionType
  <2>2. decision' = [decision EXCEPT ![t].done = TRUE] /\ outcomes' = outcomes
    BY <1>8 DEF TurnCompleted
  <2>3. /\ decision'[t].st = decision[t].st
        /\ \A u \in Turns : u # t => decision'[u] = decision[u]
    BY <1>1, <2>1, <2>2 DEF Decision
  <2>4. ContinuationHasClaim'
    <3>1. pending # None => pending.decision \in Turns \union {0}
      BY DEF TypeOK, SessionType, PendingStart
    <3> QED BY <1>4, <1>5, <2>3, <3>1 DEF DecisionInv, ContinuationHasClaim
  <2>5. ClaimIsPending'
    BY <1>1, <1>4, <1>5, <2>3 DEF DecisionInv, ClaimIsPending
  <2>6. OpenHasNoOutcome'
    BY <1>1, <1>8, <2>2, <2>3 DEF DecisionInv, OpenHasNoOutcome
  <2>7. NotedHasNoOutcome'
    BY <1>2, <2>2, <2>3, NotedFrom DEF NotedHasNoOutcome
  <2> QED BY <2>4, <2>5, <2>6, <2>7 DEF DecisionInv
<1> QED BY <1>6, <1>7, <1>8

\* Every notification after an append is the new one or was there.
LEMMA AppendedNote ==
  ASSUME TypeOK, NEW n, notes' = Append(notes, n)
  PROVE  \A i \in 1..Len(notes') : notes'[i] = n \/ \E j \in 1..Len(notes) : notes'[i] = notes[j]
<1>1. /\ notes \in Seq(Notification) /\ Len(notes) \in Nat /\ Len(notes') = Len(notes) + 1
      /\ \A i \in 1..Len(notes) : notes'[i] = notes[i]
      /\ notes'[Len(notes) + 1] = n
  BY DEF TypeOK, ServerType
<1>2. PICK l \in Nat : l = Len(notes) /\ Len(notes') = l + 1
  BY <1>1
<1>3. \A i \in 1..l+1 : i \in 1..l \/ i = l + 1
  OBVIOUS
<1> QED BY <1>1, <1>2, <1>3

\* A card is sent for a decision that is neither there nor settled, an end for a turn
\* whose decision cannot have been answered.
LEMMA DecisionTells ==
  ASSUME TypeOK, DecisionInv, SrvGrows, NEW n \in Notification, notes' = Append(notes, n),
         UNCHANGED <<ready, pending, decision, outcomes>>,
         n.m = "decision" => decision[n.turn].st = "absent" /\ outcomes[n.turn] = 0,
         n.m = "completed" => ~decision[n.turn].done
  PROVE  DecisionInv'
<1>1. ContinuationHasClaim' /\ ClaimIsPending'
  BY DEF DecisionInv, ContinuationHasClaim, ClaimIsPending
<1>2. OpenHasNoOutcome'
  BY DEF DecisionInv, OpenHasNoOutcome, SrvGrows
<1>3. NotedHasNoOutcome'
  BY AppendedNote DEF DecisionInv, NotedHasNoOutcome
<1> QED BY <1>1, <1>2, <1>3 DEF DecisionInv

\* DecisionInv survives the steps of the server.
LEMMA DecisionServer == ASSUME TypeOK, DecisionInv, ServerStep PROVE DecisionInv'
<1>1. ASSUME NEW r \in inbox, NEW t \in Turns, ServerStart(r, t) PROVE DecisionInv'
  <2> DEFINE n == Note("started", t, TRUE)
  <2>1. n \in Notification /\ n.m = "started"
    BY DEF Note, Notification
  <2>2. SrvGrows
    BY <1>1 DEF ServerStart, SrvGrows, TypeOK, ServerType
  <2>3. notes' = Append(notes, n) /\ UNCHANGED <<ready, pending, decision, outcomes>>
    BY <1>1 DEF ServerStart
  <2> HIDE DEF n
  <2> QED BY <2>1, <2>2, <2>3, DecisionTells
<1>2. ASSUME NEW r \in inbox, ServerRespond(r) PROVE DecisionInv'
  <2> DEFINE n == Note("violation", 0, TRUE)
  <2>1. n \in Notification /\ n.m = "violation"
    BY DEF Note, Notification
  <2>2. UNCHANGED <<ready, pending, decision, outcomes, srv>> /\ (notes' = notes \/ notes' = Append(notes, n))
    BY <1>2 DEF ServerRespond
  <2> HIDE DEF n
  <2> QED BY <2>1, <2>2, DecisionTells, DecisionSame, SrvSame
<1>3. ASSUME NEW t \in Turns, ServerDecision(t) PROVE DecisionInv'
  <2> DEFINE n == Note("decision", t, TRUE)
  <2>1. n \in Notification /\ n.m = "decision" /\ n.turn = t
    BY DEF Note, Notification
  <2>2. /\ UNCHANGED <<ready, pending, decision, outcomes, srv>> /\ notes' = Append(notes, n)
        /\ decision[t].st = "absent" /\ outcomes[t] = 0
    BY <1>3 DEF ServerDecision
  <2> HIDE DEF n
  <2> QED BY <2>1, <2>2, DecisionTells, SrvSame
<1>4. ASSUME NEW t \in Turns, NEW ok \in BOOLEAN, ServerEnd(t, ok) PROVE DecisionInv'
  <2> DEFINE n == Note("completed", t, ok)
  <2>1. n \in Notification /\ n.m = "completed" /\ n.turn = t
    BY DEF Note, Notification
  <2>2. /\ UNCHANGED <<ready, pending, decision, outcomes>> /\ notes' = Append(notes, n)
        /\ srv[t].st = "running" /\ srv' = [srv EXCEPT ![t].st = "ended"]
    BY <1>4 DEF ServerEnd
  <2>3. SrvGrows
    BY <2>2 DEF SrvGrows, TypeOK, ServerType
  <2>4. ~decision[t].done
    BY <2>2 DEF DecisionInv, OpenHasNoOutcome
  <2> HIDE DEF n
  <2> QED BY <2>1, <2>2, <2>3, <2>4, DecisionTells
<1> QED BY <1>1, <1>2, <1>3, <1>4 DEF ServerStep

\* DecisionInv survives what has nothing to do with decisions.
LEMMA DecisionOther ==
  ASSUME TypeOK, DecisionInv,
         \/ \E w \in Workspaces : BeginCancellation(w) \/ ReleaseCancellation(w) \/ Unregister(w)
         \/ \E r \in aftermath : AfterRollback(r)
         \/ LoopTerminal
         \/ \E g \in Generations : Invalidate(g)
         \/ UNCHANGED vars
  PROVE  DecisionInv'
BY DecisionSame DEF BeginCancellation, ReleaseCancellation, Unregister, AfterRollback, LoopTerminal,
                    Invalidate, vars

\* DecisionInv survives every step.
LEMMA DecisionStep == TypeOK /\ TypeOK' /\ BaseInv /\ DecisionInv /\ [Next]_vars => DecisionInv'
<1> SUFFICES ASSUME TypeOK, TypeOK', BaseInv, DecisionInv, [Next]_vars PROVE DecisionInv'
  OBVIOUS
<1>1. ASSUME NEW c \in Calls, Issue(c) \/ CallStep(c) PROVE DecisionInv'
  BY <1>1, DecisionIssue, DecisionCommand, DecisionReserve, DecisionClaim, DecisionTooOld,
     DecisionReplied, DecisionEnds DEF CallStep
<1>2. CASE LoopStep
  BY <1>2, DecisionStarted, DecisionMade, DecisionCompleted, DecisionGone, DecisionOther, DecisionEnds
     DEF LoopStep, ProtocolViolation
<1> QED BY <1>1, <1>2, DecisionExpires, DecisionGone, DecisionOther, DecisionServer
        DEF Next, ConnectionLost

\* DecisionInv holds before anything has happened.
LEMMA DecisionInit == Init => DecisionInv
BY DEF Init, DecisionInv, ContinuationHasClaim, ClaimIsPending, OpenHasNoOutcome, NotedHasNoOutcome,
       NoDecision

\* BaseInv and DecisionInv hold throughout.
LEMMA BaseSafe == Spec => []BaseInv
BY TypeCorrect, BaseInit, BaseStep, PTL DEF Spec

\* See BaseSafe.
LEMMA DecisionSafe == Spec => []DecisionInv
BY TypeCorrect, BaseSafe, DecisionInit, DecisionStep, PTL DEF Spec

\* An answer is neither given twice nor lost, and of a decision one outcome is told,
\* however its card, the end of its turn, its expiry and its answer meet.
THEOREM DecisionsAreSoundHolds == Spec => []DecisionsAreSound
BY TypeCorrect, DecisionSafe, DecisionInvSays, PTL

-----------------------------------------------------------------------------
(* Work units: what is open is somebody's to end.                          *)

\* A lease is opened once, by the start whose token it has; of a generation that has been
\* invalidated none is open.
LeasesAreTrue ==
  \A k \in Tokens :
    /\ lease[k].st # "none" =>
         /\ k <= nextToken /\ lease[k].gen \in Generations
         /\ \A c \in Calls : call[c].pc = "begin" => call[c].token # k
         /\ \A c \in Calls : call[c].pc = "attach" /\ call[c].token = k => lease[k].gen = call[c].gen
    /\ lease[k].st = "open" => inval[lease[k].gen] # "done"

\* The unit that is bound is the active turn's and, if a start is pending, that start's; and a
\* start that is bound to the turn it began has bound its unit to it.
Leased(k) == k \in Tokens /\ lease[k].st # "none" /\ lease[k].gen = generation
UnitsAreTrue ==
  /\ \A t \in Turns : units[t] # 0 => active.turn = t /\ Leased(units[t])
  /\ pending # None =>
       /\ pending.leased => Leased(pending.token)
       /\ \A t \in Turns : units[t] # 0 => pending.leased /\ units[t] = pending.token
       /\ pending.leased /\ pending.turn # 0 /\ srv[pending.turn].token = pending.token =>
            units[pending.turn] = pending.token

LeaseInv == LeasesAreTrue /\ UnitsAreTrue /\ LeaseHeld

\* Who holds an open lease in the session.
Opening(k) == \E c \in Calls : call[c].pc = "attach" /\ call[c].token = k
InSession(k) ==
  \/ pending # None /\ pending.leased /\ pending.token = k
  \/ active.turn # 0 /\ units[active.turn] = k

\* Leases are at most settled.
LeaseMoves ==
  \A k \in Tokens : /\ lease'[k].gen = lease[k].gen
                    /\ lease'[k].st = "none" <=> lease[k].st = "none"
                    /\ lease'[k].st = "open" => lease[k].st = "open"

\* Ending leases opens none, and ends those it is to end.
LEMMA SettledMoves ==
  ASSUME TypeOK, NEW ks, lease' = Settled(ks)
  PROVE  LeaseMoves /\ \A k \in Tokens : k \in ks => lease'[k].st # "open"
<1>1. \A k \in Tokens : lease[k] \in [st : {"none", "open", "settled"}, gen : Generations \union {0}]
  BY DEF TypeOK, WorkType
<1>2. \A k \in Tokens : lease'[k] = IF k \in ks /\ lease[k].st = "open"
                                    THEN [lease[k] EXCEPT !.st = "settled"] ELSE lease[k]
  BY DEF Settled
<1>3. ASSUME NEW k \in Tokens, k \in ks, lease[k].st = "open"
      PROVE  lease'[k].gen = lease[k].gen /\ lease'[k].st = "settled"
  BY <1>1, <1>2, <1>3
<1>4. \A k \in Tokens : ~(k \in ks /\ lease[k].st = "open") => lease'[k] = lease[k]
  BY <1>2
<1> QED BY <1>3, <1>4 DEF LeaseMoves

\* Nor does leaving them alone.
LEMMA LeaseStays == UNCHANGED lease => LeaseMoves
BY DEF LeaseMoves

\* Commands do not enter the phases that open a lease.
NoneOpens == \A c \in Calls : call'[c].pc \in {"begin", "attach"} => call'[c] = call[c]
NoneAttaches == \A c \in Calls : call[c].pc = "attach" => call'[c] = call[c]

\* What is said of the leases survives a step that opens none, if none of a
\* generation that is over is left open.
LEMMA LeasesMove ==
  ASSUME TypeOK, LeasesAreTrue, LeaseMoves, NoneOpens, UNCHANGED nextToken,
         \A k \in Tokens : lease'[k].st = "open" => inval'[lease[k].gen] # "done"
  PROVE  LeasesAreTrue'
BY DEF LeasesAreTrue, LeaseMoves, NoneOpens

\* A unit stays what it is in a session that stays.
LEMMA UnitsMove ==
  ASSUME TypeOK, PendingIsTrue, UnitsAreTrue, LeaseMoves, SrvGrows,
         UNCHANGED <<generation, pending, units>>, active'.turn = active.turn
  PROVE  UnitsAreTrue'
<1>1. \A k : Leased(k) => Leased(k)'
  BY DEF Leased, LeaseMoves
<1>2. \A t \in Turns : units'[t] # 0 => active'.turn = t /\ Leased(units[t])'
  <2> SUFFICES ASSUME NEW t \in Turns, units[t] # 0 PROVE active'.turn = t /\ Leased(units[t])'
    OBVIOUS
  <2>1. PICK k : k = units[t]
    OBVIOUS
  <2>2. Leased(k)'
    BY <1>1, <2>1 DEF UnitsAreTrue
  <2> QED BY <2>1, <2>2 DEF UnitsAreTrue, Leased
<1>3. pending # None /\ pending.leased => Leased(pending.token)'
  <2> SUFFICES ASSUME pending # None /\ pending.leased PROVE Leased(pending.token)'
    OBVIOUS
  <2>1. PICK k : k = pending.token
    OBVIOUS
  <2>2. Leased(k)'
    BY <1>1, <2>1 DEF UnitsAreTrue
  <2> QED BY <2>1, <2>2 DEF Leased
<1>4. pending # None /\ pending.turn # 0 => srv'[pending.turn].token = srv[pending.turn].token
  BY DEF PendingIsTrue, SrvGrows, TypeOK, SessionType, PendingStart
<1> QED BY <1>2, <1>3, <1>4 DEF UnitsAreTrue

\* An open lease has somebody to end it as long as each holder keeps it or hands it on.
LEMMA HeldMove ==
  ASSUME TypeOK, LeaseHeld, LeaseMoves,
         \A k \in Tokens : lease'[k].st = "open" =>
           /\ Opening(k) => Opening(k)' \/ InSession(k)'
           /\ InSession(k) => \/ InSession(k)' \/ loop'.lease = k
                              \/ (\E r \in aftermath' : r.lease = k)
                              \/ inval'[lease[k].gen] = "due"
           /\ loop.lease = k => loop'.lease = k
           /\ (\E r \in aftermath : r.lease = k) => (\E r \in aftermath' : r.lease = k)
           /\ inval[lease[k].gen] = "due" => inval'[lease[k].gen] = "due"
  PROVE  LeaseHeld'
<1> SUFFICES ASSUME NEW k \in Tokens, lease'[k].st = "open"
             PROVE  \/ Opening(k)' \/ InSession(k)' \/ loop'.lease = k
                    \/ (\E r \in aftermath' : r.lease = k) \/ inval'[lease'[k].gen] = "due"
  BY DEF LeaseHeld, Opening, InSession
<1>1. lease[k].st = "open" /\ lease'[k].gen = lease[k].gen
  BY DEF LeaseMoves
<1>2. \/ Opening(k) \/ InSession(k) \/ loop.lease = k
      \/ (\E r \in aftermath : r.lease = k) \/ inval[lease[k].gen] = "due"
  BY <1>1 DEF LeaseHeld, Opening, InSession
<1> QED BY <1>1, <1>2

\* A lease that is being opened is so as long as no command attaches one.
LEMMA OpeningStays == NoneAttaches => \A k : Opening(k) => Opening(k)'
BY DEF NoneAttaches, Opening

\* LeaseInv survives a step that leaves the session's units alone and ends at most what it settles.
LEMMA LeaseQuiet ==
  ASSUME TypeOK, BaseInv, LeaseInv, LeaseMoves, SrvGrows, NoneOpens, NoneAttaches,
         UNCHANGED <<generation, nextToken, pending, units, inval>>, active'.turn = active.turn,
         \A k \in Tokens : lease'[k].st = "open" =>
           /\ loop.lease = k => loop'.lease = k
           /\ (\E r \in aftermath : r.lease = k) => (\E r \in aftermath' : r.lease = k)
  PROVE  LeaseInv'
<1>1. LeasesAreTrue'
  <2>1. \A k \in Tokens : lease'[k].st = "open" => inval'[lease[k].gen] # "done"
    BY DEF LeaseInv, LeasesAreTrue, LeaseMoves
  <2> QED BY <2>1, LeasesMove DEF LeaseInv
<1>2. UnitsAreTrue'
  BY UnitsMove DEF LeaseInv, BaseInv
<1>3. LeaseHeld'
  <2>1. \A k \in Tokens : InSession(k) => InSession(k)'
    BY DEF InSession
  <2> QED BY <2>1, OpeningStays, HeldMove DEF LeaseInv
<1> QED BY <1>1, <1>2, <1>3 DEF LeaseInv

\* Commands that stay, return or move elsewhere open and attach nothing.
LEMMA CallsApart ==
  ASSUME TypeOK,
         \/ UNCHANGED call
         \/ \E c \in Calls : call[c].pc # "attach" /\ call'[c].pc \notin {"begin", "attach"}
                             /\ \A d \in Calls : d # c => call'[d] = call[d]
  PROVE  NoneOpens /\ NoneAttaches
BY DEF NoneOpens, NoneAttaches

\* A command that ends opens and attaches nothing.
LEMMA ReturnsApart ==
  ASSUME TypeOK, NEW c \in Calls, call' = [call EXCEPT ![c] = NoCall], call[c].pc # "attach"
  PROVE  NoneOpens /\ NoneAttaches
<1>1. call'[c].pc = "idle" /\ \A d \in Calls : d # c => call'[d] = call[d]
  BY DEF NoCall, TypeOK, CallType
<1> QED BY <1>1, CallsApart

\* Nor does one that goes on from another phase to another.
LEMMA GoesApart ==
  ASSUME TypeOK, NEW c \in Calls, NEW ph, call' = [call EXCEPT ![c].pc = ph],
         call[c].pc # "attach", ph \notin {"begin", "attach"}
  PROVE  NoneOpens /\ NoneAttaches
<1>1. call'[c].pc = ph /\ \A d \in Calls : d # c => call'[d] = call[d]
  BY OthersKeep
<1> QED BY <1>1, CallsApart

\* A step that leaves all of that alone.
LEMMA LeaseSame ==
  ASSUME TypeOK, BaseInv, LeaseInv, SrvGrows, NoneOpens, NoneAttaches,
         UNCHANGED <<generation, nextToken, pending, units, work, loop>>,
         active'.turn = active.turn
  PROVE  LeaseInv'
BY LeaseQuiet, LeaseStays

\* The first section of a command: another session is loaded only when no unit is bound.
LEMMA LeaseIssue == ASSUME TypeOK, BaseInv, LeaseInv, NEW c \in Calls, Issue(c) PROVE LeaseInv'
<1>1. PICK ph \in {"threadReady", "startReady", "answerReady", "interruptReady"},
           w \in Workspaces : \E th, t : ReadyContext(c, ph, w, th, t)
  BY DEF Issue
<1>2. PICK th, t : ReadyContext(c, ph, w, th, t)
  BY <1>1
<1>3. call[c].pc = "idle" /\ call'[c].pc = ph /\ \A d \in Calls : d # c => call'[d] = call[d]
  BY <1>2 DEF ReadyContext, TypeOK, CallType
<1>4. NoneOpens /\ NoneAttaches
  BY <1>3, CallsApart
<1>5. UNCHANGED <<generation, nextToken, pending, work, loop, srv>>
  BY <1>2 DEF ReadyContext
<1>6. active'.turn = active.turn /\ units' = units
  <2>1. CASE active.ws = w
    BY <1>2, <2>1 DEF ReadyContext, Activate
  <2>2. CASE active.ws # w
    <3>1. active.turn = 0 /\ active'.turn = 0 /\ units' = NoUnits
      BY <1>2, <2>2 DEF ReadyContext, Activate, Busy
    <3>2. \A u \in Turns : units[u] = 0
      BY <3>1 DEF LeaseInv, UnitsAreTrue
    <3>3. units = NoUnits
      BY <3>2 DEF NoUnits, TypeOK, SessionType
    <3> QED BY <3>1, <3>3
  <2> QED BY <2>1, <2>2
<1> QED BY <1>4, <1>5, <1>6, LeaseSame, SrvSame

\* Steps of the commands that leave the work units alone.
LEMMA LeaseCommand ==
  ASSUME TypeOK, BaseInv, LeaseInv, NEW c \in Calls,
         \/ CommandFails(c) \/ ClaimExpired(c) \/ SendThread(c)
         \/ (\E th \in Threads : AcceptThread(c, th))
         \/ (\E listed \in SUBSET Threads : ListThreads(c, listed))
         \/ Send(c) \/ Timeout(c) \/ SendInterrupt(c)
  PROVE  LeaseInv'
<1>1. UNCHANGED <<generation, nextToken, pending, units, work, loop, srv>>
  BY DEF CommandFails, ClaimExpired, SendThread, AcceptThread, ListThreads, Send, Timeout,
         SendInterrupt
<1>2. active'.turn = active.turn
  BY DEF CommandFails, ClaimExpired, SendThread, AcceptThread, ListThreads, Send, Timeout,
         SendInterrupt, TypeOK, SessionType
<1>3. CASE call' = [call EXCEPT ![c] = NoCall] /\ call[c].pc # "attach"
  BY <1>1, <1>2, <1>3, ReturnsApart, LeaseSame, SrvSame
<1>4. ASSUME NEW ph \in {"threadSent", "sent", "failed"}, call' = [call EXCEPT ![c].pc = ph],
             call[c].pc # "attach"
      PROVE  LeaseInv'
  BY <1>1, <1>2, <1>4, GoesApart, LeaseSame, SrvSame
<1>5. CASE SendInterrupt(c)
  <2>1. /\ call[c].pc # "attach" /\ call'[c].pc = "interruptSent"
        /\ \A d \in Calls : d # c => call'[d] = call[d]
    BY <1>5 DEF SendInterrupt, TypeOK, CallType, Command
  <2> QED BY <1>1, <1>2, <2>1, CallsApart, LeaseSame, SrvSame
<1> QED BY <1>3, <1>4, <1>5 DEF CommandFails, ClaimExpired, SendThread, AcceptThread, ListThreads,
                               Send, Timeout

\* Steps of others that do.
LEMMA LeaseOther ==
  ASSUME TypeOK, BaseInv, LeaseInv,
         \/ \E w \in Workspaces : BeginCancellation(w) \/ ReleaseCancellation(w) \/ Unregister(w)
         \/ DecisionCard \/ (\E t \in Turns : ExpireDecision(t)) \/ UNCHANGED vars
  PROVE  LeaseInv'
<1>1. ASSUME NEW w \in Workspaces, Unregister(w) PROVE active'.turn = active.turn
  BY <1>1 DEF Unregister, Busy, NoSession
<1>2. active'.turn = active.turn
  BY <1>1 DEF BeginCancellation, ReleaseCancellation, DecisionCard, ExpireDecision, vars
<1>3. UNCHANGED <<generation, nextToken, pending, units, work, loop, srv, call>>
  BY DEF BeginCancellation, ReleaseCancellation, Unregister, DecisionCard, ExpireDecision, vars
<1> QED BY <1>2, <1>3, LeaseSame, SrvSame, CallsApart

\* The server's steps leave the work units alone.
LEMMA LeaseServer == ASSUME TypeOK, BaseInv, LeaseInv, ServerStep PROVE LeaseInv'
<1>1. UNCHANGED <<generation, nextToken, pending, units, work, loop, active>>
  BY DEF ServerStep, ServerStart, ServerRespond, ServerDecision, ServerEnd
<1>2. SrvGrows
  <2>1. ASSUME NEW r \in inbox, NEW t \in Turns, ServerStart(r, t) PROVE SrvGrows
    BY <2>1 DEF ServerStart, SrvGrows, TypeOK, ServerType
  <2>2. ASSUME NEW t \in Turns, NEW ok \in BOOLEAN, ServerEnd(t, ok) PROVE SrvGrows
    BY <2>2 DEF ServerEnd, SrvGrows, TypeOK, ServerType
  <2> QED BY <2>1, <2>2, SrvSame DEF ServerStep, ServerRespond, ServerDecision
<1>3. NoneOpens /\ NoneAttaches
  <2>1. ASSUME NEW r \in inbox, ServerRespond(r), NEW c \in Calls
        PROVE  call'[c] = call[c] \/ (call[c].pc = "sent" /\ call'[c].pc \in {"failed", "replied"})
    <3>1. call[c] \in Command
      BY DEF TypeOK, CallType
    <3>2. call'[c] = IF c \notin Waiting(r.token) THEN call[c]
                     ELSE IF r.turn = 0 THEN [call[c] EXCEPT !.pc = "failed"]
                     ELSE [call[c] EXCEPT !.pc = "replied", !.turn = r.turn]
      BY <2>1 DEF ServerRespond
    <3> QED BY <3>1, <3>2 DEF Waiting, Command
  <2>2. ASSUME NEW r \in inbox, ServerRespond(r) PROVE NoneOpens /\ NoneAttaches
    BY <2>1, <2>2 DEF NoneOpens, NoneAttaches
  <2> QED BY <2>2, CallsApart DEF ServerStep, ServerStart, ServerDecision, ServerEnd
<1> QED BY <1>1, <1>2, <1>3, LeaseSame

\* What ends a work unit: the loop, what follows a rollback, and an invalidation.
LEMMA LeaseEnds ==
  ASSUME TypeOK, BaseInv, LeaseInv, LoopTerminal \/ (\E r \in aftermath : AfterRollback(r))
  PROVE  LeaseInv'
<1>1. UNCHANGED <<generation, nextToken, active, pending, units, inval, call, srv>>
  BY DEF LoopTerminal, AfterRollback
<1>2. CASE LoopTerminal
  <2>1. LeaseMoves /\ \A k \in Tokens : k = loop.lease => lease'[k].st # "open"
    BY <1>2, SettledMoves DEF LoopTerminal
  <2>2. aftermath' = aftermath
    BY <1>2 DEF LoopTerminal
  <2> QED BY <1>1, <2>1, <2>2, LeaseQuiet, CallsApart, SrvSame
<1>3. ASSUME NEW r \in aftermath, AfterRollback(r) PROVE LeaseInv'
  <2>1. LeaseMoves /\ \A k \in Tokens : k = r.lease => lease'[k].st # "open"
    BY <1>3, SettledMoves DEF AfterRollback
  <2>2. aftermath' = aftermath \ {r} /\ loop' = loop
    BY <1>3 DEF AfterRollback
  <2> QED BY <1>1, <2>1, <2>2, LeaseQuiet, CallsApart, SrvSame
<1> QED BY <1>2, <1>3

\* LeaseInv survives an invalidation, which ends what its generation has open.
LEMMA LeaseInvalidate ==
  ASSUME TypeOK, BaseInv, LeaseInv, NEW g \in Generations, Invalidate(g)
  PROVE  LeaseInv'
<1>1. UNCHANGED <<generation, nextToken, active, pending, units, call, loop, aftermath, srv>>
  BY DEF Invalidate
<1>2. LeaseMoves /\ \A k \in Tokens : lease[k].gen = g => lease'[k].st # "open"
  <2>1. lease' = Settled({k \in Tokens : lease[k].gen = g})
    BY DEF Invalidate
  <2> QED BY <2>1, SettledMoves
<1>3. \A h \in Generations : h # g => inval'[h] = inval[h]
  BY DEF Invalidate, TypeOK, WorkType
<1>4. \A k \in Tokens : lease'[k].st = "open" =>
        lease[k].gen \in Generations /\ lease[k].gen # g /\ inval[lease[k].gen] # "done"
  BY <1>2 DEF LeaseMoves, LeaseInv, LeasesAreTrue
<1>5. LeasesAreTrue'
  BY <1>1, <1>2, <1>3, <1>4, LeasesMove, CallsApart DEF LeaseInv
<1>6. UnitsAreTrue'
  BY <1>1, <1>2, UnitsMove, SrvSame DEF LeaseInv, BaseInv
<1>7. LeaseHeld'
  <2>1. \A k \in Tokens : (Opening(k) => Opening(k)') /\ (InSession(k) => InSession(k)')
    BY <1>1 DEF Opening, InSession
  <2> QED BY <1>1, <1>2, <1>3, <1>4, <2>1, HeldMove DEF LeaseInv
<1> QED BY <1>5, <1>6, <1>7 DEF LeaseInv

-----------------------------------------------------------------------------
(* LeaseInv, the steps of a start.                                         *)

\* A reservation holds no unit, and there is none under its token.
LEMMA LeaseReserve ==
  ASSUME TypeOK, TypeOK', BaseInv, LeaseInv, NEW c \in Calls, Reserve(c) \/ ClaimDecision(c)
  PROVE  LeaseInv'
<1>1. PICK n \in Nat : n = nextToken /\ nextToken' = n + 1
  BY DEF Reserve, ClaimDecision, TypeOK
<1>2. UNCHANGED <<generation, active, units, work, loop, srv>>
  BY DEF Reserve, ClaimDecision
<1>3. active.turn = 0 /\ pending = None
  BY DEF Reserve, ClaimDecision, MayStart, Busy
<1>4. pending'.leased = FALSE /\ pending'.turn = 0
  BY DEF Reserve, ClaimDecision, Reservation
<1>5. /\ call[c].pc # "attach" /\ call'[c].pc \in {"begin", "send"} /\ call'[c].token = n + 1
      /\ \A d \in Calls : d # c => call'[d] = call[d]
  <2>1. call[c] \in Command /\ call \in [Calls -> Command]
    BY DEF TypeOK, CallType
  <2> QED BY <1>1, <2>1 DEF Reserve, ClaimDecision, Command
<1>6. \A k \in Tokens : lease[k].st # "none" => k <= n /\ k # n + 1 /\ k <= n + 1
  BY <1>1 DEF LeaseInv, LeasesAreTrue
<1>7. LeasesAreTrue'
  BY <1>1, <1>2, <1>5, <1>6 DEF LeaseInv, LeasesAreTrue
<1>8. \A t \in Turns : units[t] = 0
  BY <1>3 DEF LeaseInv, UnitsAreTrue
<1>9. UnitsAreTrue'
  BY <1>2, <1>4, <1>8 DEF UnitsAreTrue
<1>10. LeaseHeld'
  <2>1. \A k \in Tokens : Opening(k) => Opening(k)'
    BY <1>5 DEF Opening
  <2>2. \A k \in Tokens : ~InSession(k)
    BY <1>3 DEF InSession
  <2> QED BY <1>2, <2>1, <2>2, HeldMove, LeaseStays DEF LeaseInv
<1> QED BY <1>7, <1>9, <1>10 DEF LeaseInv

\* A unit that is opened is the opening start's.
LEMMA LeaseBegin ==
  ASSUME TypeOK, BaseInv, LeaseInv, NEW c \in Calls, BeginWorkUnit(c)
  PROVE  LeaseInv'
<1> DEFINE k == call[c].token
<1>1. /\ call[c].pc = "begin" /\ k \in Tokens /\ call[c].gen \in Generations /\ k <= nextToken
  BY DEF BeginWorkUnit, TypeOK, CallType, BaseInv, TokensAreOwn
<1>2. /\ call'[c].pc = "attach" /\ call'[c].token = k /\ call'[c].gen = call[c].gen
      /\ \A d \in Calls : d # c => call'[d] = call[d]
  BY OthersKeep DEF BeginWorkUnit
<1>3. UNCHANGED <<generation, active, pending, units, nextToken, inval, aftermath, loop, srv>>
  BY DEF BeginWorkUnit
<1>4. lease[k].st = "none"
  BY <1>1 DEF LeaseInv, LeasesAreTrue
<1>5. \A d \in Calls : call[d].pc \in {"begin", "attach"} /\ call[d].token = k => d = c
  BY <1>1 DEF BaseInv, TokensAreOwn, StartPhases
<1>6. /\ \A l \in Tokens : l # k => lease'[l] = lease[l]
      /\ \/ lease' = lease
         \/ lease'[k].st = "open" /\ lease'[k].gen = call[c].gen /\ inval[call[c].gen] # "done"
  <2>1. CASE lease' = lease
    BY <2>1
  <2>2. CASE /\ inval[call[c].gen] # "done"
             /\ lease' = [lease EXCEPT ![k] = [st |-> "open", gen |-> call[c].gen]]
    <3>1. lease' = [l \in Tokens |-> IF l = k THEN [st |-> "open", gen |-> call[c].gen] ELSE lease[l]]
      BY <2>2 DEF TypeOK, WorkType
    <3> HIDE DEF k
    <3>2. \A l \in Tokens : l # k => lease'[l] = lease[l]
      BY <3>1
    <3>3. lease'[k].st = "open" /\ lease'[k].gen = call[c].gen
      BY <1>1, <3>1
    <3> QED BY <2>2, <3>2, <3>3
  <2> QED BY <2>1, <2>2 DEF BeginWorkUnit
<1> HIDE DEF k
<1>7. ASSUME NEW l \in Tokens
      PROVE /\ lease'[l].st # "none" =>
                /\ l <= nextToken /\ lease'[l].gen \in Generations
                /\ \A d \in Calls : call'[d].pc = "begin" => call'[d].token # l
                /\ \A d \in Calls : call'[d].pc = "attach" /\ call'[d].token = l =>
                     lease'[l].gen = call'[d].gen
            /\ lease'[l].st = "open" => inval[lease'[l].gen] # "done"
  <2>1. CASE l # k
    BY <1>2, <1>6, <2>1 DEF LeaseInv, LeasesAreTrue
  <2>2. CASE l = k /\ lease' = lease
    BY <1>4, <2>2
  <2>3. CASE l = k /\ lease'[k].st = "open" /\ lease'[k].gen = call[c].gen /\ inval[call[c].gen] # "done"
    BY <1>1, <1>2, <1>5, <2>3
  <2> QED BY <1>6, <2>1, <2>2, <2>3
<1>8. LeasesAreTrue'
  BY <1>3, <1>7 DEF LeasesAreTrue
<1>9. \A l : Leased(l) => Leased(l)'
  BY <1>3, <1>4, <1>6 DEF Leased
<1>10. UnitsAreTrue'
  <2>1. \A t \in Turns : units[t] # 0 => active.turn = t /\ Leased(units[t])'
    <3> SUFFICES ASSUME NEW t \in Turns, units[t] # 0 PROVE active.turn = t /\ Leased(units[t])'
      OBVIOUS
    <3>1. PICK l : l = units[t]
      OBVIOUS
    <3>2. Leased(l)'
      BY <1>9, <3>1 DEF LeaseInv, UnitsAreTrue
    <3> QED BY <1>3, <3>1, <3>2 DEF LeaseInv, UnitsAreTrue, Leased
  <2>2. pending # None /\ pending.leased => Leased(pending.token)'
    <3> SUFFICES ASSUME pending # None /\ pending.leased PROVE Leased(pending.token)'
      OBVIOUS
    <3>1. PICK l : l = pending.token
      OBVIOUS
    <3>2. Leased(l)'
      BY <1>9, <3>1 DEF LeaseInv, UnitsAreTrue
    <3> QED BY <1>3, <3>1, <3>2 DEF Leased
  <2> QED BY <1>3, <2>1, <2>2 DEF LeaseInv, UnitsAreTrue
<1>11. LeaseHeld'
  <2> SUFFICES ASSUME NEW l \in Tokens, lease'[l].st = "open"
               PROVE  \/ Opening(l)' \/ InSession(l)' \/ loop'.lease = l
                      \/ (\E r \in aftermath' : r.lease = l) \/ inval'[lease'[l].gen] = "due"
    BY DEF LeaseHeld, Opening, InSession
  <2>1. CASE l = k
    BY <1>2, <2>1 DEF Opening
  <2>2. CASE l # k
    <3>1. lease'[l] = lease[l]
      BY <1>6, <2>2
    <3>2. \/ Opening(l) \/ InSession(l) \/ loop.lease = l
          \/ (\E r \in aftermath : r.lease = l) \/ inval[lease[l].gen] = "due"
      BY <3>1 DEF LeaseInv, LeaseHeld, Opening, InSession
    <3>3. (Opening(l) => Opening(l)') /\ (InSession(l) => InSession(l)')
      BY <1>1, <1>2, <1>3 DEF Opening, InSession
    <3> QED BY <1>3, <3>1, <3>2, <3>3
  <2> QED BY <2>1, <2>2
<1> QED BY <1>8, <1>10, <1>11 DEF LeaseInv

\* A unit that is attached goes to its reservation, which is not bound to its own turn yet,
\* since nothing has been sent; or it is settled.
LEMMA LeaseAttach ==
  ASSUME TypeOK, BaseInv, LeaseInv, NEW c \in Calls, AttachWorkUnit(c)
  PROVE  LeaseInv'
<1>1. PICK k \in Tokens : k = call[c].token
  BY DEF AttachWorkUnit, TypeOK, CallType
<1>2. /\ call[c].pc = "attach" /\ call'[c].pc = "send" /\ call'[c].token = k
      /\ \A d \in Calls : d # c => call'[d] = call[d]
  BY <1>1, OthersKeep DEF AttachWorkUnit
<1>3. UNCHANGED <<generation, active, units, nextToken, inval, aftermath, loop, srv>>
  BY DEF AttachWorkUnit
<1>4. \/ lease[k].st = "none" /\ lease' = lease /\ pending' = pending
      \/ /\ lease[k].st # "none" /\ generation = call[c].gen /\ pending # None /\ pending.token = k
         /\ pending' = [pending EXCEPT !.leased = TRUE] /\ lease' = lease
      \/ lease' = Settled({k}) /\ pending' = pending
  BY <1>1 DEF AttachWorkUnit
<1>5. LeaseMoves
  BY <1>4, SettledMoves, LeaseStays
<1>6. NoneOpens
  BY <1>2 DEF NoneOpens
<1>7. LeasesAreTrue'
  <2>1. \A l \in Tokens : lease'[l].st = "open" => inval'[lease[l].gen] # "done"
    BY <1>3, <1>5 DEF LeaseMoves, LeaseInv, LeasesAreTrue
  <2> QED BY <1>3, <1>5, <1>6, <2>1, LeasesMove DEF LeaseInv
<1>8. \A l \in Tokens : l # k => (Opening(l) => Opening(l)')
  BY <1>1, <1>2 DEF Opening
<1>9. CASE pending' = pending /\ lease'[k].st # "open"
  <2>1. UnitsAreTrue'
    BY <1>3, <1>5, <1>9, UnitsMove, SrvSame DEF LeaseInv, BaseInv
  <2>2. \A l \in Tokens : InSession(l) => InSession(l)'
    BY <1>3, <1>9 DEF InSession
  <2>3. LeaseHeld'
    BY <1>3, <1>5, <1>8, <1>9, <2>2, HeldMove DEF LeaseInv
  <2> QED BY <1>7, <2>1, <2>3 DEF LeaseInv
<1>10. CASE /\ lease[k].st # "none" /\ generation = call[c].gen /\ pending # None /\ pending.token = k
            /\ pending' = [pending EXCEPT !.leased = TRUE] /\ lease' = lease
  <2>1. pending \in PendingStart
    BY <1>10 DEF TypeOK, SessionType
  <2>2. /\ pending' # None /\ pending'.token = k /\ pending'.leased /\ pending'.turn = pending.turn
    BY <1>10, <2>1, PendingAssumption DEF PendingStart
  <2>3. Leased(k)
    BY <1>1, <1>2, <1>10 DEF Leased, LeaseInv, LeasesAreTrue
  <2>4. pending.turn # 0 => pending.turn \in Turns /\ srv[pending.turn].token # k
    <3> SUFFICES ASSUME pending.turn # 0 PROVE pending.turn \in Turns /\ srv[pending.turn].token # k
      OBVIOUS
    <3>1. pending.turn \in Turns /\ srv[pending.turn].st # "unused"
      BY <1>10, <2>1 DEF PendingStart, BaseInv, PendingIsTrue
    <3>2. Known(srv[pending.turn].token)
      BY <3>1 DEF BaseInv, ServerIsTrue
    <3> QED BY <1>1, <1>2, <3>1, <3>2 DEF Known, Unsent
  <2>5. \A t \in Turns : units[t] # 0 => active.turn = t /\ units[t] = k
    BY <1>10 DEF LeaseInv, UnitsAreTrue
  <2>6. UnitsAreTrue'
    <3>1. Leased(k)'
      BY <1>3, <1>10, <2>3 DEF Leased
    <3>2. \A t \in Turns : units[t] # 0 => Leased(units[t])'
      BY <1>3, <2>5, <3>1 DEF Leased
    <3>3. Leased(pending.token)'
      BY <2>2, <3>1 DEF Leased
    <3> QED BY <1>3, <2>2, <2>4, <2>5, <3>2, <3>3 DEF UnitsAreTrue
  <2>7. LeaseHeld'
    <3>1. InSession(k)'
      BY <2>2 DEF InSession
    <3>2. \A l \in Tokens : InSession(l) => InSession(l)'
      BY <1>3, <1>10, <2>2 DEF InSession
    <3> QED BY <1>3, <1>5, <1>8, <3>1, <3>2, HeldMove DEF LeaseInv
  <2> QED BY <1>7, <2>6, <2>7 DEF LeaseInv
<1> QED BY <1>4, <1>5, <1>9, <1>10, SettledMoves DEF LeaseMoves

\* A rollback hands the unit of its start on, and with it the one that its turn had bound.
LEMMA LeaseRollback ==
  ASSUME TypeOK, BaseInv, LeaseInv, NEW g, NEW k, NEW interrupt \in BOOLEAN, Rollback(g, k, interrupt),
         NoneOpens, NoneAttaches, UNCHANGED <<generation, nextToken, lease, inval, srv>>,
         loop' = loop \/ loop.lease = 0
  PROVE  LeaseInv'
<1>1. CASE UNCHANGED <<pending, active, units, aftermath>>
  <2>1. \A l \in Tokens : loop.lease = l => loop'.lease = l
    OBVIOUS
  <2> QED BY <1>1, <2>1, LeaseQuiet, LeaseStays, SrvSame
<1>2. CASE pending # None /\ RollbackOf(pending, active, units, interrupt)
  <2>1. pending \in PendingStart /\ pending.token \in Tokens /\ pending.turn \in Turns \union {0}
    BY <1>2 DEF TypeOK, SessionType, PendingStart
  <2> DEFINE committed == pending.turn # 0 /\ active.thread = pending.thread /\ active.turn = pending.turn
  <2>2. /\ pending' = None
        /\ active' = IF committed THEN [active EXCEPT !.turn = 0] ELSE active
        /\ units' = IF committed THEN [units EXCEPT ![pending.turn] = 0] ELSE units
    BY <1>2 DEF RollbackOf
  <2>3. /\ aftermath \subseteq aftermath'
        /\ pending.leased => \E r \in aftermath' : r.lease = pending.token
    <3> DEFINE r == [lease |-> IF pending.leased THEN pending.token ELSE 0,
                     turn |-> IF committed /\ interrupt THEN pending.turn ELSE 0]
    <3>1. aftermath' = aftermath \union {r}
      BY <1>2 DEF RollbackOf
    <3>2. pending.leased => r.lease = pending.token
      OBVIOUS
    <3> HIDE DEF r
    <3> QED BY <3>1, <3>2
  <2>4. \A t \in Turns : units[t] # 0 => /\ active.turn = t /\ Leased(units[t])
                                         /\ pending.leased /\ units[t] = pending.token
    BY <1>2 DEF LeaseInv, UnitsAreTrue
  <2>5. active'.turn = IF committed THEN 0 ELSE active.turn
    BY <2>2 DEF TypeOK, SessionType
  <2>6. \A t \in Turns : units'[t] # 0 => units'[t] = units[t] /\ ~(committed /\ t = pending.turn)
    BY <2>2 DEF TypeOK, SessionType
  <2>7. \A t \in Turns : units'[t] # 0 => active'.turn = t /\ units'[t] = units[t] /\ Leased(units[t])
    BY <2>4, <2>5, <2>6
  <2> HIDE DEF committed
  <2>8. UnitsAreTrue'
    <3>1. ASSUME NEW t \in Turns, units'[t] # 0 PROVE Leased(units[t])'
      BY <2>7, <3>1 DEF Leased
    <3> QED BY <2>2, <2>7, <3>1 DEF UnitsAreTrue
  <2>9. LeasesAreTrue'
    <3>1. \A l \in Tokens : lease'[l].st = "open" => inval'[lease[l].gen] # "done"
      BY DEF LeaseInv, LeasesAreTrue
    <3> QED BY <3>1, LeasesMove, LeaseStays DEF LeaseInv
  <2>10. LeaseHeld'
    <3>1. ASSUME NEW l \in Tokens, InSession(l)
          PROVE  InSession(l)' \/ \E r \in aftermath' : r.lease = l
      <4>1. CASE pending.leased /\ pending.token = l
        BY <2>3, <4>1
      <4>2. CASE active.turn # 0 /\ units[active.turn] = l
        <5>1. active.turn \in Turns /\ units[active.turn] # 0
          BY <4>2 DEF TypeOK, SessionType
        <5> QED BY <2>3, <2>4, <4>2, <5>1
      <4> QED BY <3>1, <4>1, <4>2 DEF InSession
    <3>2. \A l \in Tokens : loop.lease = l => loop'.lease = l
      OBVIOUS
    <3>3. \A l : (\E r \in aftermath : r.lease = l) => (\E r \in aftermath' : r.lease = l)
      BY <2>3
    <3> QED BY <3>1, <3>2, <3>3, OpeningStays, HeldMove, LeaseStays DEF LeaseInv
  <2> QED BY <2>8, <2>9, <2>10 DEF LeaseInv
<1> QED BY <1>1, <1>2 DEF Rollback

\* The rollbacks of a start.
LEMMA LeaseRolled ==
  ASSUME TypeOK, BaseInv, LeaseInv,
         (\E c \in Calls : StartFailed(c) \/ InterruptAcked(c)) \/ LoopRollback
  PROVE  LeaseInv'
<1>1. ASSUME NEW c \in Calls, StartFailed(c) \/ InterruptAcked(c) PROVE LeaseInv'
  <2>1. NoneOpens /\ NoneAttaches
    BY <1>1, ReturnsApart DEF StartFailed, InterruptAcked
  <2> QED BY <1>1, <2>1, LeaseRollback DEF StartFailed, InterruptAcked
<1>2. CASE LoopRollback
  <2>1. NoneOpens /\ NoneAttaches
    BY <1>2, CallsApart DEF LoopRollback
  <2> QED BY <1>2, <2>1, LeaseRollback DEF LoopRollback
<1> QED BY <1>1, <1>2

\* Binding the unit of a start to its turn: what was bound stays, since it is the same.
LEMMA LeaseConfirmed ==
  ASSUME TypeOK, SessionInv, BaseInv, LeaseInv, NEW g, NEW k, NEW th, NEW t \in Turns,
         CanConfirm(g, k, th, t), active' = Confirmed(t), units' = Bound(t)
  PROVE  /\ pending \in PendingStart /\ pending # None
         /\ ~pending.terminal => active'.turn = t /\ (pending.leased => units'[t] = pending.token)
         /\ pending.terminal => pending.turn = t /\ active'.turn = active.turn /\ units' = units
         /\ \A u \in Turns : units'[u] # 0 => /\ active'.turn = u /\ pending.leased
                                              /\ units'[u] = pending.token
         /\ \A l \in Tokens : active.turn # 0 /\ units[active.turn] = l =>
                                active'.turn # 0 /\ units'[active'.turn] = l
<1>1. pending \in PendingStart /\ pending # None /\ pending.turn \in {0, t} /\ active.turn \in Turns \union {0}
  BY DEF CanConfirm, TypeOK, SessionType
<1>2. active.turn # 0 => active.turn = t
  BY <1>1 DEF SessionInv, OneTurn
<1>3. \A u \in Turns : units[u] # 0 => active.turn = u /\ pending.leased /\ units[u] = pending.token
  BY <1>1 DEF LeaseInv, UnitsAreTrue
<1>4. CASE pending.terminal
  <2>1. pending.turn = t
    BY <1>1, <1>4 DEF BaseInv, PendingIsTrue
  <2>2. active' = active /\ units' = units
    BY <1>4 DEF Confirmed, Bound
  <2> QED BY <1>1, <1>3, <1>4, <2>1, <2>2
<1>5. CASE ~pending.terminal
  <2>1. active'.turn = t
    BY <1>5 DEF Confirmed, TypeOK, SessionType
  <2>2. pending.leased => units'[t] = pending.token
    BY <1>3, <1>5 DEF Bound, TypeOK, SessionType
  <2>3. \A u \in Turns : units'[u] = units[u] \/ (u = t /\ pending.leased /\ units'[u] = pending.token)
    BY DEF Bound, TypeOK, SessionType
  <2>4. \A u \in Turns : units'[u] # 0 => active'.turn = u /\ pending.leased /\ units'[u] = pending.token
    BY <1>2, <1>3, <2>1, <2>3
  <2>5. \A l \in Tokens : active.turn # 0 /\ units[active.turn] = l =>
                                active'.turn # 0 /\ units'[active'.turn] = l
    BY <1>1, <1>2, <1>3, <2>1, <2>2
  <2> QED BY <1>1, <1>5, <2>1, <2>2, <2>4, <2>5
<1> QED BY <1>4, <1>5

\* What a pending start leased stays so.
LEMMA LeasedStays ==
  ASSUME LeaseMoves, UNCHANGED generation, NEW k, Leased(k)
  PROVE  Leased(k)'
BY DEF Leased, LeaseMoves

\* The response binds the unit of its start for good.
LEMMA LeaseReplied ==
  ASSUME TypeOK, SessionInv, BaseInv, DecisionInv, LeaseInv, NEW c \in Calls, StartReplied(c)
  PROVE  LeaseInv'
<1> DEFINE t == call[c].turn
           ok == CanConfirm(call[c].gen, call[c].token, call[c].thread, t)
<1>1. t \in Turns /\ NoneOpens /\ NoneAttaches
      /\ UNCHANGED <<generation, nextToken, lease, inval, srv, loop>>
  BY ReturnsApart DEF StartReplied, TypeOK, CallType
<1>2. ASSUME Rollback(call[c].gen, call[c].token, TRUE) PROVE LeaseInv'
  BY <1>1, <1>2, LeaseRollback
<1>3. ASSUME ok PROVE pending.decision # 0 => decision[pending.decision].claim = pending.token
  BY <1>3 DEF CanConfirm, DecisionInv, ContinuationHasClaim
<1>4. ASSUME ok, active' = Confirmed(t), units' = Bound(t), pending' = None, UNCHANGED aftermath
      PROVE  LeaseInv'
  <2>1. /\ pending \in PendingStart /\ pending # None
        /\ ~pending.terminal => active'.turn = t /\ (pending.leased => units'[t] = pending.token)
        /\ pending.terminal => pending.turn = t /\ active'.turn = active.turn /\ units' = units
        /\ \A u \in Turns : units'[u] # 0 => /\ active'.turn = u /\ pending.leased
                                             /\ units'[u] = pending.token
        /\ \A l \in Tokens : active.turn # 0 /\ units[active.turn] = l =>
                               active'.turn # 0 /\ units'[active'.turn] = l
    BY <1>1, <1>4, LeaseConfirmed
  <2>2. pending.leased => Leased(pending.token)
    BY <2>1 DEF LeaseInv, UnitsAreTrue
  <2>3. PICK k : k = pending.token
    OBVIOUS
  <2>4. pending.leased => Leased(k)'
    BY <1>1, <2>2, <2>3, LeasedStays, LeaseStays
  <2>5. UnitsAreTrue'
    <3>1. \A u \in Turns : units'[u] # 0 => units'[u] = k /\ Leased(k)'
      BY <2>1, <2>3, <2>4
    <3>2. \A u \in Turns : units'[u] # 0 => active'.turn = u
      BY <2>1
    <3> QED BY <1>4, <3>1, <3>2 DEF UnitsAreTrue, Leased
  <2>6. LeasesAreTrue'
    <3>1. \A l \in Tokens : lease'[l].st = "open" => inval'[lease[l].gen] # "done"
      BY <1>1 DEF LeaseInv, LeasesAreTrue
    <3> QED BY <1>1, <3>1, LeasesMove, LeaseStays DEF LeaseInv
  <2>7. pending.leased => active'.turn # 0 /\ units'[active'.turn] = pending.token
    <3>1. CASE ~pending.terminal
      BY <1>1, <2>1, <3>1
    <3>2. CASE pending.terminal /\ pending.leased
      <4>1. call[c].pc = "replied" /\ pending.token = call[c].token
        BY <1>4 DEF StartReplied, CanConfirm
      <4>2. srv[t].token = pending.token
        BY <4>1 DEF BaseInv, ServerIsTrue
      <4>3. units[t] = pending.token /\ pending.token # 0
        BY <1>1, <2>1, <3>2, <4>2 DEF LeaseInv, UnitsAreTrue, PendingStart
      <4> QED BY <1>1, <2>1, <3>2, <4>3
    <3> QED BY <3>1, <3>2
  <2>8. LeaseHeld'
    <3>1. \A l \in Tokens : InSession(l) => InSession(l)'
      BY <2>1, <2>7 DEF InSession
    <3> QED BY <1>1, <1>4, <3>1, OpeningStays, HeldMove, LeaseStays DEF LeaseInv
  <2> QED BY <2>5, <2>6, <2>8 DEF LeaseInv
<1> QED BY <1>2, <1>3, <1>4 DEF StartReplied

\* The notification of a start binds its unit too, and leaves it pending.
LEMMA LeaseStarted ==
  ASSUME TypeOK, TypeOK', SessionInv, BaseInv, LeaseInv, NEW t \in Turns, NEW th,
         CanConfirm(generation, pending.token, th, t), active' = Confirmed(t), units' = Bound(t),
         pending' = [pending EXCEPT !.turn = t],
         UNCHANGED <<generation, nextToken, work, call, loop, srv>>
  PROVE  LeaseInv'
<1>1. /\ pending \in PendingStart /\ pending # None
      /\ ~pending.terminal => active'.turn = t /\ (pending.leased => units'[t] = pending.token)
      /\ pending.terminal => pending.turn = t /\ active'.turn = active.turn /\ units' = units
      /\ \A u \in Turns : units'[u] # 0 => /\ active'.turn = u /\ pending.leased
                                           /\ units'[u] = pending.token
      /\ \A l \in Tokens : active.turn # 0 /\ units[active.turn] = l =>
                             active'.turn # 0 /\ units'[active'.turn] = l
  BY LeaseConfirmed
<1>2. /\ pending' # None /\ pending'.token = pending.token /\ pending'.turn = t
      /\ pending'.leased = pending.leased
  BY <1>1, PendingAssumption DEF PendingStart
<1>3. PICK k \in Tokens : k = pending.token
  BY <1>1 DEF PendingStart
<1>4. pending.leased => Leased(k)'
  BY <1>1, <1>3, LeasedStays, LeaseStays DEF LeaseInv, UnitsAreTrue
<1>5. UnitsAreTrue'
  <2>1. \A u \in Turns : units'[u] # 0 => active'.turn = u /\ units'[u] = k /\ Leased(k)' /\ pending.leased
    BY <1>1, <1>3, <1>4
  <2>2. pending.leased /\ srv[t].token = k => units'[t] = k
    <3>1. CASE ~pending.terminal
      BY <1>1, <1>3, <3>1
    <3>2. CASE pending.terminal
      BY <1>1, <1>3, <3>2 DEF LeaseInv, UnitsAreTrue
    <3> QED BY <3>1, <3>2
  <2> QED BY <1>2, <1>3, <1>4, <2>1, <2>2 DEF UnitsAreTrue, Leased
<1>6. LeasesAreTrue'
  <2>1. \A l \in Tokens : lease'[l].st = "open" => inval'[lease[l].gen] # "done"
    BY DEF LeaseInv, LeasesAreTrue
  <2> QED BY <2>1, LeasesMove, LeaseStays, CallsApart DEF LeaseInv
<1>7. LeaseHeld'
  <2>1. \A l \in Tokens : InSession(l) => InSession(l)'
    BY <1>1, <1>2 DEF InSession
  <2>2. \A l : Opening(l) => Opening(l)'
    BY DEF Opening
  <2> QED BY <2>1, <2>2, HeldMove, LeaseStays DEF LeaseInv
<1> QED BY <1>5, <1>6, <1>7 DEF LeaseInv

\* The connection that is lost leaves its units to the invalidation of its generation.
LEMMA LeaseGone ==
  ASSUME TypeOK, BaseInv, LeaseInv, pending' = None, units' = NoUnits, NoneOpens, NoneAttaches,
         inval' = [inval EXCEPT ![generation] = IF @ = "no" THEN "due" ELSE @],
         UNCHANGED <<generation, nextToken, lease, aftermath, loop>>
  PROVE  LeaseInv'
<1>1. /\ inval[generation] # "done" => inval'[generation] = "due"
      /\ \A h \in Generations : h # generation => inval'[h] = inval[h]
      /\ \A h \in Generations : /\ inval[h] # "done" => inval'[h] # "done"
                                /\ inval[h] = "due" => inval'[h] = "due"
  BY DEF TypeOK, WorkType
<1>2. \A k \in Tokens : lease[k].st = "open" => lease[k].gen \in Generations /\ inval[lease[k].gen] # "done"
  BY DEF LeaseInv, LeasesAreTrue
<1>3. LeasesAreTrue'
  BY <1>1, <1>2, LeasesMove, LeaseStays DEF LeaseInv
<1>4. UnitsAreTrue'
  BY DEF UnitsAreTrue, NoUnits
<1>5. LeaseHeld'
  <2>1. ASSUME NEW k \in Tokens, lease[k].st = "open", InSession(k) PROVE inval'[lease[k].gen] = "due"
    <3>1. Leased(k)
      <4>1. CASE pending # None /\ pending.leased /\ pending.token = k
        BY <4>1 DEF LeaseInv, UnitsAreTrue
      <4>2. CASE active.turn # 0 /\ units[active.turn] = k
        <5>1. active.turn \in Turns /\ units[active.turn] # 0
          BY <4>2 DEF TypeOK, SessionType
        <5> QED BY <4>2, <5>1 DEF LeaseInv, UnitsAreTrue
      <4> QED BY <2>1, <4>1, <4>2 DEF InSession
    <3> QED BY <1>1, <1>2, <2>1, <3>1 DEF Leased
  <2> QED BY <1>1, <1>2, <2>1, OpeningStays, HeldMove, LeaseStays DEF LeaseInv
<1> QED BY <1>3, <1>4, <1>5 DEF LeaseInv

\* LeaseInv survives the loss of the connection.
LEMMA LeaseLost ==
  ASSUME TypeOK, BaseInv, LeaseInv,
         \/ \E c \in Calls : PolicyStop(c)
         \/ Teardown /\ UNCHANGED <<nextToken, call, loop>>
  PROVE  LeaseInv'
<1>1. ASSUME NEW c \in Calls, PolicyStop(c) PROVE LeaseInv'
  <2>1. NoneOpens /\ NoneAttaches
    BY <1>1, ReturnsApart DEF PolicyStop
  <2> QED BY <1>1, <2>1, LeaseGone DEF PolicyStop
<1>2. CASE Teardown /\ UNCHANGED <<nextToken, call, loop>>
  BY <1>2, LeaseGone, CallsApart DEF Teardown
<1> QED BY <1>1, <1>2

\* A replacement finds no open unit in the session: the generation has been invalidated.
LEMMA LeaseReconnect == ASSUME TypeOK, BaseInv, LeaseInv, Reconnect PROVE LeaseInv'
<1>1. /\ inval[generation] = "done" /\ pending' = None /\ units' = NoUnits
      /\ UNCHANGED <<nextToken, work, call, loop>>
  BY DEF Reconnect
<1>2. LeasesAreTrue'
  <2>1. \A l \in Tokens : lease'[l].st = "open" => inval'[lease[l].gen] # "done"
    BY <1>1 DEF LeaseInv, LeasesAreTrue
  <2> QED BY <1>1, <2>1, LeasesMove, LeaseStays, CallsApart DEF LeaseInv
<1>3. UnitsAreTrue'
  BY <1>1 DEF UnitsAreTrue, NoUnits
<1>4. LeaseHeld'
  <2>1. ASSUME NEW k \in Tokens, lease[k].st = "open", InSession(k) PROVE FALSE
    <3>1. Leased(k)
      <4>1. CASE pending # None /\ pending.leased /\ pending.token = k
        BY <4>1 DEF LeaseInv, UnitsAreTrue
      <4>2. CASE active.turn # 0 /\ units[active.turn] = k
        <5>1. active.turn \in Turns /\ units[active.turn] # 0
          BY <4>2 DEF TypeOK, SessionType
        <5> QED BY <4>2, <5>1 DEF LeaseInv, UnitsAreTrue
      <4> QED BY <2>1, <4>1, <4>2 DEF InSession
    <3> QED BY <1>1, <2>1, <3>1 DEF Leased, LeaseInv, LeasesAreTrue
  <2>2. \A k : Opening(k) => Opening(k)'
    BY <1>1 DEF Opening
  <2> QED BY <1>1, <2>1, <2>2, HeldMove, LeaseStays DEF LeaseInv
<1> QED BY <1>2, <1>3, <1>4 DEF LeaseInv

\* LeaseInv survives TurnStarted.
LEMMA LeaseTurnStarted ==
  ASSUME TypeOK, TypeOK', SessionInv, BaseInv, LeaseInv, TurnStarted
  PROVE  LeaseInv'
<1> DEFINE t == Head(notes).turn
           th == srv[t].thread
<1>1. t \in Turns
  BY HeadType DEF TurnStarted
<1>2. ASSUME CanConfirm(generation, pending.token, th, t), active' = Confirmed(t), units' = Bound(t),
             pending' = [pending EXCEPT !.turn = t],
             UNCHANGED <<generation, nextToken, work, call, loop, srv>>
      PROVE  LeaseInv'
  <2> HIDE DEF t, th
  <2> QED BY <1>1, <1>2, LeaseStarted
<1>3. ASSUME UNCHANGED <<conn, session, work, srv, nextToken, call, loop>> PROVE LeaseInv'
  BY <1>3, LeaseSame, SrvSame, CallsApart
<1>4. ASSUME Teardown, UNCHANGED <<nextToken, call, loop>> PROVE LeaseInv'
  BY <1>4, LeaseLost
<1> QED BY <1>2, <1>3, <1>4 DEF TurnStarted

\* The end of the active turn hands its unit to the loop, and so does not leave it with the start.
LEMMA LeaseCompleted ==
  ASSUME TypeOK, TypeOK', SessionInv, BaseInv, LeaseInv, TurnCompleted
  PROVE  LeaseInv'
<1> DEFINE t == Head(notes).turn
           ok == Head(notes).ok
           th == srv[t].thread
           mine == pending # None /\ pending.thread = th /\ pending.turn = t
           current == active.thread = th /\ active.turn = t
           bound == IF current THEN units[t] ELSE 0
<1>1. t \in Turns /\ loop.lease = 0
  BY HeadType DEF TurnCompleted, Receive, IdleLoop
<1>2. UNCHANGED <<generation, nextToken, work, call, srv>>
  BY DEF TurnCompleted
<1>3. /\ active'.turn = IF current THEN 0 ELSE active.turn
      /\ units' = IF current THEN [units EXCEPT ![t] = 0] ELSE units
      /\ loop'.lease = bound
  BY DEF TurnCompleted, TypeOK, SessionType
<1>4. pending # None =>
        /\ pending' # None /\ pending'.token = pending.token /\ pending'.turn = pending.turn
        /\ pending'.leased = IF mine THEN pending.leased /\ bound = 0 ELSE pending.leased
  <2> SUFFICES ASSUME pending # None
               PROVE  /\ pending' # None /\ pending'.token = pending.token /\ pending'.turn = pending.turn
                      /\ pending'.leased = IF mine THEN pending.leased /\ bound = 0 ELSE pending.leased
    OBVIOUS
  <2>1. pending \in PendingStart
    BY DEF TypeOK, SessionType
  <2>2. CASE ~mine
    BY <2>2 DEF TurnCompleted
  <2>3. CASE mine
    <3> DEFINE a == pending.terminal \/ ok
               b == pending.leased /\ bound = 0
    <3>1. a \in BOOLEAN /\ b \in BOOLEAN
      OBVIOUS
    <3>2. pending' = [pending EXCEPT !.terminal = a, !.leased = b]
      BY <2>3 DEF TurnCompleted
    <3> HIDE DEF a, b
    <3>3. pending' # None /\ pending'.token = pending.token /\ pending'.turn = pending.turn /\ pending'.leased = b
      BY <2>1, <3>1, <3>2, PendingAssumption DEF PendingStart
    <3> QED BY <2>3, <3>3 DEF b
  <2> QED BY <2>2, <2>3
<1>5. pending = None => pending' = None
  BY DEF TurnCompleted
<1>6. current /\ pending # None => mine
  <2> SUFFICES ASSUME current, pending # None PROVE mine
    OBVIOUS
  <2>1. pending.turn = t
    BY <1>1 DEF SessionInv, OneTurn
  <2> QED BY <1>1, <2>1 DEF BaseInv, PendingIsTrue
<1>7. \A u \in Turns : units[u] # 0 => /\ active.turn = u /\ Leased(units[u])
                                       /\ pending # None => pending.leased /\ units[u] = pending.token
  BY DEF LeaseInv, UnitsAreTrue
<1>8. CASE current
  <2>1. active.turn = t /\ active'.turn = 0 /\ bound = units[t] /\ loop'.lease = units[t]
    BY <1>3, <1>8
  <2>2. \A u \in Turns : units'[u] = 0
    <3>1. \A u \in Turns : u # t => units'[u] = units[u]
      BY <1>3, <1>8
    <3>2. units'[t] = 0
      BY <1>1, <1>3, <1>8 DEF TypeOK, SessionType
    <3> QED BY <1>7, <2>1, <3>1, <3>2
  <2>3. pending # None => /\ pending' # None /\ pending'.token = pending.token /\ pending'.turn = t
                          /\ pending'.leased = (pending.leased /\ units[t] = 0) /\ pending.turn = t
    BY <1>4, <1>6, <1>8, <2>1
  <2> HIDE DEF mine, current, bound, th
  <2>4. UnitsAreTrue'
    <3>1. pending # None /\ pending'.leased => Leased(pending.token)
      BY <2>3 DEF LeaseInv, UnitsAreTrue
    <3>2. PICK k : k = pending.token
      OBVIOUS
    <3>3. pending # None /\ pending'.leased => Leased(k)'
      BY <1>2, <3>1, <3>2, LeasedStays, LeaseStays
    <3>4. ASSUME pending # None, pending'.leased, srv[t].token = pending.token PROVE FALSE
      <4>1. pending.leased /\ units[t] = 0 /\ pending.turn = t
        BY <2>3, <3>4
      <4>2. pending \in PendingStart
        BY <3>4 DEF TypeOK, SessionType
      <4>3. pending.token # 0
        BY <4>2 DEF PendingStart
      <4>4. pending.turn # 0
        BY <1>1, <4>1
      <4>5. units[pending.turn] = pending.token
        BY <3>4, <4>1, <4>4 DEF LeaseInv, UnitsAreTrue
      <4> QED BY <4>1, <4>3, <4>5
    <3> QED BY <1>2, <1>5, <2>2, <2>3, <3>2, <3>3, <3>4 DEF UnitsAreTrue, Leased
  <2>5. LeaseHeld'
    <3>1. ASSUME NEW l \in Tokens, InSession(l) PROVE InSession(l)' \/ loop'.lease = l
      <4>1. CASE active.turn # 0 /\ units[active.turn] = l
        BY <2>1, <4>1
      <4>2. CASE pending # None /\ pending.leased /\ pending.token = l /\ units[t] = 0
        BY <2>3, <4>2 DEF InSession
      <4>3. CASE pending # None /\ pending.leased /\ pending.token = l /\ units[t] # 0
        BY <1>1, <1>7, <2>1, <4>3
      <4> QED BY <3>1, <4>1, <4>2, <4>3 DEF InSession
    <3>2. \A l \in Tokens : loop.lease # l
      BY <1>1
    <3>3. \A l : Opening(l) => Opening(l)'
      BY <1>2 DEF Opening
    <3> QED BY <1>2, <3>1, <3>2, <3>3, HeldMove, LeaseStays DEF LeaseInv
  <2>6. LeasesAreTrue'
    <3>1. \A l \in Tokens : lease'[l].st = "open" => inval'[lease[l].gen] # "done"
      BY <1>2 DEF LeaseInv, LeasesAreTrue
    <3> QED BY <1>2, <3>1, LeasesMove, LeaseStays, CallsApart DEF LeaseInv
  <2> QED BY <2>4, <2>5, <2>6 DEF LeaseInv
<1>9. CASE ~current
  <2>1. active'.turn = active.turn /\ units' = units /\ bound = 0
    BY <1>3, <1>9
  <2>2. pending # None => /\ pending' # None /\ pending'.token = pending.token
                          /\ pending'.turn = pending.turn /\ (pending'.leased <=> pending.leased)
    BY <1>4, <2>1
  <2> HIDE DEF mine, current, bound, th
  <2>3. UnitsAreTrue'
    <3>1. PICK k : k = pending.token
      OBVIOUS
    <3>2. pending # None /\ pending.leased => Leased(k)'
      BY <1>2, <3>1, LeasedStays, LeaseStays DEF LeaseInv, UnitsAreTrue
    <3>3. ASSUME NEW u \in Turns, units[u] # 0 PROVE Leased(units[u])'
      <4>1. PICK l : l = units[u]
        OBVIOUS
      <4>2. Leased(l)'
        BY <1>2, <1>7, <3>3, <4>1, LeasedStays, LeaseStays
      <4> QED BY <2>1, <4>1, <4>2 DEF Leased
    <3> QED BY <1>2, <1>5, <1>7, <2>1, <2>2, <3>1, <3>2, <3>3 DEF LeaseInv, UnitsAreTrue, Leased
  <2>4. LeaseHeld'
    <3>1. \A l \in Tokens : InSession(l) => InSession(l)'
      BY <1>5, <2>1, <2>2 DEF InSession
    <3>2. \A l \in Tokens : loop.lease # l
      BY <1>1
    <3>3. \A l : Opening(l) => Opening(l)'
      BY <1>2 DEF Opening
    <3> QED BY <1>2, <3>1, <3>2, <3>3, HeldMove, LeaseStays DEF LeaseInv
  <2>5. LeasesAreTrue'
    <3>1. \A l \in Tokens : lease'[l].st = "open" => inval'[lease[l].gen] # "done"
      BY <1>2 DEF LeaseInv, LeasesAreTrue
    <3> QED BY <1>2, <3>1, LeasesMove, LeaseStays, CallsApart DEF LeaseInv
  <2> QED BY <2>3, <2>4, <2>5 DEF LeaseInv
<1> QED BY <1>8, <1>9

\* LeaseInv survives every step.
LEMMA LeaseStep ==
  TypeOK /\ TypeOK' /\ SessionInv /\ BaseInv /\ DecisionInv /\ LeaseInv /\ [Next]_vars => LeaseInv'
<1> SUFFICES ASSUME TypeOK, TypeOK', SessionInv, BaseInv, DecisionInv, LeaseInv, [Next]_vars
             PROVE  LeaseInv'
  OBVIOUS
<1>1. ASSUME NEW c \in Calls, Issue(c) \/ CallStep(c) PROVE LeaseInv'
  BY <1>1, LeaseIssue, LeaseCommand, LeaseReserve, LeaseBegin, LeaseAttach, LeaseReplied, LeaseRolled,
     LeaseLost DEF CallStep
<1>2. CASE LoopStep
  BY <1>2, LeaseTurnStarted, LeaseOther, LeaseCompleted, LeaseEnds, LeaseRolled, LeaseLost
     DEF LoopStep, ProtocolViolation
<1> QED BY <1>1, <1>2, LeaseOther, LeaseEnds, LeaseInvalidate, LeaseLost, LeaseReconnect, LeaseServer
        DEF Next, ConnectionLost

\* LeaseInv holds before anything has happened.
LEMMA LeaseInit == Init => LeaseInv
BY DEF Init, LeaseInv, LeasesAreTrue, UnitsAreTrue, LeaseHeld

-----------------------------------------------------------------------------
(* Turns: one that runs is supervised, or the loop is about to see it.     *)

\* The start of the turn, or a violation, is on its way to the loop.
OnTheWay(t) == \E i \in 1..Len(notes) : notes[i].m = "violation" \/ Tells(i, "started", t)

\* The turn has been told to stop, or a rollback is about to tell it.
Stopped(t) == t \in asked \/ \E r \in aftermath : r.turn = t

\* A turn that runs is the active one, or its start or a violation is on its way,
\* or it is told to stop. This is more than NoOrphanTurn promises, which is also
\* content with a response: the notification comes first and is not lost.
TurnInv == ready => \A t \in Turns : srv[t].st = "running" =>
                      active.turn = t \/ OnTheWay(t) \/ Stopped(t)

\* Nothing new runs, and what ran is still minded.
LEMMA TurnsMinded ==
  ASSUME TurnInv, ready' => ready,
         \A t \in Turns : ready' /\ srv'[t].st = "running" => srv[t].st = "running",
         \A t \in Turns : ready' /\ srv[t].st = "running" =>
           /\ active.turn = t => active'.turn = t \/ OnTheWay(t)' \/ Stopped(t)'
           /\ OnTheWay(t) => active'.turn = t \/ OnTheWay(t)' \/ Stopped(t)'
           /\ Stopped(t) => Stopped(t)'
  PROVE  TurnInv'
<1> SUFFICES ASSUME ready', NEW t \in Turns, srv'[t].st = "running"
             PROVE  active'.turn = t \/ OnTheWay(t)' \/ Stopped(t)'
  BY DEF TurnInv
<1>1. ready /\ srv[t].st = "running"
  OBVIOUS
<1>2. active.turn = t \/ OnTheWay(t) \/ Stopped(t)
  BY <1>1 DEF TurnInv
<1> QED BY <1>1, <1>2

\* What is on its way stays so while nothing is received.
LEMMA WayStays ==
  ASSUME TypeOK, notes' = notes \/ \E n : notes' = Append(notes, n), NEW t
  PROVE  OnTheWay(t) => OnTheWay(t)'
<1>1. notes \in Seq(Notification) /\ Len(notes) \in Nat
  BY DEF TypeOK, ServerType
<1>2. \A i \in 1..Len(notes) : i \in 1..Len(notes') /\ notes'[i] = notes[i]
  BY <1>1
<1> QED BY <1>2 DEF OnTheWay, Tells

\* What is received is no longer on its way.
LEMMA WayTaken ==
  ASSUME TypeOK, notes # <<>>, notes' = Tail(notes), NEW t, OnTheWay(t),
         Head(notes).m # "violation", ~(Head(notes).m = "started" /\ Head(notes).turn = t)
  PROVE  OnTheWay(t)'
<1>1. notes \in Seq(Notification) /\ Len(notes) \in Nat /\ Head(notes) = notes[1]
  BY DEF TypeOK, ServerType
<1>2. PICK n \in Nat : n = Len(notes) /\ n # 0
  BY <1>1
<1>3. PICK i \in 1..n : notes[i].m = "violation" \/ Tells(i, "started", t)
  BY <1>2 DEF OnTheWay
<1>4. i # 1
  BY <1>1, <1>3 DEF Tells
<1>5. i - 1 \in 1..Len(notes') /\ notes'[i - 1] = notes[i]
  BY <1>1, <1>2, <1>4
<1>6. PICK j : j = i - 1
  OBVIOUS
<1> QED BY <1>3, <1>5, <1>6 DEF OnTheWay, Tells

\* Who is told to stop stays told.
LEMMA StoppedStays ==
  ASSUME asked \subseteq asked', aftermath \subseteq aftermath', NEW t
  PROVE  Stopped(t) => Stopped(t)'
BY DEF Stopped

\* Steps that take nothing from the notifications and nobody's turn away.
LEMMA TurnQuiet ==
  ASSUME TypeOK, TurnInv, ready' => ready, active'.turn = active.turn,
         \A t \in Turns : srv'[t].st = "running" => srv[t].st = "running",
         notes' = notes \/ \E n : notes' = Append(notes, n),
         asked \subseteq asked', aftermath \subseteq aftermath'
  PROVE  TurnInv'
BY TurnsMinded, WayStays, StoppedStays

\* A rollback takes the active turn only if that is asked to stop: by the rollback
\* itself, by the interrupt that it follows, or by nobody since it is over.
LEMMA TurnRolled ==
  ASSUME NEW p, NEW a, NEW u, NEW interrupt \in BOOLEAN, RollbackOf(p, a, u, interrupt),
         NEW t \in Turns, a.turn = t, interrupt \/ p.turn # t \/ t \in asked, UNCHANGED asked
  PROVE  active'.turn = t \/ Stopped(t)'
<1> DEFINE committed == p.turn # 0 /\ a.thread = p.thread /\ a.turn = p.turn
           r == [lease |-> IF p.leased THEN p.token ELSE 0,
                 turn |-> IF committed /\ interrupt THEN p.turn ELSE 0]
<1>1. active' = (IF committed THEN [a EXCEPT !.turn = 0] ELSE a) /\ r \in aftermath'
  BY DEF RollbackOf
<1>2. committed /\ interrupt => r.turn = t
  OBVIOUS
<1>3. committed /\ ~interrupt => t \in asked'
  OBVIOUS
<1> HIDE DEF committed, r
<1>4. CASE ~committed
  BY <1>1, <1>4
<1>5. CASE committed
  BY <1>1, <1>2, <1>3, <1>5 DEF Stopped
<1> QED BY <1>4, <1>5

\* TurnInv survives a rollback.
LEMMA TurnRollback ==
  ASSUME TypeOK, TurnInv, NEW g, NEW k, NEW interrupt \in BOOLEAN, Rollback(g, k, interrupt),
         \/ interrupt
         \/ generation = g /\ pending # None /\ pending.token = k =>
              \A t \in Turns : ready /\ srv[t].st = "running" /\ pending.turn = t => t \in asked,
         UNCHANGED <<ready, srv, notes, asked>>
  PROVE  TurnInv'
<1>1. CASE UNCHANGED <<active, aftermath>>
  BY <1>1, TurnQuiet
<1>2. CASE RollbackOf(pending, active, units, interrupt) /\ generation = g /\ pending # None /\ pending.token = k
  <2>1. aftermath \subseteq aftermath'
    BY <1>2 DEF RollbackOf
  <2>2. ASSUME NEW t \in Turns, ready, srv[t].st = "running", active.turn = t
        PROVE  active'.turn = t \/ Stopped(t)'
    BY <1>2, <2>2, TurnRolled
  <2> QED BY <2>1, <2>2, TurnsMinded, WayStays, StoppedStays
<1> QED BY <1>1, <1>2 DEF Rollback

\* TurnInv survives what the commands do besides confirming and rolling back.
LEMMA TurnCommand ==
  ASSUME TypeOK, TurnInv, NEW c \in Calls,
         \/ Issue(c) \/ SendThread(c) \/ (\E th \in Threads : AcceptThread(c, th))
         \/ (\E listed \in SUBSET Threads : ListThreads(c, listed))
         \/ Reserve(c) \/ ClaimDecision(c) \/ BeginWorkUnit(c) \/ AttachWorkUnit(c)
         \/ Send(c) \/ Timeout(c) \/ SendInterrupt(c) \/ CommandFails(c) \/ ClaimExpired(c)
  PROVE  TurnInv'
<1>1. UNCHANGED <<ready, srv, notes, aftermath>> /\ asked \subseteq asked'
  BY DEF Issue, ReadyContext, SendThread, AcceptThread, ListThreads, Reserve, ClaimDecision,
         BeginWorkUnit, AttachWorkUnit, Send, Timeout, SendInterrupt, CommandFails, ClaimExpired
<1>2. active'.turn = active.turn
  <2>1. ASSUME NEW w \in Workspaces, Activate(w) PROVE active'.turn = active.turn
    BY <2>1 DEF Activate, Busy
  <2>2. CASE Issue(c)
    BY <2>1, <2>2 DEF Issue, ReadyContext
  <2>3. ASSUME NEW th \in Threads, AcceptThread(c, th) PROVE active'.turn = active.turn
    BY <2>3 DEF AcceptThread, TypeOK, SessionType
  <2> QED BY <2>2, <2>3 DEF SendThread, ListThreads, Reserve, ClaimDecision, BeginWorkUnit,
                            AttachWorkUnit, Send, Timeout, SendInterrupt, CommandFails,
                            ClaimExpired
<1> QED BY <1>1, <1>2, TurnQuiet

\* TurnInv survives the answer to a start. The turn that is confirmed is the one
\* that is active, if any is; one that is over is taken away, but it does not run.
LEMMA TurnReplied ==
  ASSUME TypeOK, SessionInv, TurnInv, NEW c \in Calls, StartReplied(c)
  PROVE  TurnInv'
<1> DEFINE t == call[c].turn
           p == [pending EXCEPT !.turn = t]
           ok == CanConfirm(call[c].gen, call[c].token, call[c].thread, t)
<1>1. UNCHANGED <<ready, srv, notes, asked>> /\ t \in Turns
  BY DEF StartReplied, TypeOK, CallType
<1>2. ASSUME ok, NEW u \in Turns, active.turn = u PROVE Confirmed(t).turn = u
  <2>1. pending # None /\ pending.turn \in {0, t} /\ active.turn # 0
    BY <1>2 DEF CanConfirm
  <2>2. u = t
    BY <1>2, <2>1 DEF SessionInv, OneTurn
  <2> QED BY <1>2, <2>2 DEF Confirmed, TypeOK, SessionType
<1>3. CASE ok /\ active' = Confirmed(t) /\ UNCHANGED aftermath
  BY <1>1, <1>2, <1>3, TurnsMinded, WayStays, StoppedStays
<1>4. CASE ok /\ RollbackOf(p, Confirmed(t), Bound(t), TRUE)
  <2>1. aftermath \subseteq aftermath'
    BY <1>4 DEF RollbackOf
  <2>2. ASSUME NEW u \in Turns, active.turn = u PROVE active'.turn = u \/ Stopped(u)'
    <3>1. Confirmed(t).turn = u
      BY <1>2, <1>4, <2>2
    <3> QED BY <1>1, <1>4, <3>1, TurnRolled
  <2> QED BY <1>1, <2>1, <2>2, TurnsMinded, WayStays, StoppedStays
<1>5. CASE Rollback(call[c].gen, call[c].token, TRUE)
  BY <1>1, <1>5, TurnRollback
<1> QED BY <1>3, <1>4, <1>5 DEF StartReplied

\* TurnInv survives the rollback of a start that failed, that was interrupted, or
\* whose turn has ended.
LEMMA TurnRollsBack ==
  ASSUME TypeOK, BaseInv, TurnInv,
         (\E c \in Calls : StartFailed(c) \/ InterruptAcked(c)) \/ LoopRollback
  PROVE  TurnInv'
<1>1. ASSUME NEW c \in Calls, StartFailed(c) PROVE TurnInv'
  BY <1>1, TurnRollback DEF StartFailed
<1>2. ASSUME NEW c \in Calls, InterruptAcked(c) PROVE TurnInv'
  <2>1. /\ call[c].pc = "interruptSent" /\ Rollback(call[c].gen, call[c].token, FALSE)
        /\ UNCHANGED <<ready, srv, notes, asked>>
    BY <1>2 DEF InterruptAcked
  <2>2. ASSUME generation = call[c].gen, pending # None, pending.token = call[c].token, ready
        PROVE  pending.turn \in asked
    <3>1. pending.token # 0
      <4>1. pending \in PendingStart
        BY <2>2 DEF TypeOK, SessionType
      <4> QED BY <4>1 DEF PendingStart
    <3> QED BY <2>1, <2>2, <3>1 DEF BaseInv, InterruptIsTrue
  <2> QED BY <2>1, <2>2, TurnRollback
<1>3. CASE LoopRollback
  <2>1. Rollback(generation, loop.rollback, FALSE) /\ UNCHANGED <<ready, srv, notes, asked>>
    BY <1>3 DEF LoopRollback
  <2>2. pending # None /\ pending.token = loop.rollback => srv[pending.turn].st = "ended"
    BY DEF BaseInv, PendingIsTrue
  <2> QED BY <2>1, <2>2, TurnRollback
<1> QED BY <1>1, <1>2, <1>3

\* TurnInv survives the end of a connection, and the next one finds nothing running.
LEMMA TurnGone ==
  ASSUME BaseInv, TurnInv, Teardown \/ (\E c \in Calls : PolicyStop(c)) \/ Reconnect
  PROVE  TurnInv'
<1>1. CASE Teardown \/ \E c \in Calls : PolicyStop(c)
  BY <1>1 DEF Teardown, PolicyStop, TurnInv
<1>2. CASE Reconnect
  <2>1. \A t \in Turns : srv'[t].st # "running"
    BY <1>2 DEF Reconnect, BaseInv, ServerIsTrue
  <2> QED BY <2>1 DEF TurnInv
<1> QED BY <1>1, <1>2

\* TurnInv survives what belongs to no command and to no notification.
LEMMA TurnOther ==
  ASSUME TypeOK, TurnInv,
         \/ \E w \in Workspaces : BeginCancellation(w) \/ ReleaseCancellation(w) \/ Unregister(w)
         \/ LoopTerminal \/ (\E t \in Turns : ExpireDecision(t))
         \/ (\E g \in Generations : Invalidate(g)) \/ UNCHANGED vars
  PROVE  TurnInv'
<1>1. UNCHANGED <<ready, srv, notes, asked, aftermath>>
  BY DEF BeginCancellation, ReleaseCancellation, Unregister, LoopTerminal, ExpireDecision,
         Invalidate, vars
<1>2. active'.turn = active.turn
  <2>1. ASSUME NEW w \in Workspaces, Unregister(w) PROVE active'.turn = active.turn
    BY <2>1 DEF Unregister, Busy, NoSession
  <2> QED BY <2>1 DEF BeginCancellation, ReleaseCancellation, LoopTerminal, ExpireDecision,
                      Invalidate, vars
<1> QED BY <1>1, <1>2, TurnQuiet

\* TurnInv survives the rest of a rollback: who was to be told to stop is told.
LEMMA TurnAfter ==
  ASSUME TypeOK, TurnInv, NEW r \in aftermath, AfterRollback(r)
  PROVE  TurnInv'
<1>1. UNCHANGED <<ready, active, srv, notes>> /\ asked \subseteq asked'
  BY DEF AfterRollback
<1>2. ASSUME NEW t \in Turns, ready, Stopped(t) PROVE Stopped(t)'
  <2>1. CASE t \in asked
    BY <1>1, <2>1 DEF Stopped
  <2>2. ASSUME NEW q \in aftermath, q.turn = t PROVE Stopped(t)'
    <3>1. CASE q = r
      BY <1>2, <2>2, <3>1 DEF AfterRollback, Stopped
    <3>2. CASE q # r
      BY <2>2, <3>2 DEF AfterRollback, Stopped
    <3> QED BY <3>1, <3>2
  <2> QED BY <1>2, <2>1, <2>2 DEF Stopped
<1> QED BY <1>1, <1>2, TurnsMinded, WayStays

\* TurnInv survives TurnStarted: the turn becomes the active one, or the connection ends.
LEMMA TurnBegins ==
  ASSUME TypeOK, SessionInv, BaseInv, TurnInv, TurnStarted
  PROVE  TurnInv'
<1> DEFINE t == Head(notes).turn
           th == srv[t].thread
<1>1. notes # <<>> /\ Head(notes).m = "started"
  BY DEF TurnStarted, Receive
<1>2. CASE Teardown
  BY <1>2, TurnGone
<1>3. CASE /\ UNCHANGED <<ready, srv, asked, aftermath>> /\ notes' = Tail(notes)
           /\ pending # None /\ CanConfirm(generation, pending.token, th, t) /\ active' = Confirmed(t)
  <2>1. ASSUME NEW u \in Turns, active.turn = u PROVE active'.turn = u
    <3>1. u = t
      BY <1>3, <2>1 DEF CanConfirm, SessionInv, OneTurn
    <3> QED BY <1>3, <2>1, <3>1 DEF Confirmed, TypeOK, SessionType
  <2>2. ASSUME NEW u \in Turns, srv[u].st = "running", OnTheWay(u)
        PROVE  active'.turn = u \/ OnTheWay(u)'
    <3>1. CASE u # t
      BY <1>1, <1>3, <2>2, <3>1, WayTaken
    <3>2. CASE u = t
      <4>1. ~pending.terminal
        <5>1. pending.terminal => pending.turn # 0 /\ srv[pending.turn].st = "ended"
          BY <1>3 DEF BaseInv, PendingIsTrue
        <5> QED BY <1>3, <2>2, <3>2, <5>1 DEF CanConfirm
      <4> QED BY <1>3, <3>2, <4>1 DEF Confirmed, TypeOK, SessionType
    <3> QED BY <3>1, <3>2
  <2> QED BY <1>3, <2>1, <2>2, TurnsMinded, StoppedStays
<1>4. CASE /\ UNCHANGED <<ready, srv, asked, aftermath, active>> /\ notes' = Tail(notes)
           /\ active.turn = t
  <2>1. ASSUME NEW u \in Turns, OnTheWay(u) PROVE active'.turn = u \/ OnTheWay(u)'
    BY <1>1, <1>4, <2>1, WayTaken
  <2> QED BY <1>4, <2>1, TurnsMinded, StoppedStays
<1> QED BY <1>2, <1>3, <1>4 DEF TurnStarted

\* TurnInv survives a card and the end of a turn: that turn does not run any more.
LEMMA TurnTold ==
  ASSUME TypeOK, BaseInv, TurnInv, DecisionCard \/ TurnCompleted
  PROVE  TurnInv'
<1> DEFINE t == Head(notes).turn
<1>1. /\ notes # <<>> /\ notes' = Tail(notes) /\ Head(notes).m \in {"decision", "completed"}
      /\ UNCHANGED <<ready, srv, aftermath>> /\ asked \subseteq asked'
  BY DEF DecisionCard, TurnCompleted, Receive
<1>2. \A u \in Turns : OnTheWay(u) => OnTheWay(u)'
  BY <1>1, WayTaken
<1>3. ASSUME NEW u \in Turns, srv[u].st = "running", active.turn = u PROVE active'.turn = u
  <2>1. CASE DecisionCard
    BY <1>3, <2>1 DEF DecisionCard
  <2>2. CASE TurnCompleted
    <3>1. srv[t].st = "ended"
      <4>1. Receive("completed")
        BY <2>2 DEF TurnCompleted
      <4> QED BY <4>1, HeadIsTrue
    <3>2. u # t
      BY <1>3, <3>1
    <3> QED BY <1>3, <2>2, <3>2 DEF TurnCompleted
  <2> QED BY <2>1, <2>2
<1> QED BY <1>1, <1>2, <1>3, TurnsMinded, StoppedStays

\* TurnInv survives the server's steps: of the turn that begins the start is on its way.
LEMMA TurnServed == ASSUME TypeOK, TurnInv, ServerStep PROVE TurnInv'
<1>1. ASSUME NEW r \in inbox, NEW t \in Turns, ServerStart(r, t) PROVE TurnInv'
  <2> DEFINE n == Note("started", t, TRUE)
  <2>1. /\ UNCHANGED <<ready, active, asked, aftermath>> /\ notes' = Append(notes, n)
        /\ \A u \in Turns : u # t => srv'[u] = srv[u]
    BY <1>1 DEF ServerStart, TypeOK, ServerType
  <2>2. OnTheWay(t)'
    <3>1. n.m = "started" /\ n.turn = t
      BY DEF Note
    <3> HIDE DEF n
    <3>2. notes \in Seq(Notification) /\ Len(notes) \in Nat
      BY DEF TypeOK, ServerType
    <3>3. PICK l \in Nat : l = Len(notes) + 1
      BY <3>2
    <3>4. l \in 1..Len(notes') /\ notes'[l] = n
      BY <2>1, <3>2, <3>3
    <3> QED BY <3>1, <3>4 DEF OnTheWay, Tells
  <2>3. ASSUME NEW u \in Turns, u # t, ready', srv'[u].st = "running"
        PROVE  active'.turn = u \/ OnTheWay(u)' \/ Stopped(u)'
    <3>1. active.turn = u \/ OnTheWay(u) \/ Stopped(u)
      BY <2>1, <2>3 DEF TurnInv
    <3> QED BY <2>1, <3>1, WayStays, StoppedStays
  <2> QED BY <2>2, <2>3 DEF TurnInv
<1>2. ASSUME NEW r \in inbox, ServerRespond(r) PROVE TurnInv'
  BY <1>2, TurnQuiet DEF ServerRespond
<1>3. ASSUME NEW t \in Turns, ServerDecision(t) PROVE TurnInv'
  BY <1>3, TurnQuiet DEF ServerDecision
<1>4. ASSUME NEW t \in Turns, NEW ok \in BOOLEAN, ServerEnd(t, ok) PROVE TurnInv'
  <2>1. \A u \in Turns : srv'[u].st = "running" => srv[u].st = "running"
    BY <1>4 DEF ServerEnd, TypeOK, ServerType
  <2> QED BY <1>4, <2>1, TurnQuiet DEF ServerEnd
<1> QED BY <1>1, <1>2, <1>3, <1>4 DEF ServerStep

\* TurnInv survives every step.
LEMMA TurnStep == TypeOK /\ SessionInv /\ BaseInv /\ TurnInv /\ [Next]_vars => TurnInv'
<1> SUFFICES ASSUME TypeOK, SessionInv, BaseInv, TurnInv, [Next]_vars PROVE TurnInv'
  OBVIOUS
<1>1. ASSUME NEW c \in Calls, Issue(c) \/ CallStep(c) PROVE TurnInv'
  BY <1>1, TurnCommand, TurnReplied, TurnRollsBack, TurnGone DEF CallStep
<1>2. CASE LoopStep
  BY <1>2, TurnBegins, TurnTold, TurnGone, TurnRollsBack, TurnOther DEF LoopStep, ProtocolViolation
<1> QED BY <1>1, <1>2, TurnOther, TurnAfter, TurnGone, TurnServed DEF Next, ConnectionLost

\* TurnInv holds before anything has happened.
LEMMA TurnInit == Init => TurnInv
BY DEF Init, TurnInv, NoTurn

\* What TurnInv finds on its way is the notification that NoOrphanTurn asks for.
LEMMA TurnInvSays == ASSUME TypeOK, BaseInv, TurnInv PROVE NoOrphanTurn
<1>1. ASSUME NEW t \in Turns, OnTheWay(t)
      PROVE  \E i \in 1..Len(notes) : notes[i].m = "violation" \/ notes[i] = Note("started", t, TRUE)
  <2>1. PICK i \in 1..Len(notes) : notes[i].m = "violation" \/ Tells(i, "started", t)
    BY <1>1 DEF OnTheWay
  <2>2. notes[i] \in Notification
    BY DEF TypeOK, ServerType
  <2>3. CASE Tells(i, "started", t)
    <3>1. notes[i].ok = TRUE
      BY <2>2, <2>3 DEF BaseInv, NotesAreTrue, NoteIsTrue, Tells, Notification
    <3>2. notes[i] = [m |-> "started", turn |-> t, ok |-> TRUE]
      BY <2>2, <2>3, <3>1 DEF Tells, Notification
    <3> QED BY <3>2 DEF Note
  <2> QED BY <2>1, <2>3
<1> QED BY <1>1 DEF TurnInv, NoOrphanTurn, Stopped

\* LeaseInv and TurnInv hold throughout.
LEMMA LeaseSafe == Spec => []LeaseInv
BY TypeCorrect, SessionSafe, BaseSafe, DecisionSafe, LeaseInit, LeaseStep, PTL DEF Spec

\* See LeaseSafe.
LEMMA TurnSafe == Spec => []TurnInv
BY TypeCorrect, SessionSafe, BaseSafe, TurnInit, TurnStep, PTL DEF Spec

\* A work unit that is open, and a turn that runs, is somebody's to end, however the
\* response to a start, its timeout, its notifications and an interrupt meet.
THEOREM NothingIsOrphanedHolds == Spec => []NothingIsOrphaned
<1>1. LeaseInv => LeaseHeld
  BY DEF LeaseInv
<1>2. LeaseHeld /\ NoOrphanTurn => NothingIsOrphaned
  BY DEF NothingIsOrphaned
<1>3. TypeOK /\ BaseInv /\ TurnInv => NoOrphanTurn
  BY TurnInvSays
<1> QED BY <1>1, <1>2, <1>3, TypeCorrect, BaseSafe, LeaseSafe, TurnSafe, PTL
=============================================================================
