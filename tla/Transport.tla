----------------------------- MODULE Transport -----------------------------
(***************************************************************************)
(* The JSON-RPC connection to the App Server (codex/rpc.rs) and what the   *)
(* server asks the user through it (codex/requests.rs, and the parts of    *)
(* the supervisor that register, answer and expire what was asked).        *)
(*                                                                         *)
(* A request of ours is entered in the connection's map, queued for the    *)
(* writer and settled by the reader, by a timeout or by the end of the     *)
(* connection. The reader passes the server's own requests on to the       *)
(* signal loop, over a bounded channel; the signal loop, when it refuses   *)
(* or expires one, itself waits for the answer to an interrupt, which only *)
(* the reader can bring. The ledger of what was asked outlives the         *)
(* connection.                                                             *)
(*                                                                         *)
(* The App Server is external: it answers what it has read, asks within    *)
(* its turn, asks again for what it has no answer to, writes nonsense and  *)
(* dies as it likes. A request of ours has a name of its own (the ids of a *)
(* connection count from one, but only its own reader knows them); what    *)
(* the server asks is named by its connection's generation and its id.     *)
(***************************************************************************)
EXTENDS Naturals, Sequences, FiniteSets

CONSTANTS Keys,           \* ids the server gives its requests, in every generation
          Malformed,      \* the ones among them whose parameters are not valid
          MaxRequest,     \* bound on our requests
          MaxGeneration,  \* bound on the connections
          MaxFrames,      \* bound on the frames on their way in stdout
          PendingLimit,   \* MAX_PENDING_REQUESTS
          QueueLimit,     \* OUTBOUND_QUEUE
          SignalLimit,    \* capacity of the signal channel
          Window          \* MAX_RESOLVED_REQUESTS

ASSUME TransportAssumption ==
  /\ IsFiniteSet(Keys) /\ Malformed \subseteq Keys
  /\ MaxRequest \in Nat \ {0} /\ MaxGeneration \in Nat \ {0} /\ MaxFrames \in Nat
  /\ PendingLimit \in Nat /\ QueueLimit \in Nat /\ SignalLimit \in Nat \ {0}
  /\ Window \in Nat

RpcRequests == 1..MaxRequest         \* 0 stands for no request
Generations == 1..MaxGeneration
Decisions == {"accept", "cancel"}  \* accept stands for decline as well

VARIABLES
  generation, up,   \* state.generation, state.runtime.is_some()
  turnIsActive,           \* the turn the server asks within is the active turn
  request,          \* our requests, each with the caller that awaits it
  pending,          \* RpcConnection.pending, of all connections
  queue, writer,    \* the writer's channel, and how the writer task stands
  reader,           \* the reader task
  signals,          \* the signal channel
  loop,             \* the signal loop
  shown,            \* ServerRequestLedger.pending_by_id
  resolved,         \* ServerRequestLedger.resolved, oldest first
  reply,            \* responses of the user that are resolved and not yet sent
  alive, stdout, inbox,   \* the server: running, its output, our requests it has read,
  turn,                   \* its turn goes on
  everAsked,            \* history: what the servers have asked
  heard             \* history: the answers a server has read to what it asked

client == <<request, pending>>
wire == <<queue, writer>>
ledger == <<shown, resolved>>
server == <<alive, stdout, inbox, turn>>
history == <<everAsked, heard>>
transportVars == <<generation, up, turnIsActive, client, wire, reader, signals, loop, ledger, reply,
          server, history>>

Ask == [gen : Generations, key : Keys]
Signal == [m : {"violation", "lost", "done"}, gen : Generations]
          \union [m : {"ask"}, gen : Generations, key : Keys]
NoRequest == [st |-> "none", gen |-> 0, box |-> "empty"]
Reading == [at |-> "read"]
IdleLoop == [at |-> "idle", todo |-> {}, req |-> 0]

\* A settled request has returned to its caller: with a response, with the news
\* that the connection was lost, or refused; or with a timeout.
Done == [st |-> "done", gen |-> 0, box |-> "empty"]
TimedOut == [Done EXCEPT !.st = "timeout"]
Settled == {Done, TimedOut}

TransportInit ==
  /\ generation = 1 /\ up = TRUE /\ turnIsActive = TRUE
  /\ request = [r \in RpcRequests |-> NoRequest] /\ pending = {}
  /\ queue = <<>> /\ writer = "open" /\ reader = Reading /\ signals = <<>>
  /\ loop = IdleLoop /\ shown = {} /\ resolved = <<>> /\ reply = {}
  /\ alive = TRUE /\ stdout = <<>> /\ inbox = {} /\ turn = TRUE
  /\ everAsked = {} /\ heard = [a \in Ask |-> {}]

-----------------------------------------------------------------------------
(* Our requests: RpcConnection::request.                                   *)

\* try_send: a message that does not fit, or finds the writer gone, is refused.
\* A message for an earlier connection has nobody to read it.
Fits(g) == g # generation \/ (writer = "open" /\ Len(queue) < QueueLimit)
TrySend(g, m) ==
  IF g = generation /\ Fits(g) THEN queue' = Append(queue, m) ELSE UNCHANGED queue

\* The names are used in turn; a caller enters the map, or is refused there.
IsNext(r) == request[r].st = "none" /\ \A q \in RpcRequests : q < r => request[q].st # "none"
Entries(g) == {r \in pending : request[r].gen = g}
Enter(r, g) ==
  /\ IsNext(r)
  /\ IF Cardinality(Entries(g)) >= PendingLimit
     THEN /\ request' = [request EXCEPT ![r] = Done]
          /\ UNCHANGED pending
     ELSE /\ request' = [request EXCEPT ![r] = [st |-> "entered", gen |-> g, box |-> "empty"]]
          /\ pending' = pending \union {r}

\* A command of the client makes a request while the connection is up.
Call ==
  /\ up
  /\ \E r \in RpcRequests : Enter(r, generation)
  /\ UNCHANGED <<generation, up, turnIsActive, wire, reader, signals, loop, ledger, reply, server,
                 history>>

\* The request goes to the writer, or its entry is taken back.
QueueRequest(r) ==
  /\ request[r].st = "entered"
  /\ TrySend(request[r].gen, [m |-> "request", id |-> r])
  /\ IF Fits(request[r].gen)
     THEN /\ request' = [request EXCEPT ![r].st = "waiting"]
          /\ UNCHANGED pending
     ELSE /\ request' = [request EXCEPT ![r] = Done]
          /\ pending' = pending \ {r}
  /\ UNCHANGED <<generation, up, turnIsActive, writer, reader, signals, loop, ledger, reply, server,
                 history>>

\* The response, or the news that the connection is gone, is in the oneshot.
Receive(r) ==
  /\ request[r].st = "waiting" /\ request[r].box # "empty"
  /\ request' = [request EXCEPT ![r] = Done]
  /\ UNCHANGED <<generation, up, turnIsActive, pending, wire, reader, signals, loop, ledger, reply,
                 server, history>>

\* Seeded bug: a request that has timed out stays in the map.
BugTimeOut(r) ==
  /\ request[r].st = "waiting"
  /\ request' = [request EXCEPT ![r] = TimedOut]
  /\ UNCHANGED <<generation, up, turnIsActive, pending, wire, reader, signals, loop, ledger, reply,
                 server, history>>

\* Seeded bug: the interrupt that the loop awaits has no timeout.
BugPatientTimeOut(r) ==
  /\ request[r].st = "waiting" /\ r # loop.req
  /\ request' = [request EXCEPT ![r] = TimedOut]
  /\ pending' = pending \ {r}
  /\ UNCHANGED <<generation, up, turnIsActive, wire, reader, signals, loop, ledger, reply, server,
                 history>>

\* The caller's timeout passes; what comes before it has locked the map to forget
\* the request comes too late for the caller.
TimeOut(r) ==
  /\ request[r].st = "waiting"
  /\ request' = [request EXCEPT ![r] = TimedOut]
  /\ pending' = pending \ {r}
  /\ UNCHANGED <<generation, up, turnIsActive, wire, reader, signals, loop, ledger, reply, server,
                 history>>

\* fail_all_pending: every caller of the connection that listens is told.
FailPending(g) ==
  /\ request' = [r \in RpcRequests |->
       IF r \in Entries(g) THEN [request[r] EXCEPT !.box = "lost"] ELSE request[r]]
  /\ pending' = pending \ Entries(g)

-----------------------------------------------------------------------------
(* The writer and the reader task.                                         *)

\* The writer writes the oldest message; the server reads it.
Write ==
  /\ writer = "open" /\ queue # <<>> /\ alive
  /\ queue' = Tail(queue)
  /\ LET m == Head(queue) IN
     \/ /\ m.m = "request"
        /\ inbox' = inbox \union {m.id}
        /\ UNCHANGED heard
     \/ /\ m.m = "answer"
        /\ heard' = [heard EXCEPT ![m.ask] = @ \union {m.with}]
        /\ UNCHANGED inbox
  /\ UNCHANGED <<generation, up, turnIsActive, client, writer, reader, signals, loop, ledger, reply,
                 alive, stdout, turn, everAsked>>

\* The write fails, which the writer reports, waiting for room, before it ends.
WriteFails ==
  /\ writer = "open" /\ queue # <<>> /\ ~alive
  /\ Len(signals) < SignalLimit
  /\ writer' = "closed" /\ queue' = <<>>
  /\ signals' = Append(signals, [m |-> "lost", gen |-> generation])
  /\ UNCHANGED <<generation, up, turnIsActive, client, reader, loop, ledger, reply, server,
                 history>>

ReportEnd(s, then) == [at |-> "send", signal |-> s, then |-> then]

\* A response is for an entry of the map, or else a violation of the protocol.
ReadResponse(r) ==
  \/ /\ r \in pending
     /\ pending' = pending \ {r}
     /\ request' = [request EXCEPT ![r].box = "ok"]
     /\ UNCHANGED reader
  \/ /\ r \notin pending
     /\ reader' = ReportEnd([m |-> "violation", gen |-> generation], "stopped")
     /\ UNCHANGED client

\* A frame that is not JSON fails the pending requests, one that is no message
\* does not.
ReadNonsense ==
  /\ FailPending(generation) \/ UNCHANGED client
  /\ reader' = ReportEnd([m |-> "violation", gen |-> generation], "stopped")

\* The reader waits for room in the signal channel with what it has to pass on.
ReadSignal(s) ==
  /\ reader' = ReportEnd(s, "read")
  /\ UNCHANGED client

Read ==
  /\ reader = Reading /\ stdout # <<>>
  /\ stdout' = Tail(stdout)
  /\ LET f == Head(stdout) IN
     \/ f.m = "response" /\ ReadResponse(f.id)
     \/ f.m = "nonsense" /\ ReadNonsense
     \/ f.m = "ask" /\ ReadSignal([m |-> "ask", gen |-> generation, key |-> f.key])
     \/ f.m = "done" /\ ReadSignal([m |-> "done", gen |-> generation])
  /\ UNCHANGED <<generation, up, turnIsActive, wire, signals, loop, ledger, reply, alive, inbox,
                 turn,
                 everAsked, heard>>

ReadEnd ==
  /\ reader = Reading /\ stdout = <<>> /\ ~alive
  /\ FailPending(generation)
  /\ reader' = ReportEnd([m |-> "lost", gen |-> generation], "stopped")
  /\ UNCHANGED <<generation, up, turnIsActive, wire, signals, loop, ledger, reply, server, history>>

\* The reader of an earlier connection finds it ended; what it reports is dropped.
OldEnds(g) ==
  /\ g < generation /\ Entries(g) # {}
  /\ FailPending(g)
  /\ UNCHANGED <<generation, up, turnIsActive, wire, reader, signals, loop, ledger, reply, server,
                 history>>

PassOn ==
  /\ reader.at = "send" /\ Len(signals) < SignalLimit
  /\ signals' = Append(signals, reader.signal)
  /\ reader' = [at |-> reader.then]
  /\ UNCHANGED <<generation, up, turnIsActive, client, wire, loop, ledger, reply, server, history>>

-----------------------------------------------------------------------------
(* The ledger of what the server asks: ServerRequestLedger.                *)

Resolved(k) == {i \in DOMAIN resolved : resolved[i].ask.key = k}

\* The oldest resolutions leave the window.
Newest(s) == IF Len(s) > Window THEN SubSeq(s, Len(s) - Window + 1, Len(s)) ELSE s

\* An answer and whether the turn is interrupted after it.
Answer(a, with, interrupt) == [ask |-> a, with |-> with, interrupt |-> interrupt]

\* What register makes of a: nothing to send if it is shown now or already, the
\* stored answer if it is resolved, and an error for all else. An id that is
\* known for other contents, as those of another generation are, is refused.
RegisterAsk(a) ==
  LET known == Resolved(a.key) IN
  \/ /\ \E i \in known : resolved[i].ask = a
                         /\ loop' = [loop EXCEPT !.todo = {Answer(a, resolved[i].with, FALSE)}]
     /\ UNCHANGED shown
  \/ /\ \/ \E i \in known : resolved[i].ask # a
        \/ known = {} /\ a.key \in Malformed
     /\ loop' = [loop EXCEPT !.todo = {Answer(a, "refused", TRUE)}]
     /\ UNCHANGED shown
  \/ /\ known = {} /\ a.key \notin Malformed
     /\ shown' = shown \union {a}
     /\ UNCHANGED loop

\* Seeded bug: a resolution is not kept for when the server asks again.
BugRecord(answers) == UNCHANGED resolved

Record(answers) ==
  \E order \in [1..Cardinality(answers) -> answers] :
    /\ {order[i] : i \in DOMAIN order} = answers
    /\ resolved' = Newest(resolved \o [i \in DOMAIN order |->
                                         [ask |-> order[i].ask, with |-> order[i].with]])

\* respond_pending: under one lock the answer is taken from the cards and recorded.
\* One that has been answered or expired meanwhile is stale, and nothing happens.
RespondPending(a, d) ==
  /\ up /\ a \in shown
  /\ shown' = shown \ {a}
  /\ Record({Answer(a, d, d = "cancel")})
  /\ reply' = reply \union {[answer |-> Answer(a, d, d = "cancel"), gen |-> generation]}
  /\ UNCHANGED <<generation, up, turnIsActive, client, wire, reader, signals, loop, server,
                 history>>

\* It is sent after the lock is given back; to stop also interrupts the turn.
SendReply(p) ==
  /\ reply' = reply \ {p}
  /\ TrySend(p.gen, [m |-> "answer", ask |-> p.answer.ask, with |-> p.answer.with])
  /\ IF p.answer.interrupt /\ Fits(p.gen) /\ \E r \in RpcRequests : IsNext(r)
     THEN \E r \in RpcRequests : Enter(r, p.gen)
     ELSE UNCHANGED client
  /\ UNCHANGED <<generation, up, turnIsActive, writer, reader, signals, loop, ledger, server,
                 history>>

-----------------------------------------------------------------------------
(* The signal loop: run_signal_loop.                                       *)

\* A signal that is not of the installed connection is dropped.
Taken(kind) ==
  /\ loop = IdleLoop /\ signals # <<>> /\ Head(signals).m = kind
  /\ signals' = Tail(signals)
IsInstalled == up /\ Head(signals).gen = generation

\* handle_server_request: without an active turn the request is refused and leaves
\* no trace.
HandleAsk ==
  /\ Taken("ask")
  /\ \/ ~IsInstalled /\ UNCHANGED <<loop, shown>>
     \/ /\ IsInstalled /\ ~turnIsActive
        /\ loop' = [loop EXCEPT !.todo =
             {Answer([gen |-> generation, key |-> Head(signals).key], "refused", FALSE)}]
        /\ UNCHANGED shown
     \/ IsInstalled /\ turnIsActive /\ RegisterAsk([gen |-> generation, key |-> Head(signals).key])
  /\ UNCHANGED <<generation, up, turnIsActive, client, wire, reader, resolved, reply, server,
                 history>>

\* handle_notification of turn/completed: what is shown goes with its turn.
HandleDone ==
  /\ Taken("done")
  /\ turnIsActive' = (turnIsActive /\ ~IsInstalled)
  /\ shown' = IF IsInstalled THEN {} ELSE shown
  /\ UNCHANGED <<generation, up, client, wire, reader, loop, resolved, reply, server, history>>

\* Seeded bug: the end of a connection leaves its cards.
BugHandleEnd ==
  /\ \E kind \in {"lost", "violation"} :
       /\ Taken(kind)
       /\ loop' = IF IsInstalled /\ kind = "violation" THEN [loop EXCEPT !.at = "stop"] ELSE loop
  /\ up' = (up /\ ~IsInstalled) /\ turnIsActive' = (turnIsActive /\ ~IsInstalled)
  /\ UNCHANGED <<generation, client, wire, reader, ledger, reply, server, history>>

\* handle_disconnect and handle_protocol_violation take the runtime out and clear
\* what is shown; only the second one stops the process, and waits for that.
HandleEnd ==
  /\ \E kind \in {"lost", "violation"} :
       /\ Taken(kind)
       /\ loop' = IF IsInstalled /\ kind = "violation" THEN [loop EXCEPT !.at = "stop"] ELSE loop
  /\ up' = (up /\ ~IsInstalled) /\ turnIsActive' = (turnIsActive /\ ~IsInstalled)
  /\ shown' = IF IsInstalled THEN {} ELSE shown
  /\ UNCHANGED <<generation, client, wire, reader, resolved, reply, server, history>>

\* ProcessRuntime::shutdown: the process is gone and its callers are told.
Stop ==
  /\ loop.at = "stop"
  /\ loop' = IdleLoop /\ alive' = FALSE
  /\ FailPending(generation)
  /\ UNCHANGED <<generation, up, turnIsActive, wire, reader, signals, ledger, reply, stdout, inbox,
                 turn, history>>

\* expire_pending: what has been shown for too long is resolved, all at once.
ExpireAsks(due) ==
  /\ loop = IdleLoop /\ up /\ due # {}
  /\ LET answers == {Answer(a, "expired", TRUE) : a \in due} IN
     /\ Record(answers)
     /\ loop' = [loop EXCEPT !.todo = answers]
  /\ shown' = shown \ due
  /\ UNCHANGED <<generation, up, turnIsActive, client, wire, reader, signals, reply, server,
                 history>>

\* After the lock the loop sends its answers, one by one, and waits after each for
\* the interrupt of the turn.
LoopSend(t) ==
  /\ loop.at = "idle" /\ t \in loop.todo
  /\ TrySend(t.ask.gen, [m |-> "answer", ask |-> t.ask, with |-> t.with])
  /\ \/ /\ t.interrupt
        /\ \E r \in RpcRequests :
             /\ Enter(r, t.ask.gen)
             /\ loop' = [at |-> "await", todo |-> loop.todo \ {t}, req |-> r]
     \/ /\ ~t.interrupt \/ \A r \in RpcRequests : ~IsNext(r)
        /\ loop' = [loop EXCEPT !.todo = @ \ {t}]
        /\ UNCHANGED client
  /\ UNCHANGED <<generation, up, turnIsActive, writer, reader, signals, ledger, reply, server,
                 history>>

LoopResume ==
  /\ loop.at = "await" /\ request[loop.req] \in Settled
  /\ loop' = [loop EXCEPT !.at = "idle", !.req = 0]
  /\ UNCHANGED <<generation, up, turnIsActive, client, wire, reader, signals, ledger, reply, server,
                 history>>

\* A connect installs the next connection, with its own map, writer and reader, and
\* the thread's next turn; ledger and signal channel are kept.
Reconnect ==
  /\ ~up /\ loop = IdleLoop /\ generation < MaxGeneration
  /\ generation' = generation + 1 /\ up' = TRUE /\ turnIsActive' = TRUE
  /\ queue' = <<>> /\ writer' = "open" /\ reader' = Reading
  /\ alive' = TRUE /\ stdout' = <<>> /\ inbox' = {} /\ turn' = TRUE
  /\ UNCHANGED <<client, signals, loop, ledger, reply, history>>

-----------------------------------------------------------------------------
(* The App Server.                                                         *)

Emit(f) ==
  /\ alive /\ Len(stdout) < MaxFrames
  /\ stdout' = Append(stdout, f)

ServerResponds ==
  /\ \E r \in inbox : Emit([m |-> "response", id |-> r]) /\ inbox' = inbox \ {r}
  /\ UNCHANGED <<generation, up, turnIsActive, client, wire, reader, signals, loop, ledger, reply,
                 alive, turn, history>>

\* It asks, or within its turn asks again as long as it has read no answer.
ServerAsks ==
  /\ \E k \in Keys :
       LET a == [gen |-> generation, key |-> k] IN
       /\ a \notin everAsked \/ (turn /\ heard[a] = {})
       /\ Emit([m |-> "ask", key |-> k])
       /\ everAsked' = everAsked \union {a}
  /\ UNCHANGED <<generation, up, turnIsActive, client, wire, reader, signals, loop, ledger, reply,
                 alive, inbox, turn, heard>>

ServerWrites ==
  /\ \/ turn /\ Emit([m |-> "done"]) /\ turn' = FALSE
     \/ Emit([m |-> "nonsense"]) /\ UNCHANGED turn
  /\ UNCHANGED <<generation, up, turnIsActive, client, wire, reader, signals, loop, ledger, reply,
                 alive, inbox, history>>

ServerDies ==
  /\ alive /\ alive' = FALSE
  /\ UNCHANGED <<generation, up, turnIsActive, client, wire, reader, signals, loop, ledger, reply,
                 stdout, inbox, turn, history>>

-----------------------------------------------------------------------------

CallerStep(r) == QueueRequest(r) \/ Receive(r) \/ TimeOut(r)
ReaderStep == Read \/ ReadEnd \/ PassOn
LoopTakes == HandleAsk \/ HandleDone \/ HandleEnd
LoopWorks == Stop \/ LoopResume \/ \E t \in loop.todo : LoopSend(t)
UserStep == \/ \E a \in shown, d \in Decisions : RespondPending(a, d)
            \/ \E p \in reply : SendReply(p)
ServerStep == ServerResponds \/ ServerAsks \/ ServerWrites \/ ServerDies

TransportNext ==
  \/ Call
  \/ \E r \in RpcRequests : CallerStep(r)
  \/ Write \/ WriteFails \/ ReaderStep
  \/ LoopTakes \/ LoopWorks
  \/ \E due \in SUBSET shown : ExpireAsks(due)
  \/ UserStep \/ Reconnect \/ ServerStep
  \/ \E g \in Generations : OldEnds(g)

TransportSpec == TransportInit /\ [][TransportNext]_transportVars

\* Timeouts pass, tasks run and stopping a process is bounded. Nothing is asked of
\* the writer, which may be stuck in a write, nor of server and user.
TransportFairness ==
  /\ \A r \in RpcRequests : WF_transportVars(CallerStep(r))
  /\ WF_transportVars(ReaderStep) /\ WF_transportVars(LoopTakes) /\ WF_transportVars(LoopWorks)

-----------------------------------------------------------------------------
(* Properties.                                                             *)

\* A card is shown only while the connection and the turn that asked are there to be
\* answered, although cards are made, cleared and expired by different handlers.
CardsAreLive == \A a \in shown : a.gen = generation /\ up /\ turnIsActive

\* The map of a connection holds callers that are still there, so that requests
\* which were refused, timed out or lost do not use up its limit.
PendingHasCaller ==
  \A r \in pending : request[r].st \in {"entered", "waiting"} /\ request[r].box = "empty"

\* The two kinds of entries that handlers, timeouts and tasks make and take back, each
\* for itself, have behind them what they are for.
EntriesAreLive == CardsAreLive /\ PendingHasCaller

\* The client keeps the promise of Asks: a card is open only for a request that has no
\* answer yet, and one answer is told, the user's, the expiry's or the refusal,
\* whichever comes first: also when the server asks again while the answer is on its
\* way, the user answers as the request expires, or the connection is replaced.
KeepsAsks == INSTANCE Asks WITH open <- shown, told <- heard
ImplementsAsks == KeepsAsks!Spec

\* The signal loop comes back to its signals. It waits for the answer to an
\* interrupt, which the reader may be unable to read as long as the loop does not
\* take its signals: the two would wait for each other, and only the request's
\* timeout parts them.
LoopReturns == (loop # IdleLoop) ~> (loop = IdleLoop)

=============================================================================
