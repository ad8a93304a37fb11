-------------------------- MODULE TransportProofs ---------------------------
(***************************************************************************)
(* Proofs about Transport: the entries of both maps are live, and the      *)
(* connection, the ledger and the signal loop together implement Asks.     *)
(***************************************************************************)
EXTENDS Transport, TLAPS, FiniteSetTheorems, SequenceTheorems

-----------------------------------------------------------------------------
(* Types.                                                                  *)

Withs == {"accept", "cancel", "expired", "refused"}
Answers == [ask : Ask, with : Withs, interrupt : BOOLEAN]
Resolutions == [ask : Ask, with : Withs]
Messages == [m : {"request"}, id : RpcRequests] \union [m : {"answer"}, ask : Ask, with : Withs]
Frames == [m : {"response"}, id : RpcRequests] \union [m : {"ask"}, key : Keys]
            \union [m : {"done", "nonsense"}]
Readers == [at : {"read", "stopped"}]
             \union [at : {"send"}, signal : Signal, then : {"read", "stopped"}]

FlagType ==
  /\ generation \in Generations /\ up \in BOOLEAN /\ turnIsActive \in BOOLEAN
  /\ alive \in BOOLEAN /\ turn \in BOOLEAN
ClientType ==
  /\ request \in [RpcRequests -> [st : {"none", "entered", "waiting", "done", "timeout"},
                                  gen : Generations \union {0}, box : {"empty", "ok", "lost"}]]
  /\ pending \in SUBSET RpcRequests
WireType == queue \in Seq(Messages) /\ writer \in {"open", "closed"}
SignalType == reader \in Readers /\ signals \in Seq(Signal)
LoopType ==
  loop \in [at : {"idle", "stop", "await"}, todo : SUBSET Answers, req : RpcRequests \union {0}]
LedgerType ==
  /\ shown \in SUBSET Ask /\ resolved \in Seq(Resolutions)
  /\ reply \in SUBSET [answer : Answers, gen : Generations]
ServerType ==
  /\ stdout \in Seq(Frames) /\ inbox \in SUBSET RpcRequests
  /\ everAsked \in SUBSET Ask /\ heard \in [Ask -> SUBSET Withs]

TransportTypeOK ==
  /\ FlagType /\ ClientType /\ WireType /\ SignalType /\ LoopType /\ LedgerType /\ ServerType

-----------------------------------------------------------------------------
(* The inductive invariant. Answers are given where they are told, and where *)
(* they wait to be: with the loop, with a caller or with the writer.        *)

Given(a, w) ==
  \/ w \in heard[a]
  \/ \E i \in DOMAIN queue : queue[i] = [m |-> "answer", ask |-> a, with |-> w]
  \/ \E p \in reply : p.answer.ask = a /\ p.answer.with = w
  \/ \E t \in loop.todo : t.ask = a /\ t.with = w

IsKept(a) == \E i \in DOMAIN resolved : resolved[i].ask = a
IsKnown(k) == \E i \in DOMAIN resolved : resolved[i].ask.key = k

\* A request of the current connection may be on its way at three places. DoneSignal is the
\* end of the turn on the same way.
AskSignal(a) == [m |-> "ask", gen |-> a.gen, key |-> a.key]
DoneSignal == [m |-> "done", gen |-> generation]
AskFrame(a) == [m |-> "ask", key |-> a.key]
DoneFrame == [m |-> "done"]

Signalled(a) == \E i \in DOMAIN signals : signals[i] = AskSignal(a)
InReader(s) == reader.at = "send" /\ reader.signal = s
Written(a) == \E i \in DOMAIN stdout : stdout[i] = AskFrame(a)

\* The end of the turn is handled, or on its way before the place.
DoneInSignals == ~turnIsActive \/ \E j \in DOMAIN signals : signals[j] = DoneSignal
DoneBeforeSignal(i) ==
  ~turnIsActive \/ \E j \in DOMAIN signals : j < i /\ signals[j] = DoneSignal
DoneBeforeFrame(i) ==
  DoneInSignals \/ InReader(DoneSignal) \/ \E j \in DOMAIN stdout : j < i /\ stdout[j] = DoneFrame

\* Nobody has done anything about a yet.
Untouched(a) == a \notin shown /\ ~IsKept(a) /\ \A w \in Withs : ~Given(a, w)

\* What is asked after the end of its turn is asked once.
LateSignals ==
  \A a \in Ask : \A i \in DOMAIN signals :
    a.gen = generation /\ signals[i] = AskSignal(a) /\ DoneBeforeSignal(i) =>
      /\ Untouched(a) /\ ~InReader(AskSignal(a)) /\ ~Written(a)
      /\ \A j \in DOMAIN signals : signals[j] = AskSignal(a) => j = i
LateReader ==
  \A a \in Ask :
    a.gen = generation /\ InReader(AskSignal(a)) /\ DoneInSignals =>
      Untouched(a) /\ ~Signalled(a) /\ ~Written(a)
LateFrames ==
  \A a \in Ask : \A i \in DOMAIN stdout :
    a.gen = generation /\ stdout[i] = AskFrame(a) /\ DoneBeforeFrame(i) =>
      /\ Untouched(a) /\ ~Signalled(a) /\ ~InReader(AskSignal(a))
      /\ \A j \in DOMAIN stdout : stdout[j] = AskFrame(a) => j = i
LateAsks == up => LateSignals /\ LateReader /\ LateFrames

\* As long as the turn goes on its end is nowhere.
TurnIsOn ==
  turn => /\ up => ~DoneInSignals
          /\ \A i \in DOMAIN signals : signals[i] # DoneSignal
          /\ ~InReader(DoneSignal)
          /\ \A i \in DOMAIN stdout : stdout[i] # DoneFrame

\* Everything on its way, shown, resolved or answered was asked, by a server there was.
AskedBefore ==
  /\ \A a \in everAsked : a.gen <= generation
  /\ \A i \in DOMAIN signals : signals[i].gen <= generation
  /\ reader.at = "send" => reader.signal.gen <= generation
  /\ \A a \in Ask : Signalled(a) \/ InReader(AskSignal(a)) \/ (a.gen = generation /\ Written(a)) =>
       a \in everAsked
  /\ \A a \in Ask : IsKept(a) => a \in everAsked
  /\ shown \subseteq everAsked

\* No more can come of a: its connection or its turn has ended, and it is not on its way.
IsOver(a) ==
  \/ a.gen < generation \/ ~up
  \/ ~turnIsActive /\ ~turn /\ ~Signalled(a) /\ ~InReader(AskSignal(a)) /\ ~Written(a)

\* A refusal leaves no trace in the ledger; it is repeated whenever a comes again.
IsRefused(a) == ~IsKept(a) /\ (a.key \in Malformed \/ IsKnown(a.key) \/ IsOver(a))

LedgerIsSound ==
  /\ \A i, j \in DOMAIN resolved : resolved[i].ask.key = resolved[j].ask.key => i = j
  /\ \A i \in DOMAIN resolved : resolved[i].ask.key \notin Malformed
  /\ \A a \in shown : a.key \notin Malformed /\ ~IsKnown(a.key)

OneAnswer ==
  \A a \in Ask, w \in Withs : Given(a, w) =>
    /\ a \in everAsked
    /\ \/ \E i \in DOMAIN resolved : resolved[i].ask = a /\ resolved[i].with = w
       \/ w = "refused" /\ IsRefused(a)

AnswerInv == LateAsks /\ TurnIsOn /\ AskedBefore /\ LedgerIsSound /\ OneAnswer
AskInv == TransportTypeOK /\ CardsAreLive /\ AnswerInv

-----------------------------------------------------------------------------
(* Sequences.                                                              *)

\* A sequence with one element more at its end.
LEMMA AppendAt ==
  ASSUME NEW S, NEW s \in Seq(S), NEW x \in S
  PROVE  /\ Append(s, x) \in Seq(S)
         /\ DOMAIN Append(s, x) = DOMAIN s \union {Len(s) + 1}
         /\ Append(s, x)[Len(s) + 1] = x
         /\ \A i \in DOMAIN s : i \in Nat /\ i < Len(s) + 1 /\ Append(s, x)[i] = s[i]
         /\ Len(s) + 1 \in Nat /\ Len(s) + 1 \notin DOMAIN s
BY AppendProperties, LenProperties

\* A sequence without its first element.
LEMMA TailAt ==
  ASSUME NEW S, NEW s \in Seq(S), s # <<>>
  PROVE  /\ Tail(s) \in Seq(S)
         /\ 1 \in DOMAIN s /\ Head(s) = s[1] /\ Head(s) \in S
         /\ \A i \in DOMAIN s : i \in Nat \ {0} /\ s[i] \in S
         /\ \A i \in DOMAIN Tail(s) : i \in Nat \ {0} /\ i + 1 \in DOMAIN s /\ Tail(s)[i] = s[i + 1]
         /\ \A i \in DOMAIN s : i = 1 \/ (i - 1 \in DOMAIN Tail(s) /\ Tail(s)[i - 1] = s[i])
<1>1. Len(s) \in Nat \ {0} /\ DOMAIN s = 1..Len(s)
  BY EmptySeq, LenProperties
<1>2. /\ Head(s) \in S /\ Tail(s) \in Seq(S) /\ Len(Tail(s)) = Len(s) - 1
      /\ \A i \in 1..Len(Tail(s)) : Tail(s)[i] = s[i + 1]
  BY HeadTailProperties
<1>3. DOMAIN Tail(s) = 1..(Len(s) - 1)
  BY <1>2, LenProperties
<1>4. Head(s) = s[1]
  BY <1>1
<1>5. \A i \in DOMAIN s : i \in Nat \ {0} /\ s[i] \in S
  BY <1>1, ElementOfSeq
<1>6. \A i \in DOMAIN s : i = 1 \/ (i - 1 \in DOMAIN Tail(s) /\ Tail(s)[i - 1] = s[i])
  <2> SUFFICES ASSUME NEW i \in DOMAIN s, i # 1
               PROVE  i - 1 \in DOMAIN Tail(s) /\ Tail(s)[i - 1] = s[i]
    OBVIOUS
  <2>1. i - 1 \in 1..(Len(s) - 1) /\ (i - 1) + 1 = i
    BY <1>1
  <2> QED BY <2>1, <1>2, <1>3
<1> QED BY <1>1, <1>2, <1>3, <1>4, <1>5, <1>6

\* The places of a sequence and what they hold.
LEMMA EntryAt ==
  ASSUME NEW S, NEW s \in Seq(S)
  PROVE  \A i \in DOMAIN s : i \in Nat \ {0} /\ s[i] \in S
BY LenProperties, ElementOfSeq

\* The sequence without elements.
LEMMA EmptyAt == ASSUME NEW S PROVE <<>> \in Seq(S) /\ DOMAIN <<>> = {} /\ Len(<<>>) = 0
BY EmptySeq

-----------------------------------------------------------------------------
(* Type correctness.                                                       *)

\* Before the first connection everything is typed.
LEMMA TypeInit == TransportInit => TransportTypeOK
<1> SUFFICES ASSUME TransportInit PROVE TransportTypeOK
  OBVIOUS
<1> USE DEF TransportInit
<1>1. FlagType /\ ClientType
  BY TransportAssumption DEF FlagType, ClientType, NoRequest, Generations, RpcRequests
<1>2. WireType /\ SignalType
  BY EmptyAt DEF WireType, SignalType, Readers, Reading
<1>3. LoopType /\ LedgerType /\ ServerType
  BY EmptyAt DEF LoopType, LedgerType, ServerType, IdleLoop
<1> QED BY <1>1, <1>2, <1>3 DEF TransportTypeOK

\* What the map of pending requests and the callers' records become stays in their types.
LEMMA EnterType ==
  ASSUME ClientType, NEW r \in RpcRequests, NEW g \in Generations, Enter(r, g)
  PROVE  ClientType'
BY DEF ClientType, Enter, Done

\* Failing what is pending keeps the types of the client.
LEMMA FailPendingType ==
  ASSUME ClientType, NEW g, FailPending(g)
  PROVE  ClientType'
BY DEF ClientType, FailPending, Entries

\* Queueing a message keeps the type of the queue.
LEMMA TrySendType ==
  ASSUME queue \in Seq(Messages), NEW g, NEW m \in Messages, TrySend(g, m)
  PROVE  queue' \in Seq(Messages)
BY AppendAt DEF TrySend

\* The steps of the callers keep the types.
LEMMA CallerType ==
  ASSUME TransportTypeOK, NEW r \in RpcRequests, Call \/ CallerStep(r)
  PROVE  TransportTypeOK'
<1> USE DEF TransportTypeOK
<1>1. CASE Call
  <2>1. ClientType'
    BY <1>1, EnterType DEF Call, FlagType
  <2> QED BY <1>1, <2>1 DEF Call, wire, ledger, server, history, FlagType, WireType, SignalType,
             LoopType, LedgerType, ServerType
<1>2. CASE QueueRequest(r)
  <2>1. queue' \in Seq(Messages)
    BY <1>2, TrySendType DEF QueueRequest, WireType, Messages
  <2>2. ClientType'
    BY <1>2 DEF QueueRequest, ClientType, Done
  <2> QED BY <1>2, <2>1, <2>2 DEF QueueRequest, ledger, server, history, FlagType, WireType,
             SignalType, LoopType, LedgerType, ServerType
<1>3. CASE Receive(r) \/ TimeOut(r)
  <2>1. ClientType'
    BY <1>3 DEF Receive, TimeOut, ClientType, Done, TimedOut
  <2> QED BY <1>3, <2>1 DEF Receive, TimeOut, wire, ledger, server, history, FlagType, WireType,
             SignalType, LoopType, LedgerType, ServerType
<1> QED BY <1>1, <1>2, <1>3 DEF CallerStep

\* The writer keeps the types.
LEMMA WriterType ==
  ASSUME TransportTypeOK, Write \/ WriteFails
  PROVE  TransportTypeOK'
<1> USE DEF TransportTypeOK
<1>1. CASE Write
  <2>1. queue # <<>> /\ queue \in Seq(Messages)
    BY <1>1 DEF Write, WireType
  <2>2. Tail(queue) \in Seq(Messages) /\ Head(queue) \in Messages
    BY <2>1, TailAt
  <2>3. inbox' \in SUBSET RpcRequests /\ heard' \in [Ask -> SUBSET Withs]
    <3> DEFINE m == Head(queue)
    <3>1. CASE m.m = "request" /\ inbox' = inbox \union {m.id} /\ UNCHANGED heard
      <4>1. m.id \in RpcRequests
        BY <2>2, <3>1 DEF Messages
      <4> QED BY <3>1, <4>1 DEF ServerType
    <3>2. CASE /\ m.m = "answer" /\ UNCHANGED inbox
               /\ heard' = [heard EXCEPT ![m.ask] = @ \union {m.with}]
      <4>1. m.ask \in Ask /\ m.with \in Withs
        BY <2>2, <3>2 DEF Messages
      <4> QED BY <3>2, <4>1 DEF ServerType
    <3> QED BY <1>1, <3>1, <3>2 DEF Write
  <2> QED BY <1>1, <2>2, <2>3 DEF Write, client, ledger, FlagType, ClientType, WireType,
             SignalType, LoopType, LedgerType, ServerType
<1>2. CASE WriteFails
  <2>1. signals' \in Seq(Signal)
    BY <1>2, AppendAt DEF WriteFails, SignalType, Signal, FlagType
  <2>2. <<>> \in Seq(Messages)
    BY EmptyAt
  <2> QED BY <1>2, <2>1, <2>2 DEF WriteFails, client, ledger, server, history, FlagType,
             ClientType, WireType, SignalType, LoopType, LedgerType, ServerType
<1> QED BY <1>1, <1>2

\* A reader that reports its end is one.
LEMMA SendingIsReader ==
  ASSUME NEW s \in Signal, NEW then \in {"read", "stopped"}
  PROVE  ReportEnd(s, then) \in Readers
BY DEF ReportEnd, Readers

\* The readers keep the types.
LEMMA ReaderType ==
  ASSUME TransportTypeOK, NEW g, ReaderStep \/ OldEnds(g)
  PROVE  TransportTypeOK'
<1> USE DEF TransportTypeOK
<1>0. /\ [m |-> "violation", gen |-> generation] \in Signal
      /\ [m |-> "lost", gen |-> generation] \in Signal
      /\ [m |-> "done", gen |-> generation] \in Signal
      /\ \A k \in Keys : [m |-> "ask", gen |-> generation, key |-> k] \in Signal
  BY DEF Signal, FlagType
<1>1. CASE Read
  <2>1. stdout # <<>> /\ stdout \in Seq(Frames)
    BY <1>1 DEF Read, ServerType
  <2>2. Tail(stdout) \in Seq(Frames) /\ Head(stdout) \in Frames
    BY <2>1, TailAt
  <2> DEFINE f == Head(stdout)
  <2>3. ClientType' /\ reader' \in Readers
    <3>1. CASE f.m = "response" /\ ReadResponse(f.id)
      <4>1. f.id \in RpcRequests
        BY <2>2, <3>1 DEF Frames
      <4> QED BY <1>0, <3>1, <4>1, SendingIsReader
              DEF ReadResponse, ClientType, SignalType, client
    <3>2. CASE f.m = "nonsense" /\ ReadNonsense
      BY <1>0, <3>2, FailPendingType, SendingIsReader DEF ReadNonsense, client, ClientType
    <3>3. CASE f.m = "ask" /\ ReadSignal([m |-> "ask", gen |-> generation, key |-> f.key])
      <4>1. f.key \in Keys
        BY <2>2, <3>3 DEF Frames
      <4> QED BY <1>0, <3>3, <4>1, SendingIsReader DEF ReadSignal, client, ClientType
    <3>4. CASE f.m = "done" /\ ReadSignal([m |-> "done", gen |-> generation])
      BY <1>0, <3>4, SendingIsReader DEF ReadSignal, client, ClientType
    <3> QED BY <1>1, <3>1, <3>2, <3>3, <3>4 DEF Read
  <2> QED BY <1>1, <2>2, <2>3 DEF Read, wire, ledger, FlagType, WireType, SignalType, LoopType,
             LedgerType, ServerType
<1>2. CASE ReadEnd
  <2>1. ClientType' /\ reader' \in Readers
    BY <1>0, <1>2, FailPendingType, SendingIsReader DEF ReadEnd
  <2> QED BY <1>2, <2>1 DEF ReadEnd, wire, ledger, server, history, FlagType, WireType,
             SignalType, LoopType, LedgerType, ServerType
<1>3. CASE PassOn
  <2>1. reader.signal \in Signal /\ [at |-> reader.then] \in Readers
    BY <1>3 DEF PassOn, SignalType, Readers
  <2>2. signals' \in Seq(Signal)
    BY <1>3, <2>1, AppendAt DEF PassOn, SignalType
  <2> QED BY <1>3, <2>1, <2>2 DEF PassOn, client, wire, ledger, server, history, FlagType,
             ClientType, WireType, SignalType, LoopType, LedgerType, ServerType
<1>4. CASE OldEnds(g)
  <2>1. ClientType'
    BY <1>4, FailPendingType DEF OldEnds
  <2> QED BY <1>4, <2>1 DEF OldEnds, wire, ledger, server, history, FlagType, WireType,
             SignalType, LoopType, LedgerType, ServerType
<1> QED BY <1>1, <1>2, <1>3, <1>4 DEF ReaderStep

\* The server, and a reconnect, keep the types.
LEMMA ServerTypes ==
  ASSUME TransportTypeOK, ServerStep \/ Reconnect
  PROVE  TransportTypeOK'
<1> USE DEF TransportTypeOK
<1>1. ASSUME NEW f \in Frames, Emit(f)
      PROVE  stdout' \in Seq(Frames)
  BY <1>1, AppendAt DEF Emit, ServerType
<1>2. CASE ServerResponds
  <2>1. stdout' \in Seq(Frames)
    BY <1>1, <1>2 DEF ServerResponds, ServerType, Frames
  <2> QED BY <1>2, <2>1 DEF ServerResponds, client, wire, ledger, history, FlagType, ClientType,
             WireType, SignalType, LoopType, LedgerType, ServerType
<1>3. CASE ServerAsks
  <2>1. stdout' \in Seq(Frames) /\ everAsked' \in SUBSET Ask
    BY <1>1, <1>3 DEF ServerAsks, ServerType, Frames, Ask, FlagType
  <2> QED BY <1>3, <2>1 DEF ServerAsks, client, wire, ledger, FlagType, ClientType,
             WireType, SignalType, LoopType, LedgerType, ServerType
<1>4. CASE ServerWrites
  <2>1. stdout' \in Seq(Frames)
    BY <1>1, <1>4 DEF ServerWrites, Frames
  <2> QED BY <1>4, <2>1 DEF ServerWrites, client, wire, ledger, history, FlagType, ClientType,
             WireType, SignalType, LoopType, LedgerType, ServerType
<1>5. CASE ServerDies
  BY <1>5 DEF ServerDies, client, wire, ledger, history, FlagType, ClientType, WireType,
          SignalType, LoopType, LedgerType, ServerType
<1>6. CASE Reconnect
  <2>1. generation' \in Generations
    BY <1>6, TransportAssumption DEF Reconnect, FlagType, Generations
  <2>2. <<>> \in Seq(Frames) /\ <<>> \in Seq(Messages)
    BY EmptyAt
  <2> QED BY <1>6, <2>1, <2>2 DEF Reconnect, client, ledger, history, FlagType, ClientType,
             WireType, SignalType, LoopType, LedgerType, ServerType, Readers, Reading
<1> QED BY <1>2, <1>3, <1>4, <1>5, <1>6 DEF ServerStep

-----------------------------------------------------------------------------
(* Recording resolutions.                                                  *)

\* Shown requests of one connection are as many as their keys at most.
LEMMA FiniteOfKeys ==
  ASSUME NEW A \in SUBSET Ask, \A a \in A : a.gen = generation
  PROVE  IsFiniteSet(A)
<1> DEFINE f == [a \in A |-> a.key]
<1>1. f \in [A -> Keys]
  BY DEF Ask
<1>2. \A a, b \in A : f[a] = f[b] => a = b
  <2> SUFFICES ASSUME NEW a \in A, NEW b \in A, a.key = b.key PROVE a = b
    OBVIOUS
  <2>1. a = [gen |-> a.gen, key |-> a.key] /\ b = [gen |-> b.gen, key |-> b.key]
    BY DEF Ask
  <2> QED BY <2>1
<1>3. f \in Injection(A, Keys)
  BY <1>1, <1>2 DEF Injection, IsInjective
<1> QED BY <1>3, FS_Injection, TransportAssumption, Zenon

\* An order that reaches all of a finite set has each of its elements once.
LEMMA OrderIsInjective ==
  ASSUME NEW A, IsFiniteSet(A), NEW order \in [1..Cardinality(A) -> A],
         \A a \in A : \E i \in 1..Cardinality(A) : order[i] = a
  PROVE  \A i, j \in 1..Cardinality(A) : order[i] = order[j] => i = j
<1>1. Cardinality(A) \in Nat
  BY FS_CardinalityType
<1>2. IsFiniteSet(1..Cardinality(A)) /\ Cardinality(1..Cardinality(A)) = Cardinality(A)
  BY <1>1, FS_Interval
<1>3. order \in Surjection(1..Cardinality(A), A)
  BY DEF Surjection
<1>4. order \in Injection(1..Cardinality(A), A)
  BY <1>2, <1>3, FS_SurjSameCardinalityImpliesInj
<1> QED BY <1>4 DEF Injection, IsInjective

\* A sequence of resolutions with different keys has room in the window.
LEMMA KeysFit ==
  ASSUME NEW s \in Seq(Resolutions),
         \A i, j \in DOMAIN s : s[i].ask.key = s[j].ask.key => i = j
  PROVE  Len(s) <= Cardinality(Keys)
<1>1. Len(s) \in Nat /\ DOMAIN s = 1..Len(s) /\ \A i \in 1..Len(s) : s[i] \in Resolutions
  BY LenProperties, ElementOfSeq
<1> DEFINE f == [i \in 1..Len(s) |-> s[i].ask.key]
<1>2. f \in Injection(1..Len(s), Keys)
  BY <1>1 DEF Injection, IsInjective, Resolutions, Ask
<1>3. Cardinality(1..Len(s)) <= Cardinality(Keys)
  BY <1>2, FS_Injection, TransportAssumption
<1>4. Cardinality(1..Len(s)) = Len(s)
  BY <1>1, FS_Interval
<1> QED BY <1>3, <1>4

\* The newest of a sequence are a sequence.
LEMMA NewestType ==
  ASSUME NEW S, NEW s \in Seq(S)
  PROVE  Newest(s) \in Seq(S)
<1>1. CASE Len(s) > Window
  <2>1. Len(s) \in Nat /\ Len(s) - Window + 1 \in 1..(Len(s) + 1)
    BY <1>1, LenProperties, TransportAssumption
  <2> QED BY <1>1, <2>1, SubSeqProperties DEF Newest
<1>2. CASE ~(Len(s) > Window)
  BY <1>2 DEF Newest
<1> QED BY <1>1, <1>2

\* The resolutions that are recorded, in the order that was chosen.
InOrder(order) ==
  [i \in DOMAIN order |-> [ask |-> order[i].ask, with |-> order[i].with]]

\* Recording answers keeps the type of what is resolved.
LEMMA RecordType ==
  ASSUME NEW A \in SUBSET Answers, IsFiniteSet(A), resolved \in Seq(Resolutions), Record(A)
  PROVE  resolved' \in Seq(Resolutions)
<1>1. PICK order \in [1..Cardinality(A) -> A] : resolved' = Newest(resolved \o InOrder(order))
  BY DEF Record, InOrder
<1>2. Cardinality(A) \in Nat
  BY FS_CardinalityType
<1>3. InOrder(order) \in [1..Cardinality(A) -> Resolutions]
  BY DEF InOrder, Answers, Resolutions
<1>4. InOrder(order) \in Seq(Resolutions)
  BY <1>2, <1>3, IsASeq DEF InOrder
<1> QED BY <1>1, <1>4, ConcatProperties, NewestType

\* As long as the keys fit into the window, what is resolved stays, and what is recorded
\* comes behind it.
LEMMA RecordEffect ==
  ASSUME Cardinality(Keys) <= Window,
         NEW A \in SUBSET Answers, IsFiniteSet(A), resolved \in Seq(Resolutions), Record(A),
         \A i, j \in DOMAIN resolved : resolved[i].ask.key = resolved[j].ask.key => i = j,
         \A s, t \in A : s.ask.key = t.ask.key => s = t,
         \A t \in A : ~IsKnown(t.ask.key)
  PROVE  /\ \A i \in DOMAIN resolved : i \in DOMAIN resolved' /\ resolved'[i] = resolved[i]
         /\ \A i \in DOMAIN resolved' :
              \/ i \in DOMAIN resolved
              \/ \E t \in A : resolved'[i] = [ask |-> t.ask, with |-> t.with]
         /\ \A t \in A : \E i \in DOMAIN resolved' :
              resolved'[i] = [ask |-> t.ask, with |-> t.with]
         /\ \A i, j \in DOMAIN resolved' :
              resolved'[i].ask.key = resolved'[j].ask.key => i = j
<1>1. PICK order \in [1..Cardinality(A) -> A] :
        /\ {order[i] : i \in DOMAIN order} = A
        /\ resolved' = Newest(resolved \o InOrder(order))
  BY DEF Record, InOrder
<1> DEFINE n == Len(resolved)
           c == Cardinality(A)
           s == resolved \o InOrder(order)
<1>2. c \in Nat /\ n \in Nat /\ DOMAIN resolved = 1..n
  BY FS_CardinalityType, LenProperties
<1>3. InOrder(order) \in [1..c -> Resolutions]
  BY DEF InOrder, Answers, Resolutions
<1>4. InOrder(order) \in Seq(Resolutions) /\ Len(InOrder(order)) = c
  <2>1. InOrder(order) \in Seq(Resolutions)
    BY <1>2, <1>3, SeqDef
  <2>2. Len(InOrder(order)) \in Nat /\ 1..Len(InOrder(order)) = 1..c
    BY <1>3, <2>1, LenProperties
  <2> QED BY <1>2, <2>1, <2>2
<1>5. /\ s \in Seq(Resolutions) /\ Len(s) = n + c /\ DOMAIN s = 1..(n + c)
      /\ \A i \in 1..(n + c) : s[i] = IF i <= n THEN resolved[i] ELSE InOrder(order)[i - n]
  BY <1>2, <1>4, ConcatProperties, LenProperties
<1>6. \A i \in 1..n : i \in 1..(n + c) /\ s[i] = resolved[i]
  BY <1>2, <1>5
<1>7. \A i \in (1..(n + c)) \ (1..n) :
        /\ i - n \in 1..c
        /\ s[i] = [ask |-> order[i - n].ask, with |-> order[i - n].with]
  <2> SUFFICES ASSUME NEW i \in (1..(n + c)) \ (1..n)
               PROVE  /\ i - n \in 1..c
                      /\ s[i] = [ask |-> order[i - n].ask, with |-> order[i - n].with]
    OBVIOUS
  <2>1. i - n \in 1..c /\ ~(i <= n)
    BY <1>2
  <2> QED BY <1>5, <2>1 DEF InOrder
<1>8. \A i, j \in 1..c : order[i] = order[j] => i = j
  <2>1. \A a \in A : \E i \in 1..Cardinality(A) : order[i] = a
    BY <1>1
  <2> QED BY <2>1, OrderIsInjective
<1>9. \A i, j \in DOMAIN s : s[i].ask.key = s[j].ask.key => i = j
  <2> SUFFICES ASSUME NEW i \in 1..(n + c), NEW j \in 1..(n + c), s[i].ask.key = s[j].ask.key
               PROVE  i = j
    BY <1>5
  <2>1. CASE i \in 1..n /\ j \in 1..n
    BY <1>2, <1>6, <2>1
  <2>2. CASE i \notin 1..n /\ j \notin 1..n
    <3>1. order[i - n] \in A /\ order[j - n] \in A /\ i - n \in 1..c /\ j - n \in 1..c
      BY <1>7, <2>2
    <3>2. s[i].ask = order[i - n].ask /\ s[j].ask = order[j - n].ask
      <4>1. /\ s[i] = [ask |-> order[i - n].ask, with |-> order[i - n].with]
            /\ s[j] = [ask |-> order[j - n].ask, with |-> order[j - n].with]
        BY <1>7, <2>2
      <4> HIDE DEF s
      <4> QED BY <4>1
    <3>21. order[i - n].ask.key = order[j - n].ask.key
      BY <3>2
    <3>3. order[i - n] = order[j - n]
      BY <3>1, <3>21
    <3>4. i - n = j - n
      BY <1>8, <3>1, <3>3
    <3> QED BY <1>2, <3>4
  <2>3. ASSUME NEW k \in 1..n, NEW l \in (1..(n + c)) \ (1..n), s[k].ask.key = s[l].ask.key
        PROVE  FALSE
    <3>1. order[l - n] \in A /\ s[l].ask.key = order[l - n].ask.key
      <4> HIDE DEF s
      <4>1. l - n \in 1..c /\ s[l] = [ask |-> order[l - n].ask, with |-> order[l - n].with]
        BY <1>7
      <4> QED BY <4>1
    <3>2. resolved[k].ask.key = order[l - n].ask.key
      BY <1>6, <2>3, <3>1
    <3> QED BY <1>2, <3>1, <3>2 DEF IsKnown
  <2> QED BY <2>1, <2>2, <2>3
<1>10. resolved' = s
  <2>1. Len(s) <= Cardinality(Keys)
    BY <1>5, <1>9, KeysFit
  <2>2. Cardinality(Keys) \in Nat
    BY FS_CardinalityType, TransportAssumption
  <2>3. ~(Len(s) > Window)
    BY <1>2, <1>5, <2>1, <2>2, TransportAssumption
  <2> QED BY <1>1, <2>3 DEF Newest
<1>11. \A t \in A : \E i \in 1..(n + c) : s[i] = [ask |-> t.ask, with |-> t.with]
  <2> SUFFICES ASSUME NEW t \in A
               PROVE  \E i \in 1..(n + c) : s[i] = [ask |-> t.ask, with |-> t.with]
    OBVIOUS
  <2>1. PICK k \in 1..c : order[k] = t
    BY <1>1
  <2>2. n + k \in (1..(n + c)) \ (1..n) /\ (n + k) - n = k
    BY <1>2
  <2> QED BY <1>7, <2>1, <2>2
<1>12. \A i \in (1..(n + c)) \ (1..n) : \E t \in A : s[i] = [ask |-> t.ask, with |-> t.with]
  BY <1>7
<1> HIDE DEF s
<1>13. \A i \in DOMAIN resolved : i \in DOMAIN resolved' /\ resolved'[i] = resolved[i]
  BY <1>2, <1>5, <1>6, <1>10
<1>14. \A i \in DOMAIN resolved' :
         \/ i \in DOMAIN resolved
         \/ \E t \in A : resolved'[i] = [ask |-> t.ask, with |-> t.with]
  BY <1>2, <1>5, <1>10, <1>12
<1> QED BY <1>5, <1>9, <1>10, <1>11, <1>13, <1>14

-----------------------------------------------------------------------------
(* Types of ledger and loop; cards are live, and entries have a caller.    *)

\* An answer to a request is an answer.
LEMMA AnswerIsTyped ==
  ASSUME NEW a \in Ask, NEW w \in Withs, NEW b \in BOOLEAN
  PROVE  Answer(a, w, b) \in Answers
BY DEF Answer, Answers

\* What is due is finite, so it can be put in an order.
LEMMA ExpiredAreTyped ==
  ASSUME LedgerType, CardsAreLive, NEW due \in SUBSET shown
  PROVE  /\ {Answer(a, "expired", TRUE) : a \in due} \in SUBSET Answers
         /\ IsFiniteSet({Answer(a, "expired", TRUE) : a \in due})
<1>1. due \in SUBSET Ask /\ IsFiniteSet(due)
  BY FiniteOfKeys DEF LedgerType, CardsAreLive
<1> DEFINE A == {Answer(a, "expired", TRUE) : a \in due}
           f == [a \in due |-> Answer(a, "expired", TRUE)]
<1>2. A \in SUBSET Answers
  BY <1>1, AnswerIsTyped DEF Withs
<1>3. f \in Surjection(due, A)
  BY DEF Surjection
<1>4. IsFiniteSet(A)
  BY <1>1, <1>3, FS_Surjection
<1> QED BY <1>2, <1>4

\* The user's steps keep the types.
LEMMA UserType ==
  ASSUME TransportTypeOK, UserStep
  PROVE  TransportTypeOK'
<1> USE DEF TransportTypeOK
<1>1. ASSUME NEW a \in shown, NEW d \in Decisions, RespondPending(a, d)
      PROVE  TransportTypeOK'
  <2>1. Answer(a, d, d = "cancel") \in Answers
    BY AnswerIsTyped DEF LedgerType, Decisions, Withs
  <2>2. resolved' \in Seq(Resolutions)
    BY <1>1, <2>1, RecordType, FS_Singleton DEF RespondPending, LedgerType
  <2>3. LedgerType'
    BY <1>1, <2>1, <2>2 DEF RespondPending, LedgerType, FlagType
  <2> QED BY <1>1, <2>3 DEF RespondPending, client, wire, server, history, FlagType, ClientType,
             WireType, SignalType, LoopType, ServerType
<1>2. ASSUME NEW p \in reply, SendReply(p)
      PROVE  TransportTypeOK'
  <2>1. p.answer \in Answers /\ p.gen \in Generations
    BY DEF LedgerType
  <2>2. [m |-> "answer", ask |-> p.answer.ask, with |-> p.answer.with] \in Messages
    BY <2>1 DEF Answers, Messages
  <2>3. queue' \in Seq(Messages)
    BY <1>2, <2>2, TrySendType DEF SendReply, WireType
  <2>4. ClientType'
    <3>1. CASE UNCHANGED client
      BY <3>1 DEF client, ClientType
    <3>2. ASSUME NEW r \in RpcRequests, Enter(r, p.gen) PROVE ClientType'
      BY <2>1, <3>2, EnterType
    <3> QED BY <1>2, <3>1, <3>2 DEF SendReply
  <2>5. LedgerType'
    BY <1>2 DEF SendReply, LedgerType, ledger
  <2> QED BY <1>2, <2>3, <2>4, <2>5 DEF SendReply, server, history, FlagType, WireType,
             SignalType, LoopType, ServerType
<1> QED BY <1>1, <1>2 DEF UserStep

\* The signal loop keeps the types.
LEMMA LoopTypes ==
  ASSUME TransportTypeOK, CardsAreLive,
         LoopTakes \/ LoopWorks \/ \E due \in SUBSET shown : ExpireAsks(due)
  PROVE  TransportTypeOK'
<1> USE DEF TransportTypeOK
<1>0. ASSUME NEW kind, Taken(kind)
      PROVE  signals' \in Seq(Signal) /\ Head(signals) \in Signal
  BY <1>0, TailAt DEF Taken, SignalType
<1>1. CASE HandleAsk
  <2>1. signals' \in Seq(Signal) /\ [gen |-> generation, key |-> Head(signals).key] \in Ask
    BY <1>0, <1>1 DEF HandleAsk, Taken, Signal, Ask, FlagType
  <2> DEFINE a == [gen |-> generation, key |-> Head(signals).key]
  <2> HIDE DEF a
  <2>2. loop' \in [at : {"idle", "stop", "await"}, todo : SUBSET Answers, req : RpcRequests \union {0}]
        /\ shown' \in SUBSET Ask
    <3>1. CASE UNCHANGED <<loop, shown>>
      BY <3>1 DEF LoopType, LedgerType
    <3>2. CASE loop' = [loop EXCEPT !.todo = {Answer(a, "refused", FALSE)}] /\ UNCHANGED shown
      BY <2>1, <3>2, AnswerIsTyped DEF LoopType, LedgerType, Withs, a
    <3>3. CASE RegisterAsk(a)
      <4>1. ASSUME NEW i \in DOMAIN resolved PROVE resolved[i].with \in Withs
        <5>1. resolved \in Seq(Resolutions)
          BY DEF LedgerType
        <5>2. resolved[i] \in Resolutions
          BY <5>1, EntryAt
        <5> QED BY <5>2 DEF Resolutions
      <4>2. \A i \in DOMAIN resolved : Answer(a, resolved[i].with, FALSE) \in Answers
        BY <2>1, <4>1, AnswerIsTyped DEF a
      <4>3. Answer(a, "refused", TRUE) \in Answers
        BY <2>1, AnswerIsTyped DEF a, Withs
      <4>4. ASSUME NEW x \in Answers, loop' = [loop EXCEPT !.todo = {x}]
            PROVE  loop' \in [at : {"idle", "stop", "await"}, todo : SUBSET Answers,
                              req : RpcRequests \union {0}]
        BY <4>4 DEF LoopType
      <4>5. CASE UNCHANGED loop /\ shown' = shown \union {a}
        BY <2>1, <4>5 DEF LoopType, LedgerType, a
      <4>6. CASE UNCHANGED shown /\ \E x \in Answers : loop' = [loop EXCEPT !.todo = {x}]
        BY <4>4, <4>6 DEF LedgerType
      <4> QED BY <3>3, <4>2, <4>3, <4>5, <4>6 DEF RegisterAsk, Resolved
    <3> QED BY <1>1, <3>1, <3>2, <3>3 DEF HandleAsk, a
  <2> QED BY <1>1, <2>1, <2>2 DEF HandleAsk, client, wire, server, history, FlagType, ClientType,
             WireType, SignalType, LoopType, LedgerType, ServerType
<1>2. CASE HandleDone
  <2>1. signals' \in Seq(Signal)
    BY <1>0, <1>2 DEF HandleDone
  <2> QED BY <1>2, <2>1 DEF HandleDone, client, wire, server, history, FlagType, ClientType,
             WireType, SignalType, LoopType, LedgerType, ServerType
<1>3. CASE HandleEnd
  <2>1. signals' \in Seq(Signal)
    BY <1>0, <1>3 DEF HandleEnd
  <2>2. LoopType'
    BY <1>3 DEF HandleEnd, LoopType
  <2> QED BY <1>3, <2>1, <2>2 DEF HandleEnd, client, wire, server, history, FlagType, ClientType,
             WireType, SignalType, LedgerType, ServerType
<1>4. CASE Stop
  <2>1. ClientType'
    BY <1>4, FailPendingType DEF Stop
  <2> QED BY <1>4, <2>1 DEF Stop, IdleLoop, wire, ledger, history, FlagType,
             WireType, SignalType, LoopType, LedgerType, ServerType
<1>5. CASE LoopResume
  BY <1>5 DEF LoopResume, client, wire, ledger, server, history, FlagType, ClientType, WireType,
          SignalType, LoopType, LedgerType, ServerType
<1>6. ASSUME NEW t \in loop.todo, LoopSend(t)
      PROVE  TransportTypeOK'
  <2>1. t \in Answers /\ loop.todo \ {t} \in SUBSET Answers
    BY DEF LoopType
  <2>2. [m |-> "answer", ask |-> t.ask, with |-> t.with] \in Messages /\ t.ask.gen \in Generations
    BY <2>1 DEF Answers, Messages, Ask
  <2>3. queue' \in Seq(Messages)
    BY <1>6, <2>2, TrySendType DEF LoopSend, WireType
  <2>4. ClientType' /\ LoopType'
    <3>1. ASSUME NEW r \in RpcRequests, Enter(r, t.ask.gen),
                 loop' = [at |-> "await", todo |-> loop.todo \ {t}, req |-> r]
          PROVE  ClientType' /\ LoopType'
      BY <2>1, <2>2, <3>1, EnterType DEF LoopType
    <3>2. CASE loop' = [loop EXCEPT !.todo = @ \ {t}] /\ UNCHANGED client
      BY <2>1, <3>2 DEF LoopType, client, ClientType
    <3> QED BY <1>6, <3>1, <3>2 DEF LoopSend
  <2> QED BY <1>6, <2>3, <2>4 DEF LoopSend, ledger, server, history, FlagType, WireType,
             SignalType, LedgerType, ServerType
<1>7. ASSUME NEW due \in SUBSET shown, ExpireAsks(due)
      PROVE  TransportTypeOK'
  <2>1. LET A == {Answer(a, "expired", TRUE) : a \in due} IN A \in SUBSET Answers /\ IsFiniteSet(A)
    BY ExpiredAreTyped
  <2>2. resolved' \in Seq(Resolutions)
    BY <1>7, <2>1, RecordType DEF ExpireAsks, LedgerType
  <2>3. LoopType' /\ LedgerType'
    BY <1>7, <2>1, <2>2 DEF ExpireAsks, LoopType, LedgerType
  <2> QED BY <1>7, <2>3 DEF ExpireAsks, client, wire, server, history, FlagType, ClientType,
             WireType, SignalType, ServerType
<1> QED BY <1>1, <1>2, <1>3, <1>4, <1>5, <1>6, <1>7 DEF LoopTakes, LoopWorks

\* Every step keeps the types.
LEMMA TypeStep ==
  TransportTypeOK /\ CardsAreLive /\ [TransportNext]_transportVars => TransportTypeOK'
<1> SUFFICES ASSUME TransportTypeOK, CardsAreLive, [TransportNext]_transportVars
             PROVE  TransportTypeOK'
  OBVIOUS
<1>1. CASE UNCHANGED transportVars
  BY <1>1 DEF transportVars, client, wire, ledger, server, history, TransportTypeOK, FlagType,
          ClientType, WireType, SignalType, LoopType, LedgerType, ServerType
<1>2. CASE Call
  BY <1>2, CallerType, TransportAssumption DEF RpcRequests
<1> QED BY <1>1, <1>2, CallerType, WriterType, ReaderType, LoopTypes, UserType, ServerTypes
        DEF TransportNext

\* Every step leaves the cards of the present connection, with an active turn.
LEMMA CardsStep ==
  ASSUME TransportTypeOK, CardsAreLive, [TransportNext]_transportVars
  PROVE  CardsAreLive'
<1> USE DEF CardsAreLive
<1>1. CASE /\ shown' \in SUBSET shown
           /\ UNCHANGED <<generation, up, turnIsActive>> \/ shown' = {}
  BY <1>1
<1>2. CASE HandleAsk
  <2> DEFINE a == [gen |-> generation, key |-> Head(signals).key]
  <2>1. CASE UNCHANGED shown
    BY <1>1, <1>2, <2>1 DEF HandleAsk
  <2>2. CASE up /\ turnIsActive /\ shown' = shown \union {a}
    <3>1. a.gen = generation
      OBVIOUS
    <3> HIDE DEF a
    <3> QED BY <1>2, <2>2, <3>1 DEF HandleAsk
  <2> QED BY <1>2, <2>1, <2>2 DEF HandleAsk, IsInstalled, RegisterAsk
<1>3. CASE HandleDone \/ HandleEnd
  BY <1>3 DEF HandleDone, HandleEnd, TransportTypeOK, FlagType, LedgerType
<1>4. CASE Reconnect
  <2>1. shown = {}
    BY <1>4 DEF Reconnect
  <2> QED BY <1>1, <1>4, <2>1 DEF Reconnect, ledger
<1>5. CASE UserStep \/ \E due \in SUBSET shown : ExpireAsks(due)
  BY <1>1, <1>5 DEF UserStep, RespondPending, SendReply, ExpireAsks, ledger
<1>6. CASE UNCHANGED <<generation, up, turnIsActive, shown>>
  BY <1>1, <1>6
<1>7. CASE Call \/ \E r \in RpcRequests : CallerStep(r)
  BY <1>6, <1>7 DEF Call, CallerStep, QueueRequest, Receive, TimeOut, ledger
<1>8. CASE Write \/ WriteFails \/ ReaderStep \/ \E g \in Generations : OldEnds(g)
  BY <1>6, <1>8 DEF Write, WriteFails, ReaderStep, Read, ReadEnd, PassOn, OldEnds, ledger
<1>9. CASE LoopWorks
  BY <1>6, <1>9 DEF LoopWorks, Stop, LoopResume, LoopSend, ledger
<1>10. CASE ServerStep
  BY <1>6, <1>10 DEF ServerStep, ServerResponds, ServerAsks, ServerWrites, ServerDies, ledger
<1>11. CASE UNCHANGED transportVars
  BY <1>6, <1>11 DEF transportVars, ledger
<1> QED BY <1>2, <1>3, <1>4, <1>5, <1>7, <1>8, <1>9, <1>10, <1>11 DEF TransportNext, LoopTakes

\* A request that enters the map has a caller.
LEMMA EnterCallers ==
  ASSUME ClientType, PendingHasCaller, NEW r \in RpcRequests, NEW g, Enter(r, g)
  PROVE  PendingHasCaller'
<1>1. request[r].st = "none" /\ r \notin pending
  BY DEF Enter, IsNext, PendingHasCaller
<1> QED BY <1>1 DEF Enter, PendingHasCaller, ClientType

\* Requests that leave the map leave their callers an answer.
LEMMA FailPendingCallers ==
  ASSUME ClientType, PendingHasCaller, NEW g, FailPending(g)
  PROVE  PendingHasCaller'
BY DEF FailPending, PendingHasCaller, ClientType

\* Every step leaves a caller with each pending request.
LEMMA CallersStep ==
  ASSUME TransportTypeOK, PendingHasCaller, [TransportNext]_transportVars
  PROVE  PendingHasCaller'
<1> USE DEF TransportTypeOK
<1>1. CASE UNCHANGED client
  BY <1>1 DEF client, PendingHasCaller
<1>2. CASE Call
  BY <1>2, EnterCallers DEF Call
<1>3. ASSUME NEW r \in RpcRequests, CallerStep(r) PROVE PendingHasCaller'
  <2>1. CASE QueueRequest(r)
    BY <2>1 DEF QueueRequest, PendingHasCaller, ClientType
  <2>2. CASE Receive(r)
    BY <2>2 DEF Receive, PendingHasCaller, ClientType
  <2>3. CASE TimeOut(r)
    BY <2>3 DEF TimeOut, PendingHasCaller, ClientType
  <2> QED BY <1>3, <2>1, <2>2, <2>3 DEF CallerStep
<1>4. CASE Write \/ WriteFails
  BY <1>1, <1>4 DEF Write, WriteFails
<1>5. CASE Read
  <2>1. ASSUME NEW r \in RpcRequests, ReadResponse(r) PROVE PendingHasCaller'
    BY <1>1, <2>1 DEF ReadResponse, PendingHasCaller, ClientType
  <2>2. CASE ReadNonsense
    BY <1>1, <2>2, FailPendingCallers DEF ReadNonsense
  <2>3. stdout # <<>> /\ Head(stdout) \in Frames
    BY <1>5, TailAt DEF Read, ServerType
  <2>4. Head(stdout).m = "response" => Head(stdout).id \in RpcRequests
    BY <2>3 DEF Frames
  <2> QED BY <1>1, <1>5, <2>1, <2>2, <2>4 DEF Read, ReadSignal
<1>6. CASE ReadEnd \/ Stop \/ \E g \in Generations : OldEnds(g)
  BY <1>6, FailPendingCallers DEF ReadEnd, Stop, OldEnds
<1>7. CASE PassOn \/ LoopTakes \/ LoopResume \/ \E due \in SUBSET shown : ExpireAsks(due)
  BY <1>1, <1>7 DEF PassOn, LoopTakes, HandleAsk, HandleDone, HandleEnd, LoopResume, ExpireAsks
<1>8. CASE \E t \in loop.todo : LoopSend(t)
  BY <1>1, <1>8, EnterCallers DEF LoopSend
<1>9. CASE UserStep
  BY <1>1, <1>9, EnterCallers DEF UserStep, RespondPending, SendReply
<1>10. CASE Reconnect \/ ServerStep \/ UNCHANGED transportVars
  BY <1>1, <1>10 DEF Reconnect, ServerStep, ServerResponds, ServerAsks, ServerWrites, ServerDies,
          transportVars
<1> QED BY <1>2, <1>3, <1>4, <1>5, <1>6, <1>7, <1>8, <1>9, <1>10
        DEF TransportNext, ReaderStep, LoopWorks

EntryInv == TransportTypeOK /\ EntriesAreLive

\* The types and EntriesAreLive hold throughout.
LEMMA EntryInvHolds == TransportSpec => []EntryInv
<1>1. TransportInit => EntryInv
  <2>1. TransportInit => CardsAreLive /\ PendingHasCaller
    BY DEF TransportInit, CardsAreLive, PendingHasCaller
  <2> QED BY <2>1, TypeInit DEF EntryInv, EntriesAreLive
<1>2. EntryInv /\ [TransportNext]_transportVars => EntryInv'
  BY TypeStep, CardsStep, CallersStep DEF EntryInv, EntriesAreLive
<1> QED BY <1>1, <1>2, PTL DEF TransportSpec

\* The connection, the ledger, the signal loop and the server keep their types.
THEOREM TypeCorrect == TransportSpec => []TransportTypeOK
BY EntryInvHolds, PTL DEF EntryInv

\* A card is only shown to be answered, and the map only has requests that somebody awaits,
\* for every number of connections and every limit.
THEOREM EntriesAreLiveHolds == TransportSpec => []EntriesAreLive
BY EntryInvHolds, PTL DEF EntryInv

-----------------------------------------------------------------------------
(* Asks: what is on its way.                                               *)

\* The places are what they were, no card and no resolution was added, no answer given.
Quiet ==
  /\ shown' \in SUBSET shown /\ UNCHANGED <<generation, resolved>>
  /\ \A a \in Ask, w \in Withs : Given(a, w)' => Given(a, w)

\* A request that nothing was done about stays untouched.
LEMMA UntouchedKept ==
  ASSUME Quiet, NEW a \in Ask, Untouched(a)
  PROVE  Untouched(a)'
BY DEF Quiet, Untouched, IsKept

PipeInv == LateAsks /\ TurnIsOn /\ AskedBefore
pipe == <<up, turnIsActive, signals, reader, stdout, turn, everAsked>>

\* A step that leaves the pipe from the server to the signal loop keeps its invariants.
LEMMA QuietPipe ==
  ASSUME PipeInv, Quiet, UNCHANGED pipe
  PROVE  PipeInv'
<1> USE DEF pipe
<1>1. LateAsks'
  BY UntouchedKept DEF PipeInv, LateAsks, LateSignals, LateReader, LateFrames, Quiet, AskSignal,
     DoneSignal, Signalled, InReader, Written, DoneInSignals, DoneBeforeSignal, DoneBeforeFrame
<1>2. TurnIsOn'
  BY DEF PipeInv, TurnIsOn, Quiet, DoneSignal, InReader, DoneInSignals
<1>3. AskedBefore'
  BY DEF PipeInv, AskedBefore, Quiet, AskSignal, Signalled, InReader, Written, IsKept
<1> QED BY <1>1, <1>2, <1>3 DEF PipeInv

\* Signals and frames that are neither a request to the user nor the end of a turn change nothing.
LEMMA SignalAdded ==
  ASSUME TransportTypeOK, PipeInv, Quiet, NEW s \in Signal, s.m \in {"lost", "violation"},
         s.gen = generation, signals' = Append(signals, s),
         UNCHANGED <<up, turnIsActive, reader, stdout, turn, everAsked>>
  PROVE  PipeInv'
<1> DEFINE new == Len(signals) + 1
<1>1. /\ DOMAIN signals' = DOMAIN signals \union {new} /\ signals'[new] = s
      /\ \A i \in DOMAIN signals : i \in Nat /\ i < new /\ signals'[i] = signals[i]
      /\ new \in Nat
  BY AppendAt DEF TransportTypeOK, SignalType
<1> HIDE DEF new
<1>2. \A a \in Ask : s # AskSignal(a)
  BY DEF AskSignal
<1>3. s # DoneSignal /\ DoneSignal' = DoneSignal
  BY DEF DoneSignal, Quiet
<1>4. \A a \in Ask : Signalled(a)' <=> Signalled(a)
  BY <1>1, <1>2 DEF Signalled, AskSignal
<1>5. DoneInSignals' <=> DoneInSignals
  BY <1>1, <1>3 DEF DoneInSignals
<1>6. \A i \in DOMAIN signals : DoneBeforeSignal(i)' => DoneBeforeSignal(i)
  BY <1>1, <1>3 DEF DoneBeforeSignal
<1>7. LateAsks'
  <2>1. LateSignals /\ up => LateSignals'
    BY <1>1, <1>2, <1>6, UntouchedKept DEF LateSignals, Quiet, AskSignal, InReader, Written
  <2>2. LateReader /\ up => LateReader'
    BY <1>4, <1>5, UntouchedKept DEF LateReader, Quiet, AskSignal, InReader, Written
  <2>3. LateFrames /\ up => LateFrames'
    BY <1>3, <1>4, <1>5, UntouchedKept DEF LateFrames, Quiet, AskSignal, InReader, DoneBeforeFrame
  <2> QED BY <2>1, <2>2, <2>3 DEF PipeInv, LateAsks
<1>8. TurnIsOn'
  BY <1>1, <1>3, <1>5 DEF PipeInv, TurnIsOn, Quiet, InReader
<1>9. AskedBefore'
  BY <1>1, <1>4 DEF PipeInv, AskedBefore, Quiet, AskSignal, InReader, Written, IsKept,
     TransportTypeOK, FlagType, Generations
<1> QED BY <1>7, <1>8, <1>9 DEF PipeInv

\* A frame that is no request changes nothing about requests.
LEMMA FrameAdded ==
  ASSUME TransportTypeOK, PipeInv, Quiet, NEW f \in Frames, f.m \in {"response", "nonsense"},
         stdout' = Append(stdout, f),
         UNCHANGED <<up, turnIsActive, reader, signals, turn, everAsked>>
  PROVE  PipeInv'
<1> DEFINE new == Len(stdout) + 1
<1>1. /\ DOMAIN stdout' = DOMAIN stdout \union {new} /\ stdout'[new] = f
      /\ \A i \in DOMAIN stdout : i \in Nat /\ i < new /\ stdout'[i] = stdout[i]
      /\ new \in Nat
  BY AppendAt DEF TransportTypeOK, ServerType
<1> HIDE DEF new
<1>2. \A a \in Ask : f # AskFrame(a)
  BY DEF AskFrame
<1>3. f # DoneFrame /\ DoneSignal' = DoneSignal
  BY DEF DoneSignal, DoneFrame, Quiet
<1>4. \A a \in Ask : Written(a)' <=> Written(a)
  BY <1>1, <1>2 DEF Written, AskFrame
<1>5. \A i \in DOMAIN stdout : DoneBeforeFrame(i)' => DoneBeforeFrame(i)
  BY <1>1, <1>3 DEF DoneBeforeFrame, DoneInSignals, InReader
<1>6. LateAsks'
  <2>1. LateSignals /\ up => LateSignals'
    BY <1>3, <1>4, UntouchedKept DEF LateSignals, Quiet, AskSignal, InReader, DoneBeforeSignal
  <2>2. LateReader /\ up => LateReader'
    BY <1>3, <1>4, UntouchedKept
       DEF LateReader, Quiet, AskSignal, InReader, Signalled, DoneInSignals
  <2>3. LateFrames /\ up => LateFrames'
    BY <1>1, <1>2, <1>5, UntouchedKept
       DEF LateFrames, Quiet, AskSignal, AskFrame, InReader, Signalled
  <2> QED BY <2>1, <2>2, <2>3 DEF PipeInv, LateAsks
<1>7. TurnIsOn'
  BY <1>1, <1>3 DEF PipeInv, TurnIsOn, Quiet, InReader, DoneInSignals
<1>8. AskedBefore'
  BY <1>1, <1>4 DEF PipeInv, AskedBefore, Quiet, AskSignal, Signalled, InReader, IsKept
<1> QED BY <1>6, <1>7, <1>8 DEF PipeInv

\* The reader takes such a frame, and may have the end of the connection to report.
LEMMA FrameTaken ==
  ASSUME TransportTypeOK, PipeInv, Quiet, stdout # <<>>, reader = Reading,
         Head(stdout).m \in {"response", "nonsense"},
         reader' = reader \/ \E s \in Signal : s.m = "violation" /\ s.gen = generation
                                               /\ reader' = ReportEnd(s, "stopped"),
         stdout' = Tail(stdout), UNCHANGED <<up, turnIsActive, signals, turn, everAsked>>
  PROVE  PipeInv'
<1>1. /\ \A i \in DOMAIN stdout' : i \in Nat \ {0} /\ i + 1 \in DOMAIN stdout
                                   /\ stdout'[i] = stdout[i + 1]
      /\ 1 \in DOMAIN stdout /\ Head(stdout) = stdout[1]
      /\ \A i \in DOMAIN stdout : i \in Nat \ {0}
  BY TailAt DEF TransportTypeOK, ServerType
<1>2. /\ \A a \in Ask : ~InReader(AskSignal(a)) /\ ~InReader(AskSignal(a))'
      /\ ~InReader(DoneSignal) /\ ~InReader(DoneSignal)' /\ DoneSignal' = DoneSignal
      /\ reader'.at = "send" => reader'.signal.gen = generation
  BY DEF InReader, AskSignal, DoneSignal, Quiet, ReportEnd, Reading
<1>3. stdout[1] # DoneFrame
  BY <1>1 DEF DoneFrame
<1>4. \A a \in Ask : Written(a)' => Written(a)
  BY <1>1 DEF Written, AskFrame
<1>5. \A i \in DOMAIN stdout' : DoneBeforeFrame(i)' => DoneBeforeFrame(i + 1)
  <2> SUFFICES ASSUME NEW i \in DOMAIN stdout', DoneBeforeFrame(i)'
               PROVE  DoneBeforeFrame(i + 1)
    OBVIOUS
  <2>1. CASE DoneInSignals
    BY <2>1 DEF DoneBeforeFrame
  <2>2. CASE \E j \in DOMAIN stdout' : j < i /\ stdout'[j] = DoneFrame
    BY <1>1, <2>2 DEF DoneBeforeFrame, DoneFrame
  <2> QED BY <1>2, <2>1, <2>2 DEF DoneBeforeFrame, DoneInSignals
<1>6. LateAsks'
  <2>1. LateSignals /\ up => LateSignals'
    BY <1>2, <1>4, UntouchedKept DEF LateSignals, Quiet, AskSignal, DoneBeforeSignal
  <2>2. LateReader'
    BY <1>2 DEF LateReader
  <2>3. LateFrames /\ up => LateFrames'
    <3> SUFFICES ASSUME LateFrames, up, NEW a \in Ask, NEW i \in DOMAIN stdout',
                        a.gen = generation, stdout'[i] = AskFrame(a), DoneBeforeFrame(i)'
                 PROVE  /\ Untouched(a)' /\ ~Signalled(a)'
                        /\ \A j \in DOMAIN stdout' : stdout'[j] = AskFrame(a) => j = i
      BY <1>2 DEF LateFrames, Quiet, AskFrame
    <3>1. i + 1 \in DOMAIN stdout /\ stdout[i + 1] = AskFrame(a) /\ DoneBeforeFrame(i + 1)
      BY <1>1, <1>5
    <3>2. /\ Untouched(a) /\ ~Signalled(a)
          /\ \A j \in DOMAIN stdout : stdout[j] = AskFrame(a) => j = i + 1
      BY <3>1 DEF LateFrames
    <3> QED BY <1>1, <3>2, UntouchedKept DEF Signalled, AskSignal
  <2> QED BY <2>1, <2>2, <2>3 DEF PipeInv, LateAsks
<1>7. TurnIsOn'
  BY <1>1, <1>2 DEF PipeInv, TurnIsOn, DoneInSignals, DoneFrame
<1>8. AskedBefore'
  BY <1>2, <1>4 DEF PipeInv, AskedBefore, Quiet, AskSignal, Signalled, IsKept,
     TransportTypeOK, FlagType, Generations
<1> QED BY <1>6, <1>7, <1>8 DEF PipeInv

\* The reader takes a request to the user.
LEMMA AskTaken ==
  ASSUME TransportTypeOK, PipeInv, Quiet, stdout # <<>>, reader = Reading,
         NEW k \in Keys, Head(stdout) = [m |-> "ask", key |-> k],
         reader' = ReportEnd([m |-> "ask", gen |-> generation, key |-> k], "read"),
         stdout' = Tail(stdout), UNCHANGED <<up, turnIsActive, signals, turn, everAsked>>
  PROVE  PipeInv'
<1>01. [gen |-> generation, key |-> k] \in Ask
  BY DEF Ask, TransportTypeOK, FlagType
<1>0. PICK b \in Ask : b.gen = generation /\ b.key = k
  BY <1>01
<1>1. /\ \A i \in DOMAIN stdout' : i \in Nat \ {0} /\ i + 1 \in DOMAIN stdout
                                   /\ stdout'[i] = stdout[i + 1]
      /\ 1 \in DOMAIN stdout /\ stdout[1] = AskFrame(b)
      /\ \A i \in DOMAIN stdout : i \in Nat \ {0}
  BY TailAt, <1>0 DEF TransportTypeOK, ServerType, AskFrame
<1>2. reader'.at = "send" /\ reader'.signal = AskSignal(b) /\ reader.at # "send"
  BY <1>0 DEF ReportEnd, Reading, AskSignal
<1>3. /\ \A a \in Ask : InReader(AskSignal(a))' => a = b
      /\ ~InReader(DoneSignal) /\ ~InReader(DoneSignal)' /\ DoneSignal' = DoneSignal
  <2>1. \A a \in Ask : a = [gen |-> a.gen, key |-> a.key]
    BY DEF Ask
  <2>2. \A a \in Ask : AskSignal(a) = AskSignal(b) => a = b
    BY <1>0, <2>1 DEF AskSignal
  <2>3. AskSignal(b) # DoneSignal /\ DoneSignal' = DoneSignal
    BY DEF DoneSignal, AskSignal, Quiet
  <2> QED BY <1>2, <2>2, <2>3 DEF InReader, AskSignal
<1>4. stdout[1] # DoneFrame
  BY <1>1 DEF DoneFrame, AskFrame
<1>5. Written(b) /\ \A a \in Ask : Written(a)' => Written(a)
  BY <1>1 DEF Written, AskFrame
<1>6. \A i \in DOMAIN stdout' : DoneBeforeFrame(i)' => DoneBeforeFrame(i + 1)
  <2> SUFFICES ASSUME NEW i \in DOMAIN stdout', DoneBeforeFrame(i)'
               PROVE  DoneBeforeFrame(i + 1)
    OBVIOUS
  <2>1. CASE DoneInSignals
    BY <2>1 DEF DoneBeforeFrame
  <2>2. CASE \E j \in DOMAIN stdout' : j < i /\ stdout'[j] = DoneFrame
    BY <1>1, <2>2 DEF DoneBeforeFrame, DoneFrame
  <2> QED BY <1>3, <2>1, <2>2 DEF DoneBeforeFrame, DoneInSignals
<1>7. LateAsks'
  <2>1. LateSignals /\ up => LateSignals'
    BY <1>3, <1>5, UntouchedKept DEF LateSignals, Quiet, AskSignal, DoneBeforeSignal
  <2>2. LateFrames /\ up => LateReader'
    <3> SUFFICES ASSUME LateFrames, up, DoneInSignals' PROVE Untouched(b)' /\ ~Signalled(b)' /\ ~Written(b)'
      BY <1>3 DEF LateReader
    <3>1. DoneBeforeFrame(1)
      BY <1>3 DEF DoneBeforeFrame, DoneInSignals
    <3>2. Untouched(b) /\ ~Signalled(b) /\ \A j \in DOMAIN stdout : stdout[j] = AskFrame(b) => j = 1
      BY <1>0, <1>1, <3>1 DEF LateFrames
    <3>3. ~Written(b)'
      BY <1>1, <3>2 DEF Written, AskFrame
    <3> QED BY <3>2, <3>3, UntouchedKept, <1>0 DEF Signalled, AskSignal
  <2>3. LateFrames /\ up => LateFrames'
    <3> SUFFICES ASSUME LateFrames, up, NEW a \in Ask, NEW i \in DOMAIN stdout',
                        a.gen = generation, stdout'[i] = AskFrame(a), DoneBeforeFrame(i)'
                 PROVE  /\ Untouched(a)' /\ ~Signalled(a)' /\ ~InReader(AskSignal(a))'
                        /\ \A j \in DOMAIN stdout' : stdout'[j] = AskFrame(a) => j = i
      BY DEF LateFrames, Quiet, AskFrame
    <3>1. i + 1 \in DOMAIN stdout /\ stdout[i + 1] = AskFrame(a) /\ DoneBeforeFrame(i + 1)
      BY <1>1, <1>6
    <3>2. /\ Untouched(a) /\ ~Signalled(a)
          /\ \A j \in DOMAIN stdout : stdout[j] = AskFrame(a) => j = i + 1
      BY <3>1 DEF LateFrames
    <3>3. a # b
      BY <1>1, <3>2
    <3> QED BY <1>1, <1>3, <3>2, <3>3, UntouchedKept DEF Signalled, AskSignal
  <2> QED BY <2>1, <2>2, <2>3 DEF PipeInv, LateAsks
<1>8. TurnIsOn'
  BY <1>1, <1>3 DEF PipeInv, TurnIsOn, DoneInSignals, DoneFrame
<1>9. AskedBefore'
  <2>1. reader'.signal.gen = generation /\ generation \in Nat
    BY <1>0, <1>2 DEF AskSignal, TransportTypeOK, FlagType, Generations
  <2> QED BY <1>0, <1>3, <1>5, <2>1 DEF PipeInv, AskedBefore, Quiet, AskSignal, Signalled, IsKept
<1> QED BY <1>7, <1>8, <1>9 DEF PipeInv

\* The reader takes the end of the turn.
LEMMA DoneTaken ==
  ASSUME TransportTypeOK, PipeInv, Quiet, stdout # <<>>, reader = Reading,
         Head(stdout) = DoneFrame, reader' = ReportEnd(DoneSignal, "read"),
         stdout' = Tail(stdout), UNCHANGED <<up, turnIsActive, signals, turn, everAsked>>
  PROVE  PipeInv'
<1>1. /\ \A i \in DOMAIN stdout' : i \in Nat \ {0} /\ i + 1 \in DOMAIN stdout
                                   /\ stdout'[i] = stdout[i + 1]
      /\ 1 \in DOMAIN stdout /\ stdout[1] = DoneFrame
      /\ \A i \in DOMAIN stdout : i \in Nat \ {0}
  BY TailAt DEF TransportTypeOK, ServerType
<1>2. reader'.at = "send" /\ reader'.signal = DoneSignal /\ DoneSignal' = DoneSignal
  BY DEF ReportEnd, DoneSignal, Quiet
<1>3. \A a \in Ask : ~InReader(AskSignal(a))'
  BY <1>2 DEF InReader, AskSignal, DoneSignal
<1>4. \A a \in Ask : Written(a)' => Written(a)
  BY <1>1 DEF Written, AskFrame
<1>5. \A i \in DOMAIN stdout' : DoneBeforeFrame(i + 1)
  <2> SUFFICES ASSUME NEW i \in DOMAIN stdout' PROVE 1 < i + 1
    BY <1>1 DEF DoneBeforeFrame
  <2> QED BY <1>1
<1>6. LateAsks'
  <2>1. LateSignals /\ up => LateSignals'
    BY <1>2, <1>3, <1>4, UntouchedKept DEF LateSignals, Quiet, AskSignal, DoneBeforeSignal
  <2>2. LateReader'
    BY <1>3 DEF LateReader
  <2>3. LateFrames /\ up => LateFrames'
    <3> SUFFICES ASSUME LateFrames, up, NEW a \in Ask, NEW i \in DOMAIN stdout',
                        a.gen = generation, stdout'[i] = AskFrame(a)
                 PROVE  /\ Untouched(a)' /\ ~Signalled(a)'
                        /\ \A j \in DOMAIN stdout' : stdout'[j] = AskFrame(a) => j = i
      BY <1>3 DEF LateFrames, Quiet, AskFrame
    <3>2. /\ Untouched(a) /\ ~Signalled(a)
          /\ \A j \in DOMAIN stdout : stdout[j] = AskFrame(a) => j = i + 1
      BY <1>1, <1>5 DEF LateFrames
    <3> QED BY <1>1, <3>2, UntouchedKept DEF Signalled, AskSignal
  <2> QED BY <2>1, <2>2, <2>3 DEF PipeInv, LateAsks
<1>7. TurnIsOn'
  BY <1>1 DEF PipeInv, TurnIsOn
<1>8. AskedBefore'
  <2>1. reader'.signal.gen = generation /\ generation \in Nat
    BY <1>2 DEF DoneSignal, TransportTypeOK, FlagType, Generations
  <2> QED BY <1>3, <1>4, <2>1 DEF PipeInv, AskedBefore, Quiet, AskSignal, Signalled, IsKept
<1> QED BY <1>6, <1>7, <1>8 DEF PipeInv

\* The reader, at the end of the output, has the loss of the connection to report.
LEMMA EndRead ==
  ASSUME TransportTypeOK, PipeInv, Quiet, reader = Reading,
         reader' = ReportEnd([m |-> "lost", gen |-> generation], "stopped"),
         UNCHANGED <<up, turnIsActive, signals, stdout, turn, everAsked>>
  PROVE  PipeInv'
<1>1. /\ \A a \in Ask : ~InReader(AskSignal(a)) /\ ~InReader(AskSignal(a))'
      /\ ~InReader(DoneSignal) /\ ~InReader(DoneSignal)' /\ DoneSignal' = DoneSignal
      /\ reader'.at = "send" => reader'.signal.gen = generation
  BY DEF InReader, AskSignal, DoneSignal, Quiet, ReportEnd, Reading
<1>2. LateAsks'
  BY <1>1, UntouchedKept DEF PipeInv, LateAsks, LateSignals, LateReader, LateFrames, Quiet,
     AskSignal, AskFrame, Signalled, Written, DoneInSignals, DoneBeforeSignal, DoneBeforeFrame
<1>3. TurnIsOn'
  BY <1>1 DEF PipeInv, TurnIsOn, DoneInSignals
<1>4. AskedBefore'
  BY <1>1 DEF PipeInv, AskedBefore, Quiet, AskSignal, Signalled, Written, IsKept,
     TransportTypeOK, FlagType, Generations
<1> QED BY <1>2, <1>3, <1>4 DEF PipeInv

\* The reader passes its signal on.
LEMMA SignalPassed ==
  ASSUME TransportTypeOK, PipeInv, Quiet, reader.at = "send",
         signals' = Append(signals, reader.signal), reader' = [at |-> reader.then],
         UNCHANGED <<up, turnIsActive, stdout, turn, everAsked>>
  PROVE  PipeInv'
<1>0. PICK s \in Signal : s = reader.signal
  BY DEF TransportTypeOK, SignalType, Readers
<1>00. reader'.at # "send"
  BY DEF TransportTypeOK, SignalType, Readers
<1>01. PICK new \in Nat : new = Len(signals) + 1
  BY AppendAt, <1>0 DEF TransportTypeOK, SignalType
<1>1. /\ DOMAIN signals' = DOMAIN signals \union {new} /\ signals'[new] = s
      /\ \A i \in DOMAIN signals : i \in Nat /\ i < new /\ signals'[i] = signals[i]
      /\ new \in Nat
  BY <1>0, <1>01, AppendAt DEF TransportTypeOK, SignalType
<1>2. DoneSignal' = DoneSignal /\ \A x : InReader(x) <=> s = x
  BY <1>0 DEF DoneSignal, Quiet, InReader
<1>3. (\A a \in Ask : ~InReader(AskSignal(a))') /\ ~InReader(DoneSignal)'
  BY <1>00 DEF InReader
<1>4. \A a \in Ask : Signalled(a)' <=> Signalled(a) \/ InReader(AskSignal(a))
  BY <1>1, <1>2 DEF Signalled, AskSignal
<1>5. DoneInSignals' <=> DoneInSignals \/ InReader(DoneSignal)
  BY <1>1, <1>2 DEF DoneInSignals
<1>6. /\ \A i \in DOMAIN signals : DoneBeforeSignal(i)' => DoneBeforeSignal(i)
      /\ DoneBeforeSignal(new)' => DoneInSignals
  BY <1>1, <1>2 DEF DoneBeforeSignal, DoneInSignals
<1>7. LateAsks'
  <2>1. LateSignals /\ LateReader /\ up => LateSignals'
    <3> SUFFICES ASSUME LateSignals, LateReader, up, NEW a \in Ask, NEW i \in DOMAIN signals',
                        a.gen = generation, signals'[i] = AskSignal(a), DoneBeforeSignal(i)'
                 PROVE  /\ Untouched(a)' /\ ~Written(a)'
                        /\ \A j \in DOMAIN signals' : signals'[j] = AskSignal(a) => j = i
      BY <1>3 DEF LateSignals, Quiet, AskSignal
    <3>1. CASE i \in DOMAIN signals
      <4>1. /\ Untouched(a) /\ ~InReader(AskSignal(a)) /\ ~Written(a)
            /\ \A j \in DOMAIN signals : signals[j] = AskSignal(a) => j = i
        BY <1>1, <1>6, <3>1 DEF LateSignals
      <4> QED BY <1>1, <1>2, <4>1, UntouchedKept DEF Written, AskFrame
    <3>2. CASE i = new
      <4>1. InReader(AskSignal(a)) /\ DoneInSignals
        BY <1>1, <1>2, <1>6, <3>2
      <4>2. Untouched(a) /\ ~Signalled(a) /\ ~Written(a)
        BY <4>1 DEF LateReader
      <4> QED BY <1>1, <3>2, <4>2, UntouchedKept DEF Written, AskFrame, Signalled
    <3> QED BY <1>1, <3>1, <3>2
  <2>2. LateReader'
    BY <1>3 DEF LateReader
  <2>3. LateFrames /\ up => LateFrames'
    <3>1. \A i : DoneBeforeFrame(i)' => DoneBeforeFrame(i)
      BY <1>3, <1>5 DEF DoneBeforeFrame, DoneFrame
    <3> QED BY <1>3, <1>4, <3>1, UntouchedKept DEF LateFrames, Quiet, AskFrame
  <2> QED BY <2>1, <2>2, <2>3 DEF PipeInv, LateAsks
<1>8. TurnIsOn'
  BY <1>1, <1>2, <1>3, <1>5 DEF PipeInv, TurnIsOn
<1>9. AskedBefore'
  <2>1. s.gen <= generation
    BY <1>0 DEF PipeInv, AskedBefore
  <2>2. \A i \in DOMAIN signals' : signals'[i].gen <= generation
    BY <1>1, <2>1 DEF PipeInv, AskedBefore
  <2> QED BY <1>00, <1>3, <1>4, <2>2 DEF PipeInv, AskedBefore, Quiet, Written, AskFrame, IsKept
<1> QED BY <1>7, <1>8, <1>9 DEF PipeInv

\* The loop takes a signal; it may do something about the request that it is, and it ends the turn
\* when the signal is the end of it.
LEMMA SignalTaken ==
  ASSUME TransportTypeOK, PipeInv, signals # <<>>, signals' = Tail(signals),
         UNCHANGED <<generation, resolved, reader, stdout, turn, everAsked>>,
         shown' \subseteq everAsked, up' => up,
         up' => (turnIsActive' <=> turnIsActive /\ Head(signals) # DoneSignal),
         \A a \in Ask : Untouched(a) /\ Head(signals) # AskSignal(a) => Untouched(a)'
  PROVE  PipeInv'
<1>1. /\ \A i \in DOMAIN signals' : i \in Nat \ {0} /\ i + 1 \in DOMAIN signals
                                    /\ signals'[i] = signals[i + 1]
      /\ \A i \in DOMAIN signals :
           i = 1 \/ (i - 1 \in DOMAIN signals' /\ signals'[i - 1] = signals[i])
      /\ 1 \in DOMAIN signals /\ signals[1] = Head(signals)
      /\ \A i \in DOMAIN signals : i \in Nat \ {0}
  BY TailAt DEF TransportTypeOK, SignalType
<1>2. DoneSignal' = DoneSignal
  BY DEF DoneSignal
<1>3. \A a \in Ask : Signalled(a)' => Signalled(a)
  BY <1>1 DEF Signalled, AskSignal
<1>4. up' => (DoneInSignals' <=> DoneInSignals)
  <2>1. up' /\ DoneInSignals' => DoneInSignals
    BY <1>1, <1>2 DEF DoneInSignals
  <2>2. up' /\ DoneInSignals => DoneInSignals'
    BY <1>1, <1>2 DEF DoneInSignals
  <2> QED BY <2>1, <2>2
<1>5. up' => \A i \in DOMAIN signals' : DoneBeforeSignal(i)' => DoneBeforeSignal(i + 1)
  <2> SUFFICES ASSUME up', NEW i \in DOMAIN signals', DoneBeforeSignal(i)'
               PROVE  DoneBeforeSignal(i + 1)
    OBVIOUS
  <2>1. CASE ~turnIsActive'
    <3>1. CASE ~turnIsActive
      BY <3>1 DEF DoneBeforeSignal
    <3>2. CASE signals[1] = DoneSignal
      <4>1. 1 < i + 1
        BY <1>1
      <4> QED BY <1>1, <3>2, <4>1 DEF DoneBeforeSignal
    <3> QED BY <1>1, <2>1, <3>1, <3>2
  <2>2. CASE \E j \in DOMAIN signals' : j < i /\ signals'[j] = DoneSignal
    BY <1>1, <2>2 DEF DoneBeforeSignal
  <2> QED BY <1>2, <2>1, <2>2 DEF DoneBeforeSignal
<1>6. LateAsks'
  <2>1. LateSignals /\ up' => LateSignals'
    <3> SUFFICES ASSUME LateSignals, up', NEW a \in Ask, NEW i \in DOMAIN signals',
                        a.gen = generation, signals'[i] = AskSignal(a), DoneBeforeSignal(i)'
                 PROVE  /\ Untouched(a)' /\ ~InReader(AskSignal(a))' /\ ~Written(a)'
                        /\ \A j \in DOMAIN signals' : signals'[j] = AskSignal(a) => j = i
      BY DEF LateSignals, AskSignal
    <3>1. i + 1 \in DOMAIN signals /\ signals[i + 1] = AskSignal(a) /\ DoneBeforeSignal(i + 1)
      BY <1>1, <1>5
    <3>2. /\ Untouched(a) /\ ~InReader(AskSignal(a)) /\ ~Written(a)
          /\ \A j \in DOMAIN signals : signals[j] = AskSignal(a) => j = i + 1
      BY <3>1 DEF LateSignals
    <3>3. signals[1] # AskSignal(a)
      BY <1>1, <3>2
    <3> QED BY <1>1, <3>2, <3>3 DEF Written, AskFrame, InReader, AskSignal
  <2>2. LateReader /\ up' => LateReader'
    <3> SUFFICES ASSUME LateReader, up', NEW a \in Ask, a.gen = generation,
                        InReader(AskSignal(a)), DoneInSignals
                 PROVE  Untouched(a)' /\ ~Signalled(a)' /\ ~Written(a)'
      BY <1>4 DEF LateReader, InReader, AskSignal
    <3>1. Untouched(a) /\ ~Signalled(a) /\ ~Written(a)
      BY DEF LateReader
    <3> QED BY <1>1, <1>3, <3>1 DEF Signalled, Written, AskFrame
  <2>3. LateFrames /\ up' => LateFrames'
    <3> SUFFICES ASSUME LateFrames, up', NEW a \in Ask, NEW i \in DOMAIN stdout,
                        a.gen = generation, stdout[i] = AskFrame(a), DoneBeforeFrame(i)
                 PROVE  /\ Untouched(a)' /\ ~Signalled(a)' /\ ~InReader(AskSignal(a))'
                        /\ \A j \in DOMAIN stdout : stdout[j] = AskFrame(a) => j = i
      BY <1>2, <1>4 DEF LateFrames, AskFrame, DoneBeforeFrame, InReader, DoneFrame
    <3>1. /\ Untouched(a) /\ ~Signalled(a) /\ ~InReader(AskSignal(a))
          /\ \A j \in DOMAIN stdout : stdout[j] = AskFrame(a) => j = i
      BY DEF LateFrames
    <3> QED BY <1>1, <1>3, <3>1 DEF Signalled, InReader, AskSignal
  <2> QED BY <2>1, <2>2, <2>3 DEF PipeInv, LateAsks
<1>7. TurnIsOn'
  BY <1>1, <1>2, <1>4 DEF PipeInv, TurnIsOn, InReader
<1>8. AskedBefore'
  BY <1>1, <1>3 DEF PipeInv, AskedBefore, InReader, AskSignal, Written, AskFrame, IsKept
<1> QED BY <1>6, <1>7, <1>8 DEF PipeInv

\* The server asks: what it has not asked, or what its turn still goes on for.
LEMMA AskWritten ==
  ASSUME TransportTypeOK, PipeInv, OneAnswer, Quiet, NEW k \in Keys,
         NEW b \in Ask, b.gen = generation, b.key = k,
         b \notin everAsked \/ turn, everAsked' = everAsked \union {b},
         stdout' = Append(stdout, [m |-> "ask", key |-> k]),
         UNCHANGED <<up, turnIsActive, signals, reader, turn>>
  PROVE  PipeInv'
<1>0. PICK new \in Nat : new = Len(stdout) + 1
  BY LenProperties DEF TransportTypeOK, ServerType
<1>1. /\ DOMAIN stdout' = DOMAIN stdout \union {new} /\ stdout'[new] = AskFrame(b)
      /\ \A i \in DOMAIN stdout : i \in Nat /\ i < new /\ stdout'[i] = stdout[i]
  <2>1. [m |-> "ask", key |-> k] \in Frames
    BY DEF Frames
  <2> QED BY <1>0, <2>1, AppendAt DEF TransportTypeOK, ServerType, AskFrame
<1>2. AskFrame(b) # DoneFrame /\ DoneSignal' = DoneSignal
  BY DEF DoneSignal, DoneFrame, AskFrame, Quiet
<1>3. \A a \in Ask : a.gen = generation /\ AskFrame(a) = AskFrame(b) => a = b
  <2> SUFFICES ASSUME NEW a \in Ask, a.gen = generation, AskFrame(a) = AskFrame(b) PROVE a = b
    OBVIOUS
  <2>1. a = [gen |-> a.gen, key |-> a.key] /\ b = [gen |-> b.gen, key |-> b.key]
    BY DEF Ask
  <2> QED BY <2>1 DEF AskFrame
<1>4. \A a \in Ask : a.gen = generation => (Written(a)' <=> Written(a) \/ a = b)
  BY <1>1, <1>3 DEF Written, AskFrame
<1>5. \A i \in DOMAIN stdout : DoneBeforeFrame(i)' => DoneBeforeFrame(i)
  BY <1>1, <1>2 DEF DoneBeforeFrame, DoneInSignals, InReader
<1>6. DoneBeforeFrame(new)' =>
        DoneInSignals \/ InReader(DoneSignal) \/ \E j \in DOMAIN stdout : stdout[j] = DoneFrame
  BY <1>1, <1>2 DEF DoneBeforeFrame, DoneInSignals, InReader
<1>7. b \notin everAsked =>
        Untouched(b) /\ ~Signalled(b) /\ ~InReader(AskSignal(b)) /\ ~Written(b)
  BY DEF PipeInv, AskedBefore, OneAnswer, Untouched
\* Within its turn nothing is late.
<1>8. up /\ turn =>
        /\ ~DoneInSignals /\ ~InReader(DoneSignal)
        /\ \A i \in DOMAIN signals : ~DoneBeforeSignal(i)
        /\ \A i \in DOMAIN stdout' : ~DoneBeforeFrame(i)'
  <2>1. up /\ turn => /\ ~DoneInSignals /\ ~InReader(DoneSignal)
                      /\ \A i \in DOMAIN stdout : stdout[i] # DoneFrame
    BY DEF PipeInv, TurnIsOn
  <2>2. up /\ turn => \A i \in DOMAIN signals : ~DoneBeforeSignal(i)
    BY <2>1 DEF DoneBeforeSignal, DoneInSignals
  <2>3. up /\ turn => \A i \in DOMAIN stdout : ~DoneBeforeFrame(i)
    BY <2>1 DEF DoneBeforeFrame
  <2> QED BY <1>1, <1>5, <1>6, <2>1, <2>2, <2>3
<1>9. up => LateSignals' /\ LateReader' /\ LateFrames'
  <2>1. CASE up /\ turn
    <3>1. /\ \A i \in DOMAIN signals : ~DoneBeforeSignal(i)'
          /\ ~DoneInSignals'
          /\ \A i \in DOMAIN stdout' : ~DoneBeforeFrame(i)'
      BY <1>2, <1>8, <2>1 DEF DoneBeforeSignal, DoneInSignals
    <3> QED BY <3>1 DEF LateSignals, LateReader, LateFrames
  <2>2. CASE up /\ b \notin everAsked
    <3>1. LateSignals'
      <4> SUFFICES ASSUME NEW a \in Ask, NEW i \in DOMAIN signals,
                          a.gen = generation, signals[i] = AskSignal(a), DoneBeforeSignal(i)
                   PROVE  /\ Untouched(a)' /\ ~InReader(AskSignal(a)) /\ ~Written(a)'
                          /\ \A j \in DOMAIN signals : signals[j] = AskSignal(a) => j = i
        BY <1>2 DEF LateSignals, AskSignal, InReader, DoneBeforeSignal, Quiet
      <4>1. a # b
        BY <1>7, <2>2 DEF Signalled
      <4>2. /\ Untouched(a) /\ ~InReader(AskSignal(a)) /\ ~Written(a)
            /\ \A j \in DOMAIN signals : signals[j] = AskSignal(a) => j = i
        BY <2>2 DEF PipeInv, LateAsks, LateSignals
      <4> QED BY <1>4, <4>1, <4>2, UntouchedKept
    <3>2. LateReader'
      <4> SUFFICES ASSUME NEW a \in Ask, a.gen = generation,
                          InReader(AskSignal(a)), DoneInSignals
                   PROVE  Untouched(a)' /\ ~Signalled(a) /\ ~Written(a)'
        BY <1>2 DEF LateReader, AskSignal, InReader, DoneInSignals, Quiet, Signalled
      <4>1. a # b
        BY <1>7, <2>2
      <4>2. Untouched(a) /\ ~Signalled(a) /\ ~Written(a)
        BY <2>2 DEF PipeInv, LateAsks, LateReader
      <4> QED BY <1>4, <4>1, <4>2, UntouchedKept
    <3>3. LateFrames'
      <4> SUFFICES ASSUME NEW a \in Ask, NEW i \in DOMAIN stdout',
                          a.gen = generation, stdout'[i] = AskFrame(a), DoneBeforeFrame(i)'
                   PROVE  /\ Untouched(a)' /\ ~Signalled(a) /\ ~InReader(AskSignal(a))
                          /\ \A j \in DOMAIN stdout' : stdout'[j] = AskFrame(a) => j = i
        BY DEF LateFrames, AskSignal, AskFrame, InReader, Quiet, Signalled
      <4>1. CASE a = b
        <5>1. \A j \in DOMAIN stdout : stdout[j] # AskFrame(b)
          BY <1>7, <2>2 DEF Written
        <5> QED BY <1>1, <1>7, <2>2, <4>1, <5>1, UntouchedKept
      <4>2. CASE a # b
        <5>1. i \in DOMAIN stdout /\ stdout[i] = AskFrame(a) /\ DoneBeforeFrame(i)
          BY <1>1, <1>3, <1>5, <4>2
        <5>2. /\ Untouched(a) /\ ~Signalled(a) /\ ~InReader(AskSignal(a))
              /\ \A j \in DOMAIN stdout : stdout[j] = AskFrame(a) => j = i
          BY <2>2, <5>1 DEF PipeInv, LateAsks, LateFrames
        <5> QED BY <1>1, <1>3, <4>2, <5>2, UntouchedKept
      <4> QED BY <4>1, <4>2
    <3> QED BY <3>1, <3>2, <3>3
  <2> QED BY <2>1, <2>2
<1>10. LateAsks'
  BY <1>9 DEF LateAsks
<1>11. TurnIsOn'
  BY <1>1, <1>2 DEF PipeInv, TurnIsOn, Quiet, InReader, DoneInSignals
<1>12. AskedBefore'
  <2>1. b.gen <= generation
    BY DEF TransportTypeOK, FlagType, Generations
  <2> QED BY <1>4, <2>1 DEF PipeInv, AskedBefore, Quiet, AskSignal, Signalled, InReader, IsKept
<1> QED BY <1>10, <1>11, <1>12 DEF PipeInv

\* The server ends its turn.
LEMMA DoneWritten ==
  ASSUME TransportTypeOK, PipeInv, Quiet, turn' = FALSE, stdout' = Append(stdout, DoneFrame),
         UNCHANGED <<up, turnIsActive, signals, reader, everAsked>>
  PROVE  PipeInv'
<1>0. PICK new \in Nat : new = Len(stdout) + 1
  BY LenProperties DEF TransportTypeOK, ServerType
<1>1. /\ DOMAIN stdout' = DOMAIN stdout \union {new} /\ stdout'[new] = DoneFrame
      /\ \A i \in DOMAIN stdout : i \in Nat /\ i < new /\ stdout'[i] = stdout[i]
  <2>1. DoneFrame \in Frames
    BY DEF DoneFrame, Frames
  <2> QED BY <1>0, <2>1, AppendAt DEF TransportTypeOK, ServerType
<1>2. DoneSignal' = DoneSignal /\ \A a \in Ask : AskFrame(a) # DoneFrame
  BY DEF DoneSignal, DoneFrame, AskFrame, Quiet
<1>3. \A a \in Ask : Written(a)' <=> Written(a)
  BY <1>1, <1>2 DEF Written, AskFrame
<1>4. \A i \in DOMAIN stdout : DoneBeforeFrame(i)' => DoneBeforeFrame(i)
  <2> SUFFICES ASSUME NEW i \in DOMAIN stdout, NEW j \in DOMAIN stdout', j < i,
                      stdout'[j] = DoneFrame
               PROVE  \E l \in DOMAIN stdout : l < i /\ stdout[l] = DoneFrame
    BY <1>2 DEF DoneBeforeFrame, DoneInSignals, InReader, DoneFrame
  <2>1. j # new
    BY <1>1
  <2> QED BY <1>1, <2>1
<1>5. LateAsks'
  <2>1. LateSignals /\ up => LateSignals'
    BY <1>2, <1>3, UntouchedKept DEF LateSignals, Quiet, AskSignal, InReader, DoneBeforeSignal
  <2>2. LateReader /\ up => LateReader'
    BY <1>2, <1>3, UntouchedKept
       DEF LateReader, Quiet, AskSignal, InReader, Signalled, DoneInSignals
  <2>3. LateFrames /\ up => LateFrames'
    BY <1>1, <1>2, <1>4, UntouchedKept
       DEF LateFrames, Quiet, AskSignal, AskFrame, InReader, Signalled
  <2> QED BY <2>1, <2>2, <2>3 DEF PipeInv, LateAsks
<1>6. TurnIsOn'
  BY DEF TurnIsOn
<1>7. AskedBefore'
  BY <1>1, <1>3 DEF PipeInv, AskedBefore, Quiet, AskSignal, Signalled, InReader, IsKept
<1> QED BY <1>5, <1>6, <1>7 DEF PipeInv

\* The next connection finds nothing of its own on the way.
LEMMA PipeReconnect ==
  ASSUME TransportTypeOK, PipeInv, Reconnect
  PROVE  PipeInv'
<1>1. /\ generation' = generation + 1 /\ generation \in Nat /\ reader'.at = "read"
      /\ DOMAIN stdout' = {} /\ turnIsActive'
      /\ UNCHANGED <<signals, shown, resolved, everAsked>>
  BY EmptyAt DEF Reconnect, Reading, TransportTypeOK, FlagType, Generations, ledger, history
<1>2. \A i \in DOMAIN signals : signals[i] \in Signal /\ signals[i].gen <= generation
  BY EntryAt DEF PipeInv, AskedBefore, TransportTypeOK, SignalType
<1>3. \A i \in DOMAIN signals' : signals'[i].gen \in Nat /\ signals'[i].gen < generation'
  BY <1>1, <1>2 DEF Signal, Generations
<1>4. (\A i \in DOMAIN signals' : signals'[i] # DoneSignal') /\ ~DoneInSignals'
  BY <1>1, <1>3 DEF DoneSignal, DoneInSignals
<1>5. \A x : ~InReader(x)'
  BY <1>1 DEF InReader
<1>6. LateAsks'
  <2>1. LateSignals'
    BY <1>1, <1>3 DEF LateSignals, AskSignal
  <2> QED BY <1>1, <1>5, <2>1 DEF LateAsks, LateReader, LateFrames, InReader
<1>7. TurnIsOn'
  BY <1>1, <1>4 DEF TurnIsOn, InReader
<1>8. AskedBefore'
  <2>1. \A a \in Ask : (~InReader(AskSignal(a)) /\ ~Written(a))'
    BY <1>1 DEF InReader, Written
  <2>2. \A a \in everAsked' : a.gen <= generation'
    BY <1>1 DEF PipeInv, AskedBefore, TransportTypeOK, ServerType, Ask, Generations
  <2> QED BY <1>1, <1>3, <2>1, <2>2 DEF PipeInv, AskedBefore, Signalled, AskSignal, IsKept
<1> QED BY <1>6, <1>7, <1>8 DEF PipeInv

\* Where nothing moves, an answer is given to what is not late.
LEMMA HandledPipe ==
  ASSUME PipeInv, UNCHANGED pipe, UNCHANGED generation,
         \A a \in Ask : Untouched(a) => Untouched(a)',
         \A a \in Ask : IsKept(a)' => a \in everAsked, shown' \subseteq everAsked
  PROVE  PipeInv'
<1> USE DEF pipe
<1>1. LateAsks'
  BY DEF PipeInv, LateAsks, LateSignals, LateReader, LateFrames, AskSignal,
     DoneSignal, Signalled, InReader, Written, DoneInSignals, DoneBeforeSignal, DoneBeforeFrame
<1>2. TurnIsOn'
  BY DEF PipeInv, TurnIsOn, DoneSignal, InReader, DoneInSignals
<1>3. AskedBefore'
  BY DEF PipeInv, AskedBefore, AskSignal, Signalled, InReader, Written
<1> QED BY <1>1, <1>2, <1>3 DEF PipeInv

-----------------------------------------------------------------------------
(* Asks: what has been answered.                                           *)

\* a is on its way from the server to the signal loop.
OnWay(a) == Signalled(a) \/ InReader(AskSignal(a)) \/ Written(a)

\* What is over stays so: the server does not ask again after its turn.
LEMMA OverStays ==
  ASSUME TransportTypeOK, AskedBefore, UNCHANGED generation, up' => up,
         turnIsActive' => turnIsActive,
         turn' => turn, \A a \in everAsked : a.gen = generation /\ OnWay(a)' => OnWay(a) \/ turn
  PROVE  \A a \in everAsked : IsOver(a) => IsOver(a)'
<1> SUFFICES ASSUME NEW a \in everAsked, IsOver(a), ~(a.gen < generation), ~(~up)
             PROVE  IsOver(a)'
  BY DEF IsOver
<1>1. ~turnIsActive /\ ~turn /\ ~OnWay(a)
  BY DEF IsOver, OnWay
<1>2. a.gen = generation
  BY DEF AskedBefore, TransportTypeOK, FlagType, ServerType, Ask, Generations
<1> QED BY <1>1, <1>2 DEF IsOver, OnWay

\* A request that is over stays so while the pipe is left alone.
LEMMA QuietOver ==
  ASSUME TransportTypeOK, AskedBefore, UNCHANGED generation, UNCHANGED pipe
  PROVE  \A a \in everAsked : IsOver(a) => IsOver(a)'
<1>1. \A a \in everAsked : OnWay(a)' => OnWay(a)
  BY DEF pipe, OnWay, Signalled, InReader, Written, AskSignal, AskFrame
<1> QED BY <1>1, OverStays DEF pipe

\* What was answered once still is when no answer is added.
LEMMA QuietAnswers ==
  ASSUME OneAnswer, UNCHANGED resolved, everAsked \subseteq everAsked',
         \A a \in Ask, w \in Withs : Given(a, w)' => Given(a, w),
         \A a \in everAsked : IsOver(a) => IsOver(a)'
  PROVE  OneAnswer'
<1> SUFFICES ASSUME NEW a \in Ask, NEW w \in Withs, Given(a, w)
             PROVE  /\ a \in everAsked'
                    /\ \/ \E i \in DOMAIN resolved : resolved[i].ask = a /\ resolved[i].with = w
                       \/ w = "refused" /\ IsRefused(a)'
  BY DEF OneAnswer
<1>1. /\ a \in everAsked
      /\ \/ \E i \in DOMAIN resolved : resolved[i].ask = a /\ resolved[i].with = w
         \/ w = "refused" /\ IsRefused(a)
  BY DEF OneAnswer
<1>2. IsRefused(a) => IsRefused(a)'
  BY <1>1 DEF IsRefused, IsKept, IsKnown
<1> QED BY <1>1, <1>2

\* The ledger stays sound when cards are only closed.
LEMMA QuietLedger ==
  ASSUME LedgerIsSound, UNCHANGED resolved, shown' \in SUBSET shown
  PROVE  LedgerIsSound'
BY DEF LedgerIsSound, IsKnown

\* A quiet step keeps the invariant of the answers.
LEMMA QuietStep ==
  ASSUME TransportTypeOK, AnswerInv, Quiet, UNCHANGED pipe
  PROVE  AnswerInv'
<1>1. PipeInv'
  BY QuietPipe DEF AnswerInv, PipeInv
<1>2. OneAnswer'
  BY QuietOver, QuietAnswers DEF AnswerInv, Quiet, pipe
<1> QED BY <1>1, <1>2, QuietLedger DEF AnswerInv, PipeInv, Quiet

\* A message is queued: the answers are those there were, and the one that it is.
LEMMA QueuedAnswers ==
  ASSUME TransportTypeOK, NEW m \in Messages, NEW g, TrySend(g, m), UNCHANGED heard,
         NEW a \in Ask, NEW w \in Withs, NEW i \in DOMAIN queue',
         queue'[i] = [m |-> "answer", ask |-> a, with |-> w]
  PROVE  \/ \E j \in DOMAIN queue : queue[j] = [m |-> "answer", ask |-> a, with |-> w]
         \/ m = [m |-> "answer", ask |-> a, with |-> w]
BY AppendAt DEF TrySend, TransportTypeOK, WireType

\* The callers do nothing about requests of the server.
LEMMA CallerIsQuiet ==
  ASSUME TransportTypeOK, NEW r \in RpcRequests, Call \/ CallerStep(r)
  PROVE  Quiet /\ UNCHANGED pipe
<1>1. CASE Call \/ Receive(r) \/ TimeOut(r)
  BY <1>1 DEF Call, Receive, TimeOut, Quiet, pipe, Given, wire, ledger, server, history,
     TransportTypeOK, LedgerType
<1>2. CASE QueueRequest(r)
  <2> DEFINE m == [m |-> "request", id |-> r]
  <2>1. m \in Messages /\ \A a, w : m # [m |-> "answer", ask |-> a, with |-> w]
    BY DEF Messages
  <2> HIDE DEF m
  <2>2. TrySend(request[r].gen, m) /\ UNCHANGED <<heard, reply, loop, ledger>>
    BY <1>2 DEF QueueRequest, m, history
  <2>3. \A a \in Ask, w \in Withs : Given(a, w)' => Given(a, w)
    BY <2>1, <2>2, QueuedAnswers DEF Given
  <2> QED BY <1>2, <2>2, <2>3
          DEF QueueRequest, Quiet, pipe, ledger, server, history, TransportTypeOK, LedgerType
<1> QED BY <1>1, <1>2 DEF CallerStep

\* The writer gives no new answer: it sends those that were given.
LEMMA WriteIsQuiet ==
  ASSUME TransportTypeOK, Write
  PROVE  Quiet /\ UNCHANGED pipe
<1>1. /\ 1 \in DOMAIN queue /\ Head(queue) = queue[1] /\ Head(queue) \in Messages
      /\ \A i \in DOMAIN queue' : i + 1 \in DOMAIN queue /\ queue'[i] = queue[i + 1]
  BY TailAt DEF Write, TransportTypeOK, WireType
<1> DEFINE m == Head(queue)
<1>2. ASSUME NEW a \in Ask, NEW w \in Withs, w \in heard'[a]
      PROVE  w \in heard[a] \/ m = [m |-> "answer", ask |-> a, with |-> w]
  <2>1. CASE UNCHANGED heard
    BY <1>2, <2>1
  <2>2. CASE m.m = "answer" /\ heard' = [heard EXCEPT ![m.ask] = @ \union {m.with}]
    <3>1. m = [m |-> "answer", ask |-> m.ask, with |-> m.with]
      BY <1>1, <2>2 DEF Messages
    <3> HIDE DEF m
    <3> QED BY <1>2, <2>2, <3>1 DEF TransportTypeOK, ServerType
  <2> QED BY <2>1, <2>2 DEF Write
<1>3. \A a \in Ask, w \in Withs : Given(a, w)' => Given(a, w)
  <2> SUFFICES ASSUME NEW a \in Ask, NEW w \in Withs, Given(a, w)' PROVE Given(a, w)
    OBVIOUS
  <2>1. CASE w \in heard'[a]
    BY <1>1, <1>2, <2>1 DEF Given
  <2>2. CASE \E i \in DOMAIN queue' : queue'[i] = [m |-> "answer", ask |-> a, with |-> w]
    BY <1>1, <2>2 DEF Given
  <2> QED BY <2>1, <2>2 DEF Given, Write
<1> QED BY <1>3 DEF Write, Quiet, pipe, ledger, TransportTypeOK, LedgerType

\* An answer goes from the loop or the caller to the writer.
LEMMA SendIsQuiet ==
  ASSUME TransportTypeOK, \/ \E p \in reply : SendReply(p)
                          \/ \E t \in loop.todo : LoopSend(t)
  PROVE  Quiet /\ UNCHANGED pipe
<1>1. ASSUME NEW p \in reply, SendReply(p)
      PROVE  Quiet
  <2> DEFINE m == [m |-> "answer", ask |-> p.answer.ask, with |-> p.answer.with]
  <2>1. m \in Messages
    BY DEF Messages, TransportTypeOK, LedgerType, Answers
  <2>2. \A a, w : m = [m |-> "answer", ask |-> a, with |-> w] =>
                    p.answer.ask = a /\ p.answer.with = w
    OBVIOUS
  <2> HIDE DEF m
  <2>3. TrySend(p.gen, m) /\ UNCHANGED <<heard, loop>> /\ reply' \subseteq reply
    BY <1>1 DEF SendReply, m, history
  <2>4. \A a \in Ask, w \in Withs : Given(a, w)' => Given(a, w)
    BY <2>1, <2>2, <2>3, QueuedAnswers DEF Given
  <2> QED BY <1>1, <2>4 DEF SendReply, Quiet, ledger, TransportTypeOK, LedgerType
<1>2. ASSUME NEW t \in loop.todo, LoopSend(t)
      PROVE  Quiet
  <2> DEFINE m == [m |-> "answer", ask |-> t.ask, with |-> t.with]
  <2>1. m \in Messages
    BY DEF Messages, TransportTypeOK, LoopType, Answers
  <2>2. \A a, w : m = [m |-> "answer", ask |-> a, with |-> w] => t.ask = a /\ t.with = w
    OBVIOUS
  <2> HIDE DEF m
  <2>3. TrySend(t.ask.gen, m) /\ UNCHANGED <<heard, reply>> /\ loop'.todo \subseteq loop.todo
    BY <1>2 DEF LoopSend, m, history, TransportTypeOK, LoopType
  <2>4. \A a \in Ask, w \in Withs : Given(a, w)' => Given(a, w)
    BY <2>1, <2>2, <2>3, QueuedAnswers DEF Given
  <2> QED BY <1>2, <2>4 DEF LoopSend, Quiet, ledger, TransportTypeOK, LedgerType
<1>3. UNCHANGED pipe
  BY DEF SendReply, LoopSend, pipe, server, history
<1> QED BY <1>1, <1>2, <1>3

\* Nor do a stop, a resumed loop, a death of the server and the end of an old reader.
LEMMA OthersAreQuiet ==
  ASSUME TransportTypeOK, \/ Stop \/ LoopResume \/ ServerDies \/ UNCHANGED transportVars
                          \/ \E g \in Generations : OldEnds(g)
  PROVE  Quiet /\ UNCHANGED pipe
<1> USE DEF Quiet, pipe, Given, client, wire, ledger, server, history, TransportTypeOK, LedgerType
<1>1. CASE Stop
  <2>1. loop'.todo \subseteq loop.todo
    BY <1>1 DEF Stop, IdleLoop
  <2> QED BY <1>1, <2>1 DEF Stop
<1>2. CASE LoopResume
  <2>1. loop'.todo = loop.todo
    BY <1>2 DEF LoopResume, LoopType
  <2> QED BY <1>2, <2>1 DEF LoopResume
<1>3. CASE ServerDies \/ UNCHANGED transportVars \/ \E g \in Generations : OldEnds(g)
  BY <1>3 DEF ServerDies, transportVars, OldEnds
<1> QED BY <1>1, <1>2, <1>3

\* What the reader does is quiet; it only moves what is on its way.
LEMMA ReaderKeeps ==
  ASSUME TransportTypeOK, AnswerInv, ReaderStep
  PROVE  AnswerInv'
<1>1. Quiet /\ UNCHANGED <<resolved, shown, everAsked>>
  BY DEF ReaderStep, Read, ReadEnd, PassOn, Quiet, Given, wire, ledger, server, history,
     TransportTypeOK, LedgerType
<1>2. UNCHANGED <<up, turnIsActive, turn, everAsked, generation>>
  BY DEF ReaderStep, Read, ReadEnd, PassOn, server, history
<1>3. PipeInv
  BY DEF AnswerInv, PipeInv
<1>4. CASE Read
  <2>1. stdout # <<>> /\ reader = Reading /\ stdout' = Tail(stdout) /\ UNCHANGED signals
    BY <1>4 DEF Read
  <2>2. /\ Head(stdout) \in Frames /\ Head(stdout) = stdout[1] /\ 1 \in DOMAIN stdout
        /\ \A i \in DOMAIN stdout' : i + 1 \in DOMAIN stdout /\ stdout'[i] = stdout[i + 1]
    BY <2>1, TailAt DEF TransportTypeOK, ServerType
  <2> DEFINE f == Head(stdout)
  <2>3. CASE f.m \in {"response", "nonsense"}
    <3>1. \/ reader' = reader
          \/ \E s \in Signal : s.m = "violation" /\ s.gen = generation
                               /\ reader' = ReportEnd(s, "stopped")
      <4>1. [m |-> "violation", gen |-> generation] \in Signal
        BY DEF Signal, TransportTypeOK, FlagType
      <4> QED BY <1>4, <2>3, <4>1 DEF Read, ReadResponse, ReadNonsense
    <3>2. PipeInv'
      BY <1>1, <1>2, <1>3, <2>1, <2>3, <3>1, FrameTaken
    <3>3. \A a \in everAsked : OnWay(a)' => OnWay(a)
      BY <2>1, <2>2, <3>1 DEF OnWay, Signalled, InReader, Written, AskSignal, AskFrame, ReportEnd
    <3> QED BY <1>1, <1>2, <3>2, <3>3, OverStays, QuietAnswers, QuietLedger
            DEF AnswerInv, PipeInv, Quiet
  <2>4. CASE f.m = "ask"
    <3>1. f.key \in Keys /\ f = [m |-> "ask", key |-> f.key]
      BY <2>2, <2>4 DEF Frames
    <3>2. PICK k \in Keys : k = f.key
      BY <3>1
    <3>3. reader' = ReportEnd([m |-> "ask", gen |-> generation, key |-> k], "read")
      BY <1>4, <2>4, <3>2 DEF Read, ReadSignal
    <3>4. PipeInv'
      BY <1>1, <1>2, <1>3, <2>1, <3>1, <3>2, <3>3, AskTaken
    <3>5. \A a \in everAsked : a.gen = generation /\ OnWay(a)' => OnWay(a)
      <4> SUFFICES ASSUME NEW a \in everAsked, a.gen = generation, InReader(AskSignal(a))'
                   PROVE  Written(a)
        BY <2>1, <2>2 DEF OnWay, Signalled, Written, AskSignal, AskFrame
      <4>1. AskSignal(a) = [m |-> "ask", gen |-> generation, key |-> k]
        BY <3>3 DEF InReader, AskSignal, ReportEnd
      <4>2. a.key = k
        BY <4>1 DEF AskSignal
      <4> QED BY <2>2, <3>1, <3>2, <4>2 DEF Written, AskFrame
    <3> QED BY <1>1, <1>2, <3>4, <3>5, OverStays, QuietAnswers, QuietLedger
            DEF AnswerInv, PipeInv, Quiet
  <2>5. CASE f.m = "done"
    <3>1. f = DoneFrame
      BY <2>2, <2>5 DEF Frames, DoneFrame
    <3>2. reader' = ReportEnd(DoneSignal, "read")
      BY <1>4, <2>5 DEF Read, ReadSignal, DoneSignal
    <3>3. PipeInv'
      BY <1>1, <1>2, <1>3, <2>1, <3>1, <3>2, DoneTaken
    <3>4. \A a \in everAsked : OnWay(a)' => OnWay(a)
      BY <2>1, <2>2, <3>2
         DEF OnWay, Signalled, InReader, Written, AskSignal, AskFrame, ReportEnd, DoneSignal
    <3> QED BY <1>1, <1>2, <3>3, <3>4, OverStays, QuietAnswers, QuietLedger
            DEF AnswerInv, PipeInv, Quiet
  <2> QED BY <2>2, <2>3, <2>4, <2>5 DEF Frames
<1>5. CASE ReadEnd
  <2>1. /\ reader = Reading /\ UNCHANGED <<signals, stdout>>
        /\ reader' = ReportEnd([m |-> "lost", gen |-> generation], "stopped")
    BY <1>5 DEF ReadEnd, server
  <2>2. PipeInv'
    BY <1>1, <1>2, <1>3, <2>1, EndRead
  <2>3. \A a \in everAsked : OnWay(a)' => OnWay(a)
    BY <2>1 DEF OnWay, Signalled, InReader, Written, AskSignal, AskFrame, ReportEnd
  <2> QED BY <1>1, <1>2, <2>2, <2>3, OverStays, QuietAnswers, QuietLedger
          DEF AnswerInv, PipeInv, Quiet
<1>6. CASE PassOn
  <2>1. /\ reader.at = "send" /\ signals' = Append(signals, reader.signal)
        /\ reader' = [at |-> reader.then] /\ UNCHANGED stdout
    BY <1>6 DEF PassOn, server
  <2>2. PipeInv'
    BY <1>1, <1>2, <1>3, <2>1, SignalPassed
  <2>3. \A a \in everAsked : OnWay(a)' => OnWay(a)
    <3>1. reader.signal \in Signal /\ reader'.at # "send"
      BY <2>1 DEF TransportTypeOK, SignalType, Readers
    <3>2. \A i \in DOMAIN signals' :
             (i \in DOMAIN signals /\ signals'[i] = signals[i]) \/ signals'[i] = reader.signal
      BY <2>1, <3>1, AppendAt DEF TransportTypeOK, SignalType
    <3> QED BY <2>1, <3>1, <3>2 DEF OnWay, Signalled, InReader, Written, AskSignal, AskFrame
  <2> QED BY <1>1, <1>2, <2>2, <2>3, OverStays, QuietAnswers, QuietLedger
          DEF AnswerInv, PipeInv, Quiet
<1> QED BY <1>4, <1>5, <1>6 DEF ReaderStep

\* A write that fails tells of a lost connection and answers nothing.
LEMMA WriteFailsKeeps ==
  ASSUME TransportTypeOK, AnswerInv, WriteFails
  PROVE  AnswerInv'
<1>1. Quiet
  BY EmptyAt DEF WriteFails, Quiet, Given, ledger, history, TransportTypeOK, LedgerType
<1> DEFINE s == [m |-> "lost", gen |-> generation]
<1>2. s \in Signal /\ signals' = Append(signals, s) /\ \A a \in Ask : s # AskSignal(a)
  BY DEF Signal, AskSignal, WriteFails, TransportTypeOK, FlagType
<1>3. UNCHANGED <<up, turnIsActive, reader, stdout, turn, everAsked, shown, resolved, generation>>
  BY DEF WriteFails, server, history, ledger
<1>4. PipeInv'
  BY <1>1, <1>2, <1>3, SignalAdded DEF AnswerInv, PipeInv
<1>5. \A a \in everAsked : OnWay(a)' => OnWay(a)
  <2>1. \A i \in DOMAIN signals' :
          (i \in DOMAIN signals /\ signals'[i] = signals[i]) \/ signals'[i] = s
    BY <1>2, AppendAt DEF TransportTypeOK, SignalType
  <2> QED BY <1>3, <2>1 DEF OnWay, Signalled, InReader, Written, AskSignal, AskFrame
<1> QED BY <1>1, <1>3, <1>4, <1>5, OverStays, QuietAnswers, QuietLedger
        DEF AnswerInv, PipeInv, Quiet

\* What the server writes keeps the invariant of the answers, also when it asks again.
LEMMA ServerKeeps ==
  ASSUME TransportTypeOK, AnswerInv, ServerResponds \/ ServerAsks \/ ServerWrites
  PROVE  AnswerInv'
<1>1. Quiet
  BY DEF ServerResponds, ServerAsks, ServerWrites, Quiet, Given, wire, ledger, history,
     TransportTypeOK, LedgerType
<1>2. /\ UNCHANGED <<up, turnIsActive, reader, signals, shown, resolved, generation>>
      /\ everAsked \subseteq everAsked'
  BY DEF ServerResponds, ServerAsks, ServerWrites, ledger, history
<1>3. PipeInv /\ OneAnswer
  BY DEF AnswerInv, PipeInv
<1>4. ASSUME NEW f \in Frames, stdout' = Append(stdout, f)
      PROVE  \A i \in DOMAIN stdout' :
               (i \in DOMAIN stdout /\ stdout'[i] = stdout[i]) \/ stdout'[i] = f
  BY <1>4, AppendAt DEF TransportTypeOK, ServerType
<1>5. ASSUME NEW f \in Frames, f.m \in {"response", "nonsense"}, stdout' = Append(stdout, f),
             UNCHANGED <<turn, everAsked>>
      PROVE  AnswerInv'
  <2>1. PipeInv'
    BY <1>1, <1>2, <1>3, <1>5, FrameAdded
  <2>2. \A a \in everAsked : OnWay(a)' => OnWay(a)
    BY <1>2, <1>4, <1>5 DEF OnWay, Signalled, InReader, Written, AskSignal, AskFrame
  <2> QED BY <1>1, <1>2, <1>5, <2>1, <2>2, OverStays, QuietAnswers, QuietLedger
          DEF AnswerInv, PipeInv, Quiet
<1>6. CASE ServerResponds
  <2>1. PICK r \in inbox : Emit([m |-> "response", id |-> r])
    BY <1>6 DEF ServerResponds
  <2>2. [m |-> "response", id |-> r] \in Frames
    BY DEF Frames, TransportTypeOK, ServerType
  <2> QED BY <1>5, <1>6, <2>1, <2>2 DEF ServerResponds, Emit, history
<1>7. CASE ServerAsks
  <2>1. PICK k \in Keys, b \in Ask :
          /\ b.gen = generation /\ b.key = k
          /\ b \notin everAsked \/ (turn /\ heard[b] = {})
          /\ stdout' = Append(stdout, [m |-> "ask", key |-> k])
          /\ everAsked' = everAsked \union {b} /\ UNCHANGED turn
    <3>1. \A k \in Keys : [gen |-> generation, key |-> k] \in Ask
      BY DEF Ask, TransportTypeOK, FlagType
    <3> QED BY <1>7, <3>1 DEF ServerAsks, Emit
  <2>2. PipeInv'
    BY <1>1, <1>2, <1>3, <2>1, AskWritten
  <2>3. \A a \in everAsked : a.gen = generation /\ OnWay(a)' => OnWay(a) \/ turn
    <3> SUFFICES ASSUME NEW a \in everAsked, a.gen = generation, Written(a)', ~Written(a),
                        b \notin everAsked
                 PROVE  FALSE
      BY <1>2, <2>1 DEF OnWay, Signalled, InReader, AskSignal
    <3>1. AskFrame(a) = [m |-> "ask", key |-> k]
      <4>1. [m |-> "ask", key |-> k] \in Frames
        BY DEF Frames
      <4> QED BY <1>4, <2>1, <4>1 DEF Written, AskFrame
    <3>2. a.key = b.key /\ a \in Ask
      BY <2>1, <3>1 DEF AskFrame, TransportTypeOK, ServerType
    <3>3. a = b
      <4>1. a = [gen |-> a.gen, key |-> a.key] /\ b = [gen |-> b.gen, key |-> b.key]
        BY <3>2 DEF Ask
      <4> QED BY <2>1, <3>2, <4>1
    <3> QED BY <3>3
  <2> QED BY <1>1, <1>2, <2>1, <2>2, <2>3, OverStays, QuietAnswers, QuietLedger
          DEF AnswerInv, PipeInv, Quiet
<1>8. CASE ServerWrites
  <2>1. CASE Emit([m |-> "nonsense"]) /\ UNCHANGED turn
    <3>1. [m |-> "nonsense"] \in Frames
      BY DEF Frames
    <3> QED BY <1>5, <1>8, <2>1, <3>1 DEF ServerWrites, Emit, history
  <2>2. CASE turn /\ Emit([m |-> "done"]) /\ turn' = FALSE
    <3>1. stdout' = Append(stdout, DoneFrame) /\ DoneFrame \in Frames /\ UNCHANGED everAsked
      BY <1>8, <2>2 DEF ServerWrites, Emit, DoneFrame, Frames, history
    <3>2. PipeInv'
      BY <1>1, <1>2, <1>3, <2>2, <3>1, DoneWritten
    <3>3. \A a \in everAsked : OnWay(a)' => OnWay(a)
      BY <1>2, <1>4, <3>1
         DEF OnWay, Signalled, InReader, Written, AskSignal, AskFrame, DoneFrame
    <3> QED BY <1>1, <1>2, <2>2, <3>1, <3>2, <3>3, OverStays, QuietAnswers, QuietLedger
            DEF AnswerInv, PipeInv, Quiet
  <2> QED BY <1>8, <2>1, <2>2 DEF ServerWrites
<1> QED BY <1>6, <1>7, <1>8

\* With the next connection, all that was asked before is over.
LEMMA ReconnectKeeps ==
  ASSUME TransportTypeOK, AnswerInv, Reconnect
  PROVE  AnswerInv'
<1>1. PipeInv'
  BY PipeReconnect DEF AnswerInv, PipeInv
<1>2. UNCHANGED <<shown, resolved, everAsked, reply, loop, heard>> /\ DOMAIN queue' = {}
  BY EmptyAt DEF Reconnect, ledger, history
<1>3. \A a \in Ask, w \in Withs : Given(a, w)' => Given(a, w)
  BY <1>2 DEF Given
<1>4. \A a \in everAsked : IsOver(a)'
  BY <1>2 DEF AnswerInv, AskedBefore, Reconnect, IsOver, TransportTypeOK, FlagType, ServerType,
     Ask, Generations
<1> QED BY <1>1, <1>2, <1>3, <1>4, QuietAnswers, QuietLedger DEF AnswerInv, PipeInv,
        TransportTypeOK, LedgerType

\* What is shown has no answer, and none that is to come can be a refusal.
LEMMA ShownIsOpen ==
  ASSUME TransportTypeOK, CardsAreLive, AnswerInv, NEW a \in shown
  PROVE  ~IsRefused(a) /\ ~IsKept(a) /\ \A w \in Withs : ~Given(a, w)
<1>1. a \in Ask /\ a.gen = generation /\ generation \in Nat /\ up /\ turnIsActive
  BY DEF TransportTypeOK, LedgerType, FlagType, CardsAreLive, Generations
<1>2. a.key \notin Malformed /\ ~IsKnown(a.key)
  BY DEF AnswerInv, LedgerIsSound
<1>3. ~IsOver(a)
  BY <1>1 DEF IsOver
<1>4. ~IsKept(a)
  BY <1>2 DEF IsKnown, IsKept
<1> QED BY <1>1, <1>2, <1>3, <1>4 DEF AnswerInv, OneAnswer, IsRefused, IsKept

\* The answers to what is due are recorded, and given.
LEMMA ResolveKeeps ==
  ASSUME Cardinality(Keys) <= Window, TransportTypeOK, CardsAreLive, AnswerInv,
         NEW due \in SUBSET shown, NEW A \in SUBSET Answers, IsFiniteSet(A), Record(A),
         \A t \in A : t.ask \in due, \A a \in due : \E t \in A : t.ask = a,
         \A s, t \in A : s.ask = t.ask => s = t,
         shown' = shown \ due, UNCHANGED pipe, UNCHANGED generation,
         \A a \in Ask, w \in Withs :
           Given(a, w)' => Given(a, w) \/ \E t \in A : t.ask = a /\ t.with = w
  PROVE  AnswerInv'
<1>1. \A a, b \in shown : a.key = b.key => a = b
  <2> SUFFICES ASSUME NEW a \in shown, NEW b \in shown, a.key = b.key PROVE a = b
    OBVIOUS
  <2>1. a \in Ask /\ b \in Ask /\ a.gen = b.gen
    BY DEF TransportTypeOK, LedgerType, CardsAreLive
  <2>2. a = [gen |-> a.gen, key |-> a.key] /\ b = [gen |-> b.gen, key |-> b.key]
    BY <2>1 DEF Ask
  <2> QED BY <2>1, <2>2
<1>2. /\ \A i \in DOMAIN resolved : i \in DOMAIN resolved' /\ resolved'[i] = resolved[i]
      /\ \A i \in DOMAIN resolved' :
           \/ i \in DOMAIN resolved
           \/ \E t \in A : resolved'[i] = [ask |-> t.ask, with |-> t.with]
      /\ \A t \in A : \E i \in DOMAIN resolved' :
           resolved'[i] = [ask |-> t.ask, with |-> t.with]
      /\ \A i, j \in DOMAIN resolved' :
           resolved'[i].ask.key = resolved'[j].ask.key => i = j
  <2>1. \A i, j \in DOMAIN resolved : resolved[i].ask.key = resolved[j].ask.key => i = j
    BY DEF AnswerInv, LedgerIsSound
  <2>2. \A s, t \in A : s.ask.key = t.ask.key => s = t
    BY <1>1
  <2>3. \A t \in A : ~IsKnown(t.ask.key)
    BY DEF AnswerInv, LedgerIsSound
  <2>4. resolved \in Seq(Resolutions)
    BY DEF TransportTypeOK, LedgerType
  <2> QED BY <2>1, <2>2, <2>3, <2>4, RecordEffect
<1>3. \A a \in Ask : IsKept(a)' => IsKept(a) \/ a \in due
  BY <1>2 DEF IsKept
<1>4. \A a \in Ask : IsKept(a) => IsKept(a)'
  BY <1>2 DEF IsKept
<1>5. \A k \in Keys : IsKnown(k) => IsKnown(k)'
  BY <1>2 DEF IsKnown
<1>6. \A k \in Keys : IsKnown(k)' => IsKnown(k) \/ \E a \in due : a.key = k
  BY <1>2 DEF IsKnown
<1>7. PipeInv'
  <2>1. \A a \in Ask : Untouched(a) => Untouched(a)'
    BY <1>3 DEF Untouched
  <2>2. \A a \in Ask : IsKept(a)' => a \in everAsked
    BY <1>3 DEF AnswerInv, AskedBefore
  <2> QED BY <2>1, <2>2, HandledPipe DEF AnswerInv, PipeInv, AskedBefore
<1>8. LedgerIsSound'
  <2>1. \A i \in DOMAIN resolved' : resolved'[i].ask.key \notin Malformed
    <3> SUFFICES ASSUME NEW i \in DOMAIN resolved' PROVE resolved'[i].ask.key \notin Malformed
      OBVIOUS
    <3>1. CASE i \in DOMAIN resolved
      BY <1>2, <3>1 DEF AnswerInv, LedgerIsSound
    <3>2. ASSUME NEW t \in A, resolved'[i] = [ask |-> t.ask, with |-> t.with]
          PROVE  resolved'[i].ask.key \notin Malformed
      BY <3>2 DEF AnswerInv, LedgerIsSound
    <3> QED BY <1>2, <3>1, <3>2
  <2>2. ASSUME NEW a \in shown'
        PROVE  a.key \notin Malformed /\ ~IsKnown(a.key)'
    <3>1. a \in shown /\ a \notin due /\ a.key \in Keys
      BY DEF TransportTypeOK, LedgerType, Ask
    <3> QED BY <1>1, <1>6, <3>1 DEF AnswerInv, LedgerIsSound
  <2>3. \A a \in shown' : a.key \notin Malformed /\ ~IsKnown(a.key)'
    BY <2>2
  <2> QED BY <1>2, <2>1, <2>3 DEF LedgerIsSound, IsKnown
<1>9. OneAnswer'
  <2> SUFFICES ASSUME NEW a \in Ask, NEW w \in Withs, Given(a, w)'
               PROVE  /\ a \in everAsked
                      /\ \/ \E i \in DOMAIN resolved' :
                              resolved'[i].ask = a /\ resolved'[i].with = w
                         \/ w = "refused" /\ IsRefused(a)'
    BY DEF OneAnswer, pipe
  <2>1. CASE \E t \in A : t.ask = a /\ t.with = w
    BY <1>2, <2>1 DEF AnswerInv, AskedBefore
  <2>2. CASE Given(a, w)
    <3>1. /\ a \in everAsked /\ a.key \in Keys
          /\ \/ \E i \in DOMAIN resolved : resolved[i].ask = a /\ resolved[i].with = w
             \/ w = "refused" /\ IsRefused(a)
      BY <2>2 DEF AnswerInv, OneAnswer, Ask
    <3>2. a \notin due
      BY <2>2, ShownIsOpen
    <3>3. IsRefused(a) => IsRefused(a)'
      BY <1>3, <1>5, <3>1, <3>2, QuietOver DEF IsRefused, AnswerInv
    <3> QED BY <1>2, <3>1, <3>3
  <2> QED BY <2>1, <2>2
<1> QED BY <1>7, <1>8, <1>9 DEF AnswerInv, PipeInv

\* Answers of the user, and expiries, are given to what is shown.
LEMMA DueKeeps ==
  ASSUME Cardinality(Keys) <= Window, TransportTypeOK, CardsAreLive, AnswerInv,
         \/ \E a \in shown, d \in Decisions : RespondPending(a, d)
         \/ \E due \in SUBSET shown : ExpireAsks(due)
  PROVE  AnswerInv'
<1>1. ASSUME NEW b \in shown, NEW d \in Decisions, RespondPending(b, d)
      PROVE  AnswerInv'
  <2> DEFINE A == {Answer(b, d, d = "cancel")}
  <2>1. /\ A \in SUBSET Answers /\ IsFiniteSet(A)
        /\ A # {} /\ \A t \in A : t.ask = b /\ t.with = d
    <3>1. b \in Ask /\ d \in Withs
      BY DEF TransportTypeOK, LedgerType, Decisions, Withs
    <3>2. Answer(b, d, d = "cancel") \in Answers
      BY <3>1, AnswerIsTyped
    <3>3. IsFiniteSet(A)
      BY FS_Singleton
    <3> QED BY <3>2, <3>3 DEF Answer
  <2>2. \A a \in Ask, w \in Withs :
          Given(a, w)' => Given(a, w) \/ \E t \in A : t.ask = a /\ t.with = w
    BY <1>1 DEF RespondPending, Given, wire, history
  <2>3. Record(A) /\ shown' = shown \ {b} /\ UNCHANGED pipe /\ UNCHANGED generation
    BY <1>1 DEF RespondPending, pipe, server, history
  <2>4. \A s, t \in A : s.ask = t.ask => s = t
    OBVIOUS
  <2> HIDE DEF A
  <2>5. PICK due \in SUBSET shown : due = {b}
    OBVIOUS
  <2>6. (\A t \in A : t.ask \in due) /\ \A a \in due : \E t \in A : t.ask = a
    BY <2>1, <2>5
  <2>7. shown' = shown \ due
    BY <2>3, <2>5
  <2> QED BY <2>1, <2>2, <2>3, <2>4, <2>6, <2>7, ResolveKeeps
<1>2. ASSUME NEW due \in SUBSET shown, ExpireAsks(due)
      PROVE  AnswerInv'
  <2> DEFINE A == {Answer(a, "expired", TRUE) : a \in due}
  <2>1. A \in SUBSET Answers /\ IsFiniteSet(A)
    BY ExpiredAreTyped DEF TransportTypeOK
  <2>2. \A t \in A : t.ask \in due /\ t = Answer(t.ask, "expired", TRUE)
    BY DEF Answer
  <2>3. \A a \in due : \E t \in A : t.ask = a
    <3> SUFFICES ASSUME NEW a \in due PROVE Answer(a, "expired", TRUE).ask = a
      OBVIOUS
    <3> QED BY DEF Answer
  <2>4. /\ Record(A) /\ shown' = shown \ due /\ UNCHANGED pipe /\ UNCHANGED generation
        /\ loop' = [loop EXCEPT !.todo = A] /\ UNCHANGED <<heard, queue, reply>>
    BY <1>2 DEF ExpireAsks, pipe, wire, server, history
  <2> HIDE DEF A
  <2>5. \A a \in Ask, w \in Withs :
          Given(a, w)' => Given(a, w) \/ \E t \in A : t.ask = a /\ t.with = w
    BY <2>4 DEF Given, TransportTypeOK, LoopType
  <2>6. \A s, t \in A : s.ask = t.ask => s = t
    BY <2>2
  <2> QED BY <2>1, <2>2, <2>3, <2>4, <2>5, <2>6, ResolveKeeps
<1> QED BY <1>1, <1>2

\* The loop takes a request: it is shown, refused or answered again, or of no connection.
LEMMA AskKeeps ==
  ASSUME TransportTypeOK, CardsAreLive, AnswerInv, HandleAsk
  PROVE  AnswerInv'
<1>1. /\ signals # <<>> /\ signals' = Tail(signals) /\ Head(signals).m = "ask" /\ loop = IdleLoop
      /\ UNCHANGED <<generation, up, turnIsActive, resolved, reader, stdout, turn, everAsked,
                     heard, queue, reply>>
  BY DEF HandleAsk, Taken, wire, server, history
<1>2. /\ Head(signals) \in Signal /\ 1 \in DOMAIN signals /\ Head(signals) = signals[1]
      /\ \A i \in DOMAIN signals' : i \in Nat \ {0} /\ i + 1 \in DOMAIN signals
                                    /\ signals'[i] = signals[i + 1]
  BY <1>1, TailAt DEF TransportTypeOK, SignalType
<1>3. PICK b \in Ask : Head(signals) = AskSignal(b)
  <2>1. Head(signals).gen \in Generations /\ Head(signals).key \in Keys
        /\ Head(signals) = [m |-> "ask", gen |-> Head(signals).gen, key |-> Head(signals).key]
    BY <1>1, <1>2 DEF Signal
  <2>2. [gen |-> Head(signals).gen, key |-> Head(signals).key] \in Ask
    BY <2>1 DEF Ask
  <2> QED BY <2>1, <2>2 DEF AskSignal
<1>4. Head(signals).gen = b.gen /\ Head(signals).key = b.key /\ b.key \in Keys
  BY <1>3 DEF AskSignal, Ask
<1>5. IsInstalled => up /\ b.gen = generation /\ b = [gen |-> generation, key |-> Head(signals).key]
  <2>1. b = [gen |-> b.gen, key |-> b.key]
    BY DEF Ask
  <2> QED BY <1>4, <2>1 DEF IsInstalled
<1>6. b \in everAsked
  BY <1>2, <1>3 DEF AnswerInv, AskedBefore, Signalled
\* The answer that is now to be sent.
<1> DEFINE Told(w) == \/ \E i \in DOMAIN resolved : resolved[i].ask = b /\ resolved[i].with = w
                      \/ w = "refused" /\ IsRefused(b)'
<1>7. /\ \A t \in loop'.todo : t.ask = b /\ Told(t.with)
      /\ shown' = shown \/ (/\ shown' = shown \union {b} /\ IsInstalled
                            /\ b.key \notin Malformed /\ ~IsKnown(b.key))
  <2>1. CASE UNCHANGED <<loop, shown>>
    BY <1>1, <2>1 DEF IdleLoop
  <2>2. CASE /\ IsInstalled /\ ~turnIsActive /\ UNCHANGED shown
             /\ loop' = [loop EXCEPT !.todo = {Answer(b, "refused", FALSE)}]
    <3>1. up /\ DoneBeforeSignal(1) /\ b.gen = generation
      BY <1>5, <2>2 DEF DoneBeforeSignal
    <3>2. /\ ~IsKept(b) /\ ~InReader(AskSignal(b)) /\ ~Written(b)
          /\ \A j \in DOMAIN signals : signals[j] = AskSignal(b) => j = 1
      BY <1>2, <1>3, <3>1 DEF AnswerInv, LateAsks, LateSignals, Untouched
    <3>3. ~Signalled(b)'
      <4> SUFFICES ASSUME NEW i \in DOMAIN signals', signals'[i] = AskSignal(b) PROVE FALSE
        BY DEF Signalled, AskSignal
      <4> QED BY <1>2, <3>2
    <3>4. ~turn
      BY <2>2, <3>1 DEF AnswerInv, TurnIsOn, DoneInSignals
    <3>5. IsRefused(b)'
      BY <1>1, <2>2, <3>2, <3>3, <3>4
         DEF IsRefused, IsOver, IsKept, InReader, Written, AskSignal, AskFrame
    <3>6. loop'.todo = {Answer(b, "refused", FALSE)}
      BY <2>2 DEF TransportTypeOK, LoopType
    <3> QED BY <2>2, <3>5, <3>6 DEF Answer
  <2>3. CASE IsInstalled /\ turnIsActive /\ RegisterAsk(b)
    <3> DEFINE known == Resolved(b.key)
    <3>1. ASSUME NEW i \in known, resolved[i].ask = b,
                 loop' = [loop EXCEPT !.todo = {Answer(b, resolved[i].with, FALSE)}]
          PROVE  \A t \in loop'.todo : t.ask = b /\ Told(t.with)
      <4>1. loop'.todo = {Answer(b, resolved[i].with, FALSE)} /\ i \in DOMAIN resolved
        BY <3>1 DEF TransportTypeOK, LoopType, Resolved
      <4> QED BY <3>1, <4>1 DEF Answer
    <3>2. CASE /\ \/ \E i \in known : resolved[i].ask # b
                  \/ known = {} /\ b.key \in Malformed
               /\ loop' = [loop EXCEPT !.todo = {Answer(b, "refused", TRUE)}]
               /\ UNCHANGED shown
      <4>1. loop'.todo = {Answer(b, "refused", TRUE)}
        BY <3>2 DEF TransportTypeOK, LoopType
      <4>2. ~IsKept(b) /\ (b.key \in Malformed \/ IsKnown(b.key))
        BY <3>2 DEF Resolved, IsKept, IsKnown, AnswerInv, LedgerIsSound
      <4>3. IsRefused(b)'
        BY <1>1, <4>2 DEF IsRefused, IsKept, IsKnown
      <4> QED BY <3>2, <4>1, <4>3 DEF Answer
    <3>3. CASE /\ known = {} /\ b.key \notin Malformed
               /\ shown' = shown \union {b} /\ UNCHANGED loop
      BY <1>1, <2>3, <3>3 DEF Resolved, IsKnown, IdleLoop
    <3> HIDE DEF known, Told
    <3>4. \/ \E i \in known : resolved[i].ask = b
                /\ loop' = [loop EXCEPT !.todo = {Answer(b, resolved[i].with, FALSE)}]
                /\ UNCHANGED shown
          \/ /\ \/ \E i \in known : resolved[i].ask # b
                \/ known = {} /\ b.key \in Malformed
             /\ loop' = [loop EXCEPT !.todo = {Answer(b, "refused", TRUE)}]
             /\ UNCHANGED shown
          \/ /\ known = {} /\ b.key \notin Malformed
             /\ shown' = shown \union {b} /\ UNCHANGED loop
      BY <2>3 DEF RegisterAsk, known
    <3> QED BY <3>1, <3>2, <3>3, <3>4
  <2> QED BY <1>5, <2>1, <2>2, <2>3 DEF HandleAsk
<1>8. \A a \in Ask, w \in Withs : Given(a, w)' => Given(a, w) \/ (a = b /\ Told(w))
  BY <1>1, <1>7 DEF Given
<1> HIDE DEF Told
<1>9. PipeInv'
  <2>1. \A a \in Ask : Untouched(a) /\ Head(signals) # AskSignal(a) => Untouched(a)'
    BY <1>1, <1>3, <1>7, <1>8 DEF Untouched, IsKept
  <2>2. shown' \subseteq everAsked
    BY <1>6, <1>7 DEF AnswerInv, AskedBefore
  <2>3. Head(signals) # DoneSignal
    BY <1>1 DEF DoneSignal
  <2> QED BY <1>1, <2>1, <2>2, <2>3, SignalTaken DEF AnswerInv, PipeInv
<1>10. LedgerIsSound'
  BY <1>1, <1>7 DEF AnswerInv, LedgerIsSound, IsKnown
<1>11. \A a \in everAsked : IsOver(a) => IsOver(a)'
  <2>1. \A a \in everAsked : OnWay(a)' => OnWay(a)
    BY <1>1, <1>2 DEF OnWay, Signalled, InReader, Written, AskSignal, AskFrame
  <2> QED BY <1>1, <2>1, OverStays DEF AnswerInv
<1>12. OneAnswer'
  <2> SUFFICES ASSUME NEW a \in Ask, NEW w \in Withs, Given(a, w)'
               PROVE  /\ a \in everAsked
                      /\ \/ \E i \in DOMAIN resolved : resolved[i].ask = a /\ resolved[i].with = w
                         \/ w = "refused" /\ IsRefused(a)'
    BY <1>1 DEF OneAnswer
  <2>1. CASE a = b /\ Told(w)
    BY <1>6, <2>1 DEF Told
  <2>2. CASE Given(a, w)
    <3>1. /\ a \in everAsked
          /\ \/ \E i \in DOMAIN resolved : resolved[i].ask = a /\ resolved[i].with = w
             \/ w = "refused" /\ IsRefused(a)
      BY <2>2 DEF AnswerInv, OneAnswer
    <3>2. IsRefused(a) => IsRefused(a)'
      BY <1>1, <1>11, <3>1 DEF IsRefused, IsKept, IsKnown
    <3> QED BY <3>1, <3>2
  <2> QED BY <1>8, <2>1, <2>2
<1> QED BY <1>9, <1>10, <1>12 DEF AnswerInv, PipeInv

\* The loop takes the end of the turn or of the connection.
LEMMA EndKeeps ==
  ASSUME TransportTypeOK, AnswerInv, HandleDone \/ HandleEnd
  PROVE  AnswerInv'
<1>1. /\ signals # <<>> /\ signals' = Tail(signals) /\ Head(signals).m # "ask"
      /\ shown' \in SUBSET shown
      /\ UNCHANGED <<generation, resolved, reader, stdout, turn, everAsked, heard, queue, reply>>
  BY DEF HandleDone, HandleEnd, Taken, wire, server, history, TransportTypeOK, LedgerType
<1>2. /\ Head(signals) \in Signal
      /\ \A i \in DOMAIN signals' : i + 1 \in DOMAIN signals /\ signals'[i] = signals[i + 1]
  BY <1>1, TailAt DEF TransportTypeOK, SignalType
<1>3. /\ up' => up
      /\ up' => (turnIsActive' <=> turnIsActive /\ Head(signals) # DoneSignal)
      /\ turnIsActive' => turnIsActive
  <2>1. CASE HandleDone
    <3>1. Head(signals) = [m |-> "done", gen |-> Head(signals).gen]
      BY <1>2, <2>1 DEF HandleDone, Taken, Signal
    <3>2. up => (IsInstalled <=> Head(signals) = DoneSignal)
      BY <3>1 DEF IsInstalled, DoneSignal
    <3> QED BY <2>1, <3>2 DEF HandleDone, TransportTypeOK, FlagType
  <2>2. CASE HandleEnd
    <3>1. Head(signals) # DoneSignal
      BY <2>2 DEF HandleEnd, Taken, DoneSignal
    <3> QED BY <2>2, <3>1 DEF HandleEnd, TransportTypeOK, FlagType
  <2> QED BY <2>1, <2>2
<1>4. loop'.todo = loop.todo
  BY DEF HandleDone, HandleEnd, TransportTypeOK, LoopType
<1>5. \A a \in Ask, w \in Withs : Given(a, w)' => Given(a, w)
  BY <1>1, <1>4 DEF Given
<1>6. PipeInv'
  <2>1. \A a \in Ask : Untouched(a) => Untouched(a)'
    BY <1>1, <1>5 DEF Untouched, IsKept
  <2>2. shown' \subseteq everAsked
    BY <1>1 DEF AnswerInv, AskedBefore
  <2> QED BY <1>1, <1>3, <2>1, <2>2, SignalTaken DEF AnswerInv, PipeInv
<1>7. \A a \in everAsked : OnWay(a)' => OnWay(a)
  BY <1>1, <1>2 DEF OnWay, Signalled, InReader, Written, AskSignal, AskFrame
<1>8. \A a \in everAsked : IsOver(a) => IsOver(a)'
  BY <1>1, <1>3, <1>7, OverStays DEF AnswerInv
<1> QED BY <1>1, <1>5, <1>6, <1>8, QuietAnswers, QuietLedger DEF AnswerInv, PipeInv

-----------------------------------------------------------------------------
(* The promise of Asks.                                                    *)

\* Before the first connection nothing was asked.
LEMMA AskInit == TransportInit => AskInv
<1> SUFFICES ASSUME TransportInit PROVE AskInv
  OBVIOUS
<1>1. /\ DOMAIN queue = {} /\ DOMAIN signals = {} /\ DOMAIN resolved = {} /\ DOMAIN stdout = {}
      /\ reader.at = "read" /\ loop.todo = {} /\ reply = {} /\ shown = {} /\ everAsked = {}
      /\ turnIsActive
  BY EmptyAt DEF TransportInit, IdleLoop, Reading
<1>2. \A a \in Ask, w \in Withs : ~Given(a, w)
  BY <1>1 DEF TransportInit, Given
<1>3. LateAsks /\ TurnIsOn
  BY <1>1 DEF LateAsks, LateSignals, LateReader, LateFrames, TurnIsOn, DoneInSignals, InReader
<1>4. AskedBefore /\ LedgerIsSound
  BY <1>1 DEF AskedBefore, LedgerIsSound, Signalled, InReader, Written, IsKept, IsKnown
<1> QED BY <1>1, <1>2, <1>3, <1>4, TypeInit DEF AskInv, AnswerInv, OneAnswer, CardsAreLive

\* Every step keeps the invariant of the requests.
LEMMA AskStep ==
  ASSUME Cardinality(Keys) <= Window, AskInv, [TransportNext]_transportVars
  PROVE  AskInv'
<1> USE DEF AskInv
<1>1. TransportTypeOK' /\ CardsAreLive'
  BY TypeStep, CardsStep
<1>2. AnswerInv'
  <2>1. CASE Call \/ \E r \in RpcRequests : CallerStep(r)
    <3>1. 1 \in RpcRequests
      BY TransportAssumption DEF RpcRequests
    <3> QED BY <2>1, <3>1, CallerIsQuiet, QuietStep
  <2>2. CASE Write
    BY <2>2, WriteIsQuiet, QuietStep
  <2>3. CASE (\E p \in reply : SendReply(p)) \/ \E t \in loop.todo : LoopSend(t)
    BY <2>3, SendIsQuiet, QuietStep
  <2>4. CASE \/ Stop \/ LoopResume \/ ServerDies \/ UNCHANGED transportVars
             \/ \E g \in Generations : OldEnds(g)
    BY <2>4, OthersAreQuiet, QuietStep
  <2>5. CASE WriteFails \/ ReaderStep
    BY <2>5, WriteFailsKeeps, ReaderKeeps
  <2>6. CASE ServerResponds \/ ServerAsks \/ ServerWrites \/ Reconnect
    BY <2>6, ServerKeeps, ReconnectKeeps
  <2>7. CASE \/ \E a \in shown, d \in Decisions : RespondPending(a, d)
             \/ \E due \in SUBSET shown : ExpireAsks(due)
    BY <2>7, DueKeeps
  <2>8. CASE LoopTakes
    BY <2>8, AskKeeps, EndKeeps DEF LoopTakes
  <2> QED BY <2>1, <2>2, <2>3, <2>4, <2>5, <2>6, <2>7, <2>8
          DEF TransportNext, LoopWorks, UserStep, ServerStep
<1> QED BY <1>1, <1>2

\* Two answers to one request are the same.
LEMMA SameAnswer ==
  ASSUME AnswerInv, NEW a \in Ask, NEW v \in Withs, NEW w \in Withs, Given(a, v), Given(a, w)
  PROVE  v = w
<1>1. \A x \in Withs : Given(a, x) =>
        \/ \E i \in DOMAIN resolved : resolved[i].ask = a /\ resolved[i].with = x
        \/ x = "refused" /\ ~IsKept(a)
  BY DEF AnswerInv, OneAnswer, IsRefused
<1>2. \A i, j \in DOMAIN resolved : resolved[i].ask = a /\ resolved[j].ask = a => i = j
  BY DEF AnswerInv, LedgerIsSound
<1> QED BY <1>1, <1>2 DEF IsKept

\* What the writer sends is a step of the promise: one request is told its answer, or none.
LEMMA WriteTells ==
  ASSUME AskInv, Write
  PROVE  [KeepsAsks!Next]_<<shown, heard>>
<1> USE DEF AskInv
<1>1. UNCHANGED shown
  BY DEF Write, ledger
<1>2. CASE UNCHANGED heard
  BY <1>1, <1>2
<1>3. ASSUME heard' # heard
      PROVE  \E a \in Ask : KeepsAsks!Tell(a)
  <2>1. Head(queue) \in Messages /\ 1 \in DOMAIN queue /\ Head(queue) = queue[1]
    BY TailAt DEF Write, TransportTypeOK, WireType
  <2>2. PICK a \in Ask, w \in Withs :
          /\ Head(queue) = [m |-> "answer", ask |-> a, with |-> w]
          /\ heard' = [heard EXCEPT ![a] = @ \union {w}]
    <3>1. /\ Head(queue).m = "answer"
          /\ heard' = [heard EXCEPT ![Head(queue).ask] = @ \union {Head(queue).with}]
      BY <1>3 DEF Write
    <3> QED BY <2>1, <3>1 DEF Messages
  <2>3. Given(a, w)
    BY <2>1, <2>2 DEF Given
  <2>4. a \notin shown
    BY <2>3, ShownIsOpen
  <2>5. heard[a] \subseteq {w}
    <3> SUFFICES ASSUME NEW v \in heard[a] PROVE v = w
      OBVIOUS
    <3>1. v \in Withs /\ Given(a, v)
      BY DEF TransportTypeOK, ServerType, Given
    <3> QED BY <2>3, <3>1, SameAnswer
  <2>6. heard[a] = {} /\ heard' = [heard EXCEPT ![a] = {w}]
    <3>1. heard \in [Ask -> SUBSET Withs]
      BY DEF TransportTypeOK, ServerType
    <3>2. heard[a] # {w}
      BY <1>3, <2>2, <3>1
    <3> QED BY <2>2, <2>5, <3>2
  <2>7. KeepsAsks!Tell(a)
    BY <1>1, <2>4, <2>6 DEF KeepsAsks!Tell, Withs
  <2> QED BY <2>7
<1> QED BY <1>2, <1>3 DEF KeepsAsks!Next

\* What the loop does with a request is a step of the promise: it opens a card, or nothing.
LEMMA AskOpens ==
  ASSUME AskInv, HandleAsk
  PROVE  [KeepsAsks!Next]_<<shown, heard>>
<1> USE DEF AskInv
<1>1. UNCHANGED heard
  BY DEF HandleAsk, history
<1>2. CASE UNCHANGED shown
  BY <1>1, <1>2
<1> DEFINE b == [gen |-> generation, key |-> Head(signals).key]
<1>3. ASSUME UNCHANGED heard, IsInstalled, turnIsActive, shown' = shown \union {b}, shown' # shown,
             Resolved(b.key) = {}, b.key \notin Malformed
      PROVE  [KeepsAsks!Next]_<<shown, heard>>
  <2>1. Head(signals) \in Signal /\ Head(signals).m = "ask"
    BY TailAt DEF HandleAsk, Taken, TransportTypeOK, SignalType
  <2>2. PICK a \in Ask : a = b
    BY <2>1 DEF Signal, Ask, TransportTypeOK, FlagType
  <2>3. a.gen = generation /\ generation \in Nat /\ up
    BY <1>3, <2>2 DEF IsInstalled, TransportTypeOK, FlagType, Generations
  <2>4. ~IsRefused(a) /\ ~IsKept(a)
    BY <1>3, <2>2, <2>3 DEF IsRefused, IsOver, IsKnown, IsKept, Resolved
  <2>5. \A w \in Withs : ~Given(a, w)
    BY <2>4 DEF AnswerInv, OneAnswer, IsKept
  <2>6. heard[a] = {}
    BY <2>5 DEF Given, TransportTypeOK, ServerType
  <2>7. KeepsAsks!Open(a)
    BY <1>3, <2>2, <2>6 DEF KeepsAsks!Open
  <2> QED BY <2>7 DEF KeepsAsks!Next
<1> HIDE DEF b
<1> QED BY <1>1, <1>2, <1>3 DEF HandleAsk, RegisterAsk, b

\* Every step is a step of Asks or changes nothing there.
LEMMA AskRefines ==
  ASSUME AskInv, [TransportNext]_transportVars
  PROVE  [KeepsAsks!Next]_<<shown, heard>>
<1>1. CASE shown' \in SUBSET shown /\ UNCHANGED heard
  BY <1>1 DEF KeepsAsks!Next, KeepsAsks!Withdraw
<1>2. CASE UNCHANGED <<shown, heard>>
  BY <1>2
<1>3. CASE Call \/ \E r \in RpcRequests : CallerStep(r)
  BY <1>2, <1>3 DEF Call, CallerStep, QueueRequest, Receive, TimeOut, ledger, history
<1>4. CASE WriteFails \/ ReaderStep \/ \E g \in Generations : OldEnds(g)
  BY <1>2, <1>4 DEF WriteFails, ReaderStep, Read, ReadEnd, PassOn, OldEnds, ledger, history
<1>5. CASE LoopWorks \/ Reconnect \/ ServerStep \/ UNCHANGED transportVars
  BY <1>2, <1>5 DEF LoopWorks, Stop, LoopResume, LoopSend, Reconnect, ServerStep, ServerResponds,
     ServerAsks, ServerWrites, ServerDies, transportVars, ledger, history
<1>6. CASE UserStep \/ \E due \in SUBSET shown : ExpireAsks(due)
  BY <1>1, <1>6 DEF UserStep, RespondPending, SendReply, ExpireAsks, ledger, history
<1>7. CASE HandleDone \/ HandleEnd
  <2>1. shown' \in SUBSET shown /\ UNCHANGED heard
    BY <1>7 DEF HandleDone, HandleEnd, history
  <2> QED BY <1>1, <2>1
<1> QED BY <1>3, <1>4, <1>5, <1>6, <1>7, WriteTells, AskOpens DEF TransportNext, LoopTakes

\* The client keeps the promise of Asks, with every number of connections, requests and limits of
\* its queues: a card is open only for a request that has no answer yet, and one answer is told.
\* A resolution has to be kept as long as its request can come again, which the window grants
\* when it has room for the ids that the servers use.
THEOREM ImplementsAsksHolds ==
  ASSUME Cardinality(Keys) <= Window
  PROVE  TransportSpec => ImplementsAsks
<1>1. TransportInit => AskInv /\ KeepsAsks!Init
  BY AskInit DEF TransportInit, KeepsAsks!Init
<1>2. AskInv /\ [TransportNext]_transportVars => AskInv'
  BY AskStep
<1>3. AskInv /\ [TransportNext]_transportVars => [KeepsAsks!Next]_<<shown, heard>>
  BY AskRefines
<1> QED BY <1>1, <1>2, <1>3, PTL DEF TransportSpec, ImplementsAsks, KeepsAsks!Spec
=============================================================================
