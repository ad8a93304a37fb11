----------------------- MODULE CodexConnectionProofs -----------------------
(* Proofs about CodexConnection, for every bound.                          *)
EXTENDS CodexConnection, TLAPS

USE CodexConnectionAssumption
USE DEF conn, process, restarts, shutdown, counts, Processes, Generations

-----------------------------------------------------------------------------
(* Types of the parts.                                                     *)

\* generation and runtime keep their types when they keep their values.
LEMMA ConnKept == ConnType /\ UNCHANGED <<generation, runtime>> => ConnType'
BY DEF ConnType

\* Taking the runtime out, or installing a process, keeps the types.
LEMMA ConnWith ==
  ASSUME ConnType, generation' = generation, runtime' \in Generations
  PROVE  ConnType'
BY DEF ConnType

\* The flags keep their types when they keep their values.
LEMMA FlagKept == FlagType /\ UNCHANGED <<ready, stopping, wanted>> => FlagType'
BY Zenon DEF FlagType

\* Setting a flag to a Boolean keeps the types.
LEMMA FlagSet ==
  ASSUME FlagType, ready' \in {ready, TRUE, FALSE}, stopping' \in {stopping, TRUE},
         wanted' \in {wanted, FALSE}
  PROVE  FlagType'
BY Zenon DEF FlagType

\* The processes keep their types when they keep their values.
LEMMA ProcessKept == ProcessType /\ UNCHANGED process => ProcessType'
BY DEF ProcessType, Signal

\* The restarts keep their types when they keep their values.
LEMMA RestartKept == RestartType /\ UNCHANGED restarts => RestartType'
BY DEF RestartType

\* Owing one restart more keeps the types.
LEMMA Owes ==
  ASSUME RestartType, UNCHANGED <<timers, fired>>, owed' = owed \/ owed' = owed + 1
  PROVE  RestartType'
BY DEF RestartType

\* The shutdown keeps its types when it keeps its values.
LEMMA ShutdownKept == ShutdownType /\ UNCHANGED shutdown => ShutdownType'
BY DEF ShutdownType

\* The counters keep their types when they keep their values.
LEMMA CountKept == CountType /\ UNCHANGED <<asks, probes, faults, unusable>> => CountType'
BY DEF CountType

\* A fault within its bound keeps the types of the counters.
LEMMA CountFault ==
  ASSUME CountType, UNCHANGED <<asks, probes, unusable>>, UNCHANGED faults \/ Fault
  PROVE  CountType'
BY DEF CountType, Fault

Places == {"idle", "revalidate", "replace", "stopOld", "resolve", "spawn", "create",
           "install", "handshake", "apply", "undo", "clear", "stop", "end"}

\* A holder of the lifecycle lock that has just begun is an operation.
LEMMA HolderType ==
  ASSUME NEW k \in {"none", "connect", "probe", "shutdown"}, NEW at \in Places,
         NEW p \in Generations
  PROVE  Holder(k, at, p) \in Operation
BY DEF Holder, Operation, Places

\* That nobody holds the lifecycle lock is an operation.
LEMMA NoOpType == NoOp \in Operation
BY HolderType DEF NoOp, Places

\* An operation works on a process and has at most one attempt behind it.
LEMMA OpFields ==
  ASSUME op \in Operation
  PROVE  op.proc \in Generations /\ op.tries \in 0..1
BY DEF Operation

\* An operation that moves on remains an operation.
LEMMA OpAt ==
  ASSUME op \in Operation, NEW at \in Places
  PROVE  /\ [op EXCEPT !.at = at] \in Operation
         /\ \A p \in Generations : [op EXCEPT !.at = at, !.proc = p] \in Operation
         /\ \A b \in BOOLEAN : [op EXCEPT !.at = at, !.ok = b] \in Operation
<1>1. [op EXCEPT !.at = at] \in Operation
  BY DEF Operation, Places
<1>2. ASSUME NEW p \in Generations PROVE [op EXCEPT !.at = at, !.proc = p] \in Operation
  BY DEF Operation, Places
<1>3. ASSUME NEW b \in BOOLEAN PROVE [op EXCEPT !.at = at, !.ok = b] \in Operation
  BY DEF Operation, Places
<1> QED BY <1>1, <1>2, <1>3

\* An operation that moves on with a process has the place and the process given.
LEMMA OpMoves ==
  ASSUME op \in Operation, NEW at, NEW p, op' = [op EXCEPT !.at = at, !.proc = p]
  PROVE  op'.kind = op.kind /\ op'.at = at /\ op'.proc = p
BY DEF Operation

\* An operation that has ended left neither kind, place nor process.
LEMMA OpDone ==
  ASSUME op' = NoOp
  PROVE  op'.kind = "none" /\ op'.at = "idle" /\ op'.proc = 0
BY DEF NoOp, Holder

\* An operation that counts an attempt remains an operation.
LEMMA TriesType ==
  ASSUME NEW r \in Operation, NEW t \in 0..1
  PROVE  [r EXCEPT !.tries = t] \in Operation
BY DEF Operation

\* Dropping a process handle keeps the types of the processes.
LEMMA DroppedType ==
  ASSUME ProcessType, NEW p, NEW owners, proc' = Dropped(p, owners),
         UNCHANGED <<expected, broken, signals>>
  PROVE  ProcessType'
BY DEF ProcessType, Dropped, Signal

\* stop_process_tree keeps the types of the processes.
LEMMA StopType ==
  ASSUME ProcessType, NEW p \in Processes, StopTree(p)
  PROVE  ProcessType'
BY DEF ProcessType, StopTree, Signal

-----------------------------------------------------------------------------
(* Types: the operations.                                                  *)

\* A connect that takes the lifecycle lock is an operation.
LEMMA BeginType == ASSUME TypeOK, ConnectBegin PROVE op' \in Operation
<1>1. runtime \in Generations
  BY DEF TypeOK, ConnType
<1>2. Holder("connect", "revalidate", runtime) \in Operation
  BY <1>1, HolderType DEF Places
<1>3. Holder("connect", "replace", 0) \in Operation
  BY HolderType DEF Places
<1> QED BY <1>2, <1>3, NoOpType DEF ConnectBegin

\* AskConnect keeps the types.
LEMMA AskConnectType == ASSUME TypeOK, AskConnect PROVE TypeOK'
<1>1. CountType'
  BY DEF AskConnect, TypeOK, CountType
<1>2. FlagType'
  BY Zenon DEF AskConnect, TypeOK, FlagType, conn
<1> QED BY <1>1, <1>2, BeginType, ConnKept, ProcessKept, RestartKept, ShutdownKept
        DEF AskConnect, TypeOK

\* AskProbe keeps the types.
LEMMA AskProbeType == ASSUME TypeOK, AskProbe PROVE TypeOK'
<1>1. CountType'
  BY DEF AskProbe, TypeOK, CountType
<1>2. runtime \in Generations
  BY DEF TypeOK, ConnType
<1>3. op' \in Operation
  BY <1>2, HolderType DEF AskProbe, Places
<1>4. FlagType'
  BY FlagSet DEF AskProbe, TypeOK
<1> QED BY <1>1, <1>3, <1>4, ConnWith, ProcessKept, RestartKept, ShutdownKept
        DEF AskProbe, TypeOK

\* RunRestart keeps the types.
LEMMA RunRestartType == ASSUME TypeOK, RunRestart PROVE TypeOK'
<1>1. RestartType'
  BY DEF RunRestart, TypeOK, RestartType
<1> QED BY <1>1, BeginType, ConnKept, FlagKept, ProcessKept, ShutdownKept, CountKept
        DEF RunRestart, TypeOK

\* A failed connect keeps the types.
LEMMA FailsType ==
  ASSUME TypeOK, ConnectFails, UNCHANGED <<timers, fired, stopping>>
  PROVE  op' \in Operation /\ RestartType' /\ FlagType'
BY NoOpType, Owes, FlagSet DEF ConnectFails, TypeOK

\* Revalidate keeps the types.
LEMMA RevalidateType == ASSUME TypeOK, Revalidate PROVE TypeOK'
<1>1. ProcessType'
  BY DroppedType DEF Revalidate, TypeOK
<1>2. op' \in Operation
  <2>1. op' = NoOp \/ op' = [op EXCEPT !.at = "replace", !.proc = 0]
    BY DEF Revalidate
  <2>2. op \in Operation /\ "replace" \in Places /\ 0 \in Generations
    BY DEF TypeOK, Places
  <2>3. [op EXCEPT !.at = "replace", !.proc = 0] \in Operation
    BY <2>2, OpAt
  <2> QED BY <2>1, <2>3, NoOpType
<1>3. RestartType'
  BY Owes DEF Revalidate, TypeOK
<1>4. CountType'
  BY CountFault DEF Revalidate, TypeOK
<1> QED BY <1>1, <1>2, <1>3, <1>4, ConnKept, FlagKept, ShutdownKept DEF Revalidate, TypeOK

\* Replace keeps the types.
LEMMA ReplaceType == ASSUME TypeOK, Replace PROVE TypeOK'
<1> DEFINE at == IF runtime = 0 THEN "resolve" ELSE "stopOld"
<1>1. op' \in Operation
  <2>1. at \in Places /\ runtime \in Generations
    BY DEF TypeOK, ConnType, Places
  <2>2. op' = [op EXCEPT !.at = at, !.proc = runtime]
    BY DEF Replace
  <2> HIDE DEF at
  <2> QED BY <2>1, <2>2, OpAt DEF TypeOK
<1>2. FlagType'
  BY FlagSet DEF Replace, TypeOK
<1> QED BY <1>1, <1>2, ConnWith, ProcessKept, RestartKept, ShutdownKept, CountKept
        DEF Replace, TypeOK

\* Resolve keeps the types.
LEMMA ResolveType == ASSUME TypeOK, Resolve PROVE TypeOK'
<1>1. CASE ConnectFails
  BY <1>1, FailsType, ConnKept, ProcessKept, ShutdownKept, CountFault DEF Resolve, TypeOK
<1>2. CASE op' = [op EXCEPT !.at = "spawn"] /\ UNCHANGED <<ready, owed, wanted, faults>>
  <2>1. op' \in Operation
    BY <1>2, OpAt DEF TypeOK, Places
  <2> QED BY <1>2, <2>1, ConnKept, FlagKept, ProcessKept, RestartKept, ShutdownKept, CountKept
          DEF Resolve, TypeOK
<1> QED BY <1>1, <1>2 DEF Resolve

\* Spawn keeps the types.
LEMMA SpawnType == ASSUME TypeOK, Spawn PROVE TypeOK'
<1>1. op' \in Operation
  BY OpAt DEF Spawn, TypeOK, Places
<1>2. ConnType'
  BY DEF Spawn, TypeOK, ConnType
<1> QED BY <1>1, <1>2, FlagKept, ProcessKept, RestartKept, ShutdownKept, CountKept
        DEF Spawn, TypeOK

\* Create keeps the types.
LEMMA CreateType == ASSUME TypeOK, Create PROVE TypeOK'
<1>1. CASE ConnectFails /\ Fault /\ UNCHANGED proc
  BY <1>1, FailsType, ConnKept, ProcessKept, ShutdownKept, CountFault DEF Create, TypeOK
<1>2. CASE /\ proc' = [proc EXCEPT ![generation] = "live"]
           /\ op' = [op EXCEPT !.at = "install", !.proc = generation]
           /\ UNCHANGED <<ready, owed, wanted, faults>>
  <2>1. op' \in Operation
    BY <1>2, OpAt DEF TypeOK, ConnType, Places
  <2>2. ProcessType'
    BY <1>2 DEF Create, TypeOK, ProcessType, Signal
  <2> QED BY <1>2, <2>1, <2>2, ConnKept, FlagKept, RestartKept, ShutdownKept, CountKept
          DEF Create, TypeOK
<1> QED BY <1>1, <1>2 DEF Create

\* Install keeps the types.
LEMMA InstallType == ASSUME TypeOK, Install PROVE TypeOK'
<1>1. op' \in Operation
  BY OpAt DEF Install, TypeOK, Places
<1>2. runtime' \in Generations
  BY OpFields DEF Install, TypeOK
<1> QED BY <1>1, <1>2, ConnWith, FlagKept, ProcessKept, RestartKept, ShutdownKept, CountKept
        DEF Install, TypeOK

\* Handshake keeps the types.
LEMMA HandshakeType == ASSUME TypeOK, Handshake PROVE TypeOK'
<1>1. op' \in Operation
  BY OpAt DEF Handshake, TypeOK, Places
<1>2. CountType'
  BY CountFault DEF Handshake, TypeOK
<1> QED BY <1>1, <1>2, ConnKept, FlagKept, ProcessKept, RestartKept, ShutdownKept
        DEF Handshake, TypeOK

\* ApplyHandshake keeps the types.
LEMMA ApplyType == ASSUME TypeOK, ApplyHandshake PROVE TypeOK'
<1>1. FlagType'
  BY FlagSet DEF ApplyHandshake, TypeOK
<1>2. CountType'
  BY DEF ApplyHandshake, TypeOK, CountType
<1> QED BY <1>1, <1>2, NoOpType, ConnKept, DroppedType, RestartKept, ShutdownKept
        DEF ApplyHandshake, TypeOK

\* ClearAttempt keeps the types.
LEMMA ClearType == ASSUME TypeOK, ClearAttempt PROVE TypeOK'
<1>1. ConnType'
  BY ConnWith DEF ClearAttempt, TypeOK, ConnType
<1>2. CASE ConnectFails
  BY <1>1, <1>2, FailsType, ProcessKept, ShutdownKept, CountKept DEF ClearAttempt, TypeOK
<1>3. CASE /\ op.tries = 0
           /\ op' = [Holder("connect", "spawn", 0) EXCEPT !.tries = op.tries + 1]
           /\ UNCHANGED <<ready, owed, wanted>>
  <2>1. Holder("connect", "spawn", 0) \in Operation
    BY HolderType DEF Places
  <2>2. op.tries + 1 \in 0..1
    BY <1>3
  <2>3. op' \in Operation
    BY <1>3, <2>1, <2>2, TriesType
  <2> QED BY <1>1, <1>3, <2>3, FlagKept, ProcessKept, RestartKept, ShutdownKept, CountKept
          DEF ClearAttempt, TypeOK
<1> QED BY <1>2, <1>3 DEF ClearAttempt

\* Who works on a process names it.
Named ==
  /\ op.at \in {"revalidate", "stopOld", "install", "handshake", "apply", "undo", "clear",
                "stop"} => op.proc # 0
  /\ loop.at = "stopping" => loop.proc # 0

\* StopOld keeps the types.
LEMMA StopOldType == ASSUME TypeOK, Named, StopOld PROVE TypeOK'
<1>1. op.proc \in Processes
  BY OpFields DEF Named, TypeOK, StopOld
<1>2. op' \in Operation
  <2>1. op' = [op EXCEPT !.at = "resolve", !.proc = 0]
    BY DEF StopOld
  <2>2. op \in Operation /\ "resolve" \in Places /\ 0 \in Generations
    BY DEF TypeOK, Places
  <2>3. [op EXCEPT !.at = "resolve", !.proc = 0] \in Operation
    BY <2>2, OpAt
  <2> QED BY <2>1, <2>3
<1> QED BY <1>1, <1>2, StopType, ConnKept, FlagKept, RestartKept, ShutdownKept, CountKept
        DEF TypeOK, StopOld

\* UndoAttempt keeps the types.
LEMMA UndoType == ASSUME TypeOK, Named, UndoAttempt PROVE TypeOK'
<1>1. op.proc \in Processes
  BY OpFields DEF Named, TypeOK, UndoAttempt, At
<1>2. op' \in Operation
  BY OpAt DEF TypeOK, UndoAttempt, Places
<1> QED BY <1>1, <1>2, StopType, ConnKept, FlagKept, RestartKept, ShutdownKept, CountKept
        DEF TypeOK, UndoAttempt

\* ShutdownStops keeps the types.
LEMMA ShutdownStopsType == ASSUME TypeOK, Named, ShutdownStops PROVE TypeOK'
<1>1. op.proc \in Processes
  BY OpFields DEF Named, TypeOK, ShutdownStops, At
<1>2. op' \in Operation
  BY OpAt DEF TypeOK, ShutdownStops, Places
<1> QED BY <1>1, <1>2, StopType, ConnKept, FlagKept, RestartKept, ShutdownKept, CountKept
        DEF TypeOK, ShutdownStops

\* ShutdownEnd keeps the types.
LEMMA ShutdownEndType == ASSUME TypeOK, ShutdownEnd PROVE TypeOK'
<1>1. ConnType'
  BY ConnWith DEF ShutdownEnd, TypeOK, ConnType
<1>2. FlagType'
  BY FlagSet DEF ShutdownEnd, TypeOK
<1>3. ShutdownType'
  BY DEF ShutdownEnd, TypeOK, ShutdownType
<1> QED BY <1>1, <1>2, <1>3, NoOpType, ProcessKept, RestartKept, CountKept
        DEF ShutdownEnd, TypeOK

\* ProbeEnds keeps the types.
LEMMA ProbeEndsType == ASSUME TypeOK, ProbeEnds PROVE TypeOK'
BY NoOpType, ConnKept, FlagKept, ProcessKept, RestartKept, ShutdownKept, CountKept
DEF ProbeEnds, TypeOK

\* The steps of the holder of the lifecycle lock keep the types.
LEMMA OpType == ASSUME TypeOK, Named, OpStep PROVE TypeOK'
BY RevalidateType, ReplaceType, StopOldType, ResolveType, SpawnType, CreateType, InstallType,
   HandshakeType, ApplyType, UndoType, ClearType, ProbeEndsType, ShutdownStopsType,
   ShutdownEndType
DEF OpStep

-----------------------------------------------------------------------------
(* Types: the signal loop, the restarts, the shutdown and the environment. *)

\* What handle_disconnect does keeps the types.
LEMMA LostType ==
  ASSUME TypeOK, NEW s \in signals, HandleDisconnect(s)
  PROVE  TypeOK'
<1>1. /\ UNCHANGED <<generation, stopping, wanted>> /\ runtime' \in {runtime, 0}
      /\ ready' \in {ready, FALSE}
  BY DEF HandleDisconnect
<1>2. ConnType'
  BY <1>1, ConnWith DEF TypeOK, ConnType
<1>3. FlagType'
  BY <1>1, FlagSet DEF TypeOK
<1>4. ProcessType'
  BY DEF HandleDisconnect, Take, TypeOK, ProcessType, Dropped, Signal
<1>5. loop' \in LoopState
  BY DEF HandleDisconnect, TypeOK, ConnType, LoopState
<1> QED BY <1>2, <1>3, <1>4, <1>5, RestartKept, ShutdownKept, CountKept DEF HandleDisconnect, TypeOK

\* What handle_protocol_violation does keeps the types.
LEMMA ViolationType ==
  ASSUME TypeOK, NEW s \in signals, HandleViolation(s)
  PROVE  TypeOK'
<1>1. /\ UNCHANGED <<generation, stopping, wanted>> /\ runtime' \in {runtime, 0}
      /\ ready' \in {ready, FALSE}
  BY DEF HandleViolation
<1>2. ConnType'
  BY <1>1, ConnWith DEF TypeOK, ConnType
<1>3. FlagType'
  BY <1>1, FlagSet DEF TypeOK
<1>4. ProcessType'
  BY DEF HandleViolation, Take, TypeOK, ProcessType, Signal
<1>5. loop' \in LoopState
  BY DEF HandleViolation, TypeOK, ConnType, LoopState
<1> QED BY <1>2, <1>3, <1>4, <1>5, RestartKept, ShutdownKept, CountKept DEF HandleViolation, TypeOK

\* LoopStops keeps the types.
LEMMA LoopStopsType == ASSUME TypeOK, Named, LoopStops PROVE TypeOK'
<1>1. loop.proc \in Processes
  BY DEF Named, TypeOK, LoopStops, LoopState
<1>2. loop' \in LoopState
  <2>1. loop' = [loop EXCEPT !.at = "schedule", !.proc = 0]
    BY DEF LoopStops
  <2>2. ASSUME NEW at \in {"idle", "stopping", "schedule"}, NEW q \in Generations
        PROVE  [loop EXCEPT !.at = at, !.proc = q] \in LoopState
    BY DEF TypeOK, LoopState
  <2>3. 0 \in Generations
    OBVIOUS
  <2> QED BY <2>1, <2>2, <2>3
<1> QED BY <1>1, <1>2, StopType, ConnKept, FlagKept, RestartKept, ShutdownKept, CountKept
        DEF TypeOK, LoopStops

\* Scheduling a restart, and a timer that fires, keep the types.
LEMMA TimersType ==
  ASSUME TypeOK, LoopSchedules \/ ScheduleRetry \/ \E g \in Generations : TimerFires(g)
  PROVE  TypeOK'
<1>1. CASE LoopSchedules
  <2>1. RestartType' /\ loop' \in LoopState
    BY <1>1 DEF LoopSchedules, TypeOK, RestartType, LoopState, IdleLoop
  <2> QED BY <1>1, <2>1, ConnKept, FlagKept, ProcessKept, ShutdownKept, CountKept
          DEF LoopSchedules, TypeOK
<1>2. CASE ScheduleRetry
  <2>1. RestartType'
    <3>1. timers' = timers \/ timers' = [timers EXCEPT ![generation] = @ + 1]
      BY <1>2 DEF ScheduleRetry
    <3>2. timers' \in [Generations -> Nat]
      BY <3>1 DEF TypeOK, ConnType, RestartType
    <3> QED BY <1>2, <3>2 DEF ScheduleRetry, TypeOK, RestartType
  <2> QED BY <1>2, <2>1, ConnKept, FlagKept, ProcessKept, ShutdownKept, CountKept
          DEF ScheduleRetry, TypeOK
<1>3. ASSUME NEW g \in Generations, TimerFires(g) PROVE TypeOK'
  <2>1. RestartType'
    BY <1>3 DEF TimerFires, TypeOK, RestartType
  <2> QED BY <1>3, <2>1, ConnKept, FlagKept, ProcessKept, ShutdownKept, CountKept
          DEF TimerFires, TypeOK
<1> QED BY <1>1, <1>2, <1>3

\* The steps of the shutdown, its graceful pass and its forced one, keep the types.
LEMMA ShutdownStepType ==
  ASSUME TypeOK, Quit \/ ShutdownBegin \/ GracefulTimeout \/ ForceBegin \/ ForceEnd
  PROVE  TypeOK'
<1>1. CASE Quit
  <2>1. ShutdownType'
    BY <1>1 DEF Quit, TypeOK, ShutdownType
  <2> QED BY <1>1, <2>1, ConnKept, FlagKept, ProcessKept, RestartKept, CountKept DEF Quit, TypeOK
<1>2. CASE ShutdownBegin
  <2>1. op' \in Operation
    BY <1>2, HolderType DEF ShutdownBegin, TypeOK, ConnType, Places
  <2>2. FlagType'
    BY <1>2, FlagSet DEF ShutdownBegin, TypeOK
  <2> QED BY <1>2, <2>1, <2>2, ConnKept, ProcessKept, RestartKept, ShutdownKept, CountKept
          DEF ShutdownBegin, TypeOK
<1>3. CASE GracefulTimeout
  <2>1. op' \in Operation /\ ShutdownType'
    BY <1>3, NoOpType DEF GracefulTimeout, TypeOK, ShutdownType
  <2> QED BY <1>3, <2>1, ConnKept, FlagKept, ProcessKept, RestartKept, CountKept
          DEF GracefulTimeout, TypeOK
<1>4. CASE ForceBegin
  <2>1. ProcessType'
    <3>1. CASE runtime = 0
      BY <1>4, <3>1, ProcessKept DEF ForceBegin, TypeOK
    <3>2. CASE runtime # 0
      <4>1. proc' = Dropped(runtime, {}) /\ expected' = expected \union {runtime}
            /\ UNCHANGED <<broken, signals>>
        BY <1>4, <3>2 DEF ForceBegin
      <4> QED BY <3>2, <4>1 DEF TypeOK, ConnType, ProcessType, Dropped, Signal
    <3> QED BY <3>1, <3>2
  <2>2. ShutdownType'
    BY <1>4 DEF ForceBegin, TypeOK, ConnType, ShutdownType
  <2>3. FlagType'
    BY <1>4, FlagSet DEF ForceBegin, TypeOK
  <2> QED BY <1>4, <2>1, <2>2, <2>3, ConnWith, RestartKept, CountKept DEF ForceBegin, TypeOK
<1>5. CASE ForceEnd
  <2>1. ShutdownType'
    BY <1>5 DEF ForceEnd, TypeOK, ShutdownType
  <2> QED BY <1>5, <2>1, ConnKept, FlagKept, ProcessKept, RestartKept, CountKept
          DEF ForceEnd, TypeOK
<1> QED BY <1>1, <1>2, <1>3, <1>4, <1>5

\* A process that crashes or dies, and a stream that breaks, keep the types.
LEMMA EnvironmentType == ASSUME TypeOK, Environment PROVE TypeOK'
<1>1. ASSUME NEW p \in Processes, ProcessCrashes(p) PROVE TypeOK'
  <2>1. signals' \subseteq Signal
    BY <1>1 DEF TypeOK, ProcessType, ProcessCrashes, Signal
  <2>2. ProcessType'
    BY <1>1, <2>1 DEF ProcessCrashes, TypeOK, ProcessType
  <2> QED BY <1>1, <2>2, ConnKept, FlagKept, RestartKept, ShutdownKept, CountFault
          DEF ProcessCrashes, TypeOK
<1>2. ASSUME NEW p \in Processes, ProcessDies(p) PROVE TypeOK'
  <2>1. ProcessType'
    BY <1>2 DEF ProcessDies, TypeOK, ProcessType, Signal
  <2> QED BY <1>2, <2>1, ConnKept, FlagKept, RestartKept, ShutdownKept, CountKept
          DEF ProcessDies, TypeOK
<1>3. ASSUME NEW p \in Processes, NEW m \in {"lost", "violation"}, StreamBreaks(p, m)
      PROVE  TypeOK'
  <2>1. ProcessType'
    BY <1>3 DEF StreamBreaks, TypeOK, ProcessType, Signal
  <2> QED BY <1>3, <2>1, ConnKept, FlagKept, RestartKept, ShutdownKept, CountFault
          DEF StreamBreaks, TypeOK
<1> QED BY <1>1, <1>2, <1>3 DEF Environment

\* Before the first connect everything is typed.
LEMMA TypeInit == Init => TypeOK
<1> SUFFICES ASSUME Init PROVE TypeOK
  OBVIOUS
<1>1. ConnType /\ ProcessType /\ RestartType /\ ShutdownType /\ CountType
  BY DEF Init, ConnType, ProcessType, RestartType, ShutdownType, CountType
<1>2. FlagType
  BY Zenon DEF Init, FlagType
<1>3. loop \in LoopState
  BY DEF Init, IdleLoop, LoopState
<1> QED BY <1>1, <1>2, <1>3, NoOpType DEF Init, TypeOK

\* Every step keeps the types.
LEMMA TypeStep == TypeOK /\ Named /\ [Next]_vars => TypeOK'
<1>1. TypeOK /\ UNCHANGED vars => TypeOK'
  BY ConnKept, FlagKept, ProcessKept, RestartKept, ShutdownKept, CountKept DEF TypeOK, vars
<1> QED BY <1>1, AskConnectType, AskProbeType, RunRestartType, OpType, LostType, ViolationType,
           LoopStopsType, TimersType, ShutdownStepType, EnvironmentType DEF Next, LoopStep

-----------------------------------------------------------------------------
(* The runtime is the current generation's.                                *)

\* A connect past the spawn works on the current generation, and until it has
\* installed its process nothing is installed: the lifecycle lock at work, in
\* spite of what the signal loop and the forced shutdown take out meanwhile.
Current ==
  /\ RuntimeIsCurrent
  /\ op.at \in {"install", "handshake", "apply", "undo", "clear"} => op.proc = generation
  /\ op.at \in {"stopOld", "resolve", "spawn", "create", "install"} => runtime = 0
  /\ op.at = "create" => generation # 0

\* A shutdown has set shutdown_requested and knows the runtime; once it has
\* converged there is no runtime, and no connect to install one.
Final ==
  /\ op.kind = "shutdown" => stopping /\ app = "graceful" /\ runtime \in {0, op.proc}
  /\ app = "stopped" => stopping /\ runtime = 0 /\ op.kind # "connect"

CurrentInv == Named /\ Current /\ Final

\* Before the first connect there is no runtime.
LEMMA CurrentInit == Init => CurrentInv
BY DEF Init, CurrentInv, Named, Current, RuntimeIsCurrent, Final, NoOp, Holder, IdleLoop

\* CurrentInv survives the signal loop taking the runtime out.
LEMMA CurrentKept ==
  ASSUME CurrentInv, UNCHANGED <<generation, stopping, op, loop, app>>, runtime' \in {runtime, 0}
  PROVE  CurrentInv'
BY DEF CurrentInv, Named, Current, RuntimeIsCurrent, Final

\* CurrentInv survives a connect taking the lifecycle lock.
LEMMA CurrentBegin ==
  ASSUME CurrentInv, ConnectBegin, UNCHANGED <<conn, loop, app>>
  PROVE  CurrentInv'
BY DEF CurrentInv, Named, Current, RuntimeIsCurrent, Final, ConnectBegin, NoOp, Holder

\* CurrentInv survives an operation giving the lifecycle lock back.
LEMMA CurrentDone ==
  ASSUME CurrentInv, op' = NoOp, UNCHANGED <<generation, stopping, loop>>, runtime' \in {runtime, 0},
         app' \in {app, "failed"}
  PROVE  CurrentInv'
BY DEF CurrentInv, Named, Current, RuntimeIsCurrent, Final, NoOp, Holder

\* CurrentInv survives the steps of the holder of the lifecycle lock.
LEMMA CurrentOp == ASSUME TypeOK, CurrentInv, OpStep PROVE CurrentInv'
<1> USE DEF CurrentInv, Named, Current, RuntimeIsCurrent, Final, At
<1>0. op \in Operation
  BY DEF TypeOK
<1>1. CASE Revalidate
  BY <1>0, <1>1, CurrentDone DEF Revalidate, Operation
<1>2. CASE Replace
  BY <1>0, <1>2 DEF Replace, Operation
<1>3. CASE StopOld
  BY <1>0, <1>3 DEF StopOld, Operation
<1>4. CASE Resolve
  BY <1>0, <1>4, CurrentDone DEF Resolve, Operation, ConnectFails
<1>5. CASE Spawn
  BY <1>0, <1>5 DEF Spawn, Operation, TypeOK, ConnType
<1>6. CASE Create
  BY <1>0, <1>6, CurrentDone DEF Create, Operation, ConnectFails
<1>7. CASE Install
  BY <1>0, <1>7 DEF Install, Operation
<1>8. CASE Handshake
  BY <1>0, <1>8 DEF Handshake, Operation
<1>9. CASE ApplyHandshake
  BY <1>9, CurrentDone DEF ApplyHandshake
<1>10. CASE UndoAttempt
  BY <1>0, <1>10 DEF UndoAttempt, Operation
<1>11. CASE ClearAttempt
  BY <1>0, <1>11, CurrentDone DEF ClearAttempt, Operation, ConnectFails, Holder
<1>12. CASE ProbeEnds
  BY <1>12, CurrentDone DEF ProbeEnds
<1>13. CASE ShutdownStops
  BY <1>0, <1>13 DEF ShutdownStops, Operation
<1>14. CASE ShutdownEnd
  BY <1>0, <1>14 DEF ShutdownEnd, NoOp, Holder
<1> QED BY <1>1, <1>2, <1>3, <1>4, <1>5, <1>6, <1>7, <1>8, <1>9, <1>10, <1>11, <1>12, <1>13,
           <1>14 DEF OpStep

\* CurrentInv survives every step.
LEMMA CurrentStep == TypeOK /\ CurrentInv /\ [Next]_vars => CurrentInv'
<1> SUFFICES ASSUME TypeOK, CurrentInv, [Next]_vars PROVE CurrentInv'
  OBVIOUS
<1>1. CASE AskConnect \/ RunRestart
  BY <1>1, CurrentBegin DEF AskConnect, RunRestart
<1>2. CASE AskProbe
  BY <1>2 DEF AskProbe, CurrentInv, Named, Current, RuntimeIsCurrent, Final, NoOp, Holder
<1>3. ASSUME NEW s \in signals, HandleDisconnect(s) PROVE CurrentInv'
  BY <1>3 DEF HandleDisconnect, CurrentInv, Named, Current, RuntimeIsCurrent, Final
<1>4. ASSUME NEW s \in signals, HandleViolation(s) PROVE CurrentInv'
  BY <1>4 DEF HandleViolation, Effective, CurrentInv, Named, Current, RuntimeIsCurrent, Final
<1>5. CASE LoopStops \/ LoopSchedules
  <2>1. loop'.at # "stopping"
    <3>1. loop \in LoopState
      BY DEF TypeOK
    <3>2. CASE LoopStops
      BY <3>1, <3>2 DEF LoopStops, LoopState
    <3>3. CASE LoopSchedules
      BY <3>3 DEF LoopSchedules, IdleLoop
    <3> QED BY <1>5, <3>2, <3>3
  <2>2. UNCHANGED <<generation, runtime, stopping, op, app>>
    BY <1>5 DEF LoopStops, LoopSchedules
  <2> QED BY <2>1, <2>2 DEF CurrentInv, Named, Current, RuntimeIsCurrent, Final
<1>6. CASE ScheduleRetry \/ (\E g \in Generations : TimerFires(g)) \/ Environment \/ UNCHANGED vars
  BY <1>6, CurrentKept DEF ScheduleRetry, TimerFires, Environment, ProcessCrashes, ProcessDies,
     StreamBreaks, vars
<1>7. CASE Quit \/ ForceBegin \/ ForceEnd
  BY <1>7 DEF Quit, ForceBegin, ForceEnd, CurrentInv, Named, Current, RuntimeIsCurrent, Final
<1>8. CASE ShutdownBegin
  BY <1>8 DEF ShutdownBegin, CurrentInv, Named, Current, RuntimeIsCurrent, Final, NoOp, Holder
<1>9. CASE GracefulTimeout
  BY <1>9 DEF GracefulTimeout, CurrentInv, Named, Current, RuntimeIsCurrent, Final, NoOp, Holder
<1> QED BY <1>1, <1>2, <1>3, <1>4, <1>5, <1>6, <1>7, <1>8, <1>9, CurrentOp DEF Next, LoopStep

\* The types and CurrentInv hold throughout.
LEMMA CurrentSafe == Spec => [](TypeOK /\ CurrentInv)
BY TypeInit, TypeStep, CurrentInit, CurrentStep, PTL DEF Spec, CurrentInv

\* The variables of the connection stay in their types: among others a connect
\* makes no third attempt.
THEOREM TypeCorrect == Spec => []TypeOK
BY CurrentSafe, PTL

\* Whatever the signal loop takes out meanwhile, the installed runtime is the
\* current generation's.
THEOREM RuntimeIsCurrentHolds == Spec => []RuntimeIsCurrent
BY CurrentSafe, PTL DEF CurrentInv, Current

\* No process is started and no runtime installed after a converged shutdown.
THEOREM ShutdownIsFinalHolds == Spec => ShutdownIsFinal
<1> DEFINE Step == app = "stopped" => generation' = generation /\ runtime' = 0
<1>1. TypeOK /\ CurrentInv /\ [Next]_vars => Step
  <2> SUFFICES ASSUME TypeOK, CurrentInv, [Next]_vars, app = "stopped"
               PROVE  generation' = generation /\ runtime' = 0
    OBVIOUS
  <2>1. runtime = 0 /\ op.kind # "connect"
    BY DEF CurrentInv, Final
  <2>2. CASE AskConnect \/ AskProbe \/ RunRestart \/ UNCHANGED vars
    BY <2>1, <2>2 DEF AskConnect, AskProbe, RunRestart, vars
  <2>3. CASE OpStep
    BY <2>1, <2>3 DEF OpStep, Revalidate, Replace, StopOld, Resolve, Spawn, Create, Install,
       Handshake, ApplyHandshake, UndoAttempt, ClearAttempt, ProbeEnds, ShutdownStops,
       ShutdownEnd, At
  <2>4. CASE LoopStep
    BY <2>1, <2>4 DEF LoopStep, HandleDisconnect, HandleViolation, LoopStops, LoopSchedules
  <2>5. CASE ScheduleRetry \/ (\E g \in Generations : TimerFires(g)) \/ Environment
    BY <2>1, <2>5 DEF ScheduleRetry, TimerFires, Environment, ProcessCrashes, ProcessDies,
       StreamBreaks
  <2>6. CASE Quit \/ ShutdownBegin \/ GracefulTimeout \/ ForceBegin \/ ForceEnd
    BY <2>1, <2>6 DEF Quit, ShutdownBegin, GracefulTimeout, ForceBegin, ForceEnd
  <2> QED BY <2>2, <2>3, <2>4, <2>5, <2>6 DEF Next
<1> QED BY <1>1, CurrentSafe, PTL DEF Spec, ShutdownIsFinal

-----------------------------------------------------------------------------
(* Somebody reconnects. Until the shutdown begins, five things hold.       *)

\* What the holder of the lifecycle lock does says who it is; a probe has made
\* an end of the wish for a connection.
Kinds ==
  /\ op.at \in {"revalidate", "replace", "spawn", "create", "install", "handshake", "apply",
                "undo", "clear"} => op.kind = "connect"
  /\ op.at \in {"stop", "end"} => op.kind = "shutdown"
  /\ op.kind = "none" <=> op.at = "idle"
  /\ op.kind = "probe" => ~wanted

\* Nobody works on a process that is yet to be started, and the signal loop never
\* stops the one that is installed or about to be.
Aged ==
  /\ op.proc <= generation
  /\ loop.at = "stopping" =>
       /\ loop.proc <= generation /\ loop.proc # runtime
       /\ op.at \in {"create", "install"} => loop.proc # generation

\* An installed runtime that is wanted is Ready, but for a connect that has just
\* installed it or is about to replace it.
Installed ==
  ~stopping /\ wanted /\ runtime # 0
    /\ op.at \notin {"replace", "handshake", "apply", "undo", "clear"} => ready

\* The expected_shutdown flag, which makes handle_disconnect ignore the end of a
\* process, is set for no installed one but that of a failed attempt.
Unexpected ==
  ~stopping =>
    /\ runtime \in expected => op.at = "clear"
    /\ op.at \in {"create", "install"} => generation \notin expected
    /\ \A p \in expected : p <= generation

\* The end of an installed process is yet to be heard of, unless its handshake
\* will fail for it.
Heard ==
  ~stopping /\ runtime # 0 /\ runtime \in broken
    /\ op.at \notin {"handshake", "undo", "clear"} =>
      \E s \in signals : s.gen = runtime

Pending ==
  \/ fired > 0 \/ owed > 0 \/ timers[generation] > 0
  \/ loop.at # "idle" /\ loop.gen = generation

\* A runtime that was taken out, also from under a connect in its handshake, has
\* left a restart behind.
Owed ==
  ~stopping /\ wanted /\ runtime = 0 /\ op.at \in {"idle", "handshake", "apply"} => Pending

ReconnectInv == Kinds /\ Aged /\ Installed /\ Unexpected /\ Heard /\ Owed

\* Before the first connect nobody wants a connection.
LEMMA ReconnectInit == Init => ReconnectInv
BY DEF Init, ReconnectInv, Kinds, Aged, Installed, Unexpected, Heard, Owed, NoOp, Holder,
   IdleLoop

Inv == TypeOK /\ CurrentInv /\ ReconnectInv

\* Every step leaves the place of the holder of the lock in line with its kind.
LEMMA KindsStep == Inv /\ [Next]_vars => Kinds'
<1> SUFFICES ASSUME Inv, [Next]_vars PROVE Kinds'
  OBVIOUS
<1> USE DEF Inv, ReconnectInv, Kinds, At
<1>0. op \in Operation
  BY DEF TypeOK
<1>1. CASE AskConnect \/ RunRestart
  BY <1>1 DEF AskConnect, RunRestart, ConnectBegin, NoOp, Holder
<1>2. CASE AskProbe
  BY <1>2 DEF AskProbe, Holder
<1>3. CASE Revalidate
  <2>1. op' = NoOp \/ op' = [op EXCEPT !.at = "replace", !.proc = 0]
    BY <1>3 DEF Revalidate
  <2>2. CASE op' = NoOp
    BY <1>3, <2>2, OpDone DEF Revalidate
  <2>3. CASE op' = [op EXCEPT !.at = "replace", !.proc = 0]
    <3>1. op'.kind = op.kind /\ op'.at = "replace"
      BY <1>0, <2>3, OpMoves
    <3> QED BY <1>3, <3>1 DEF Revalidate
  <2> QED BY <2>1, <2>2, <2>3
<1>4. CASE Replace
  BY <1>0, <1>4 DEF Replace, Operation
<1>5. CASE StopOld
  BY <1>0, <1>5 DEF StopOld, Operation
<1>6. CASE Resolve
  BY <1>0, <1>6 DEF Resolve, Operation, ConnectFails, NoOp, Holder
<1>7. CASE Spawn \/ Install \/ UndoAttempt
  BY <1>0, <1>7 DEF Spawn, Install, UndoAttempt, Operation
<1>8. CASE Create
  <2>1. CASE ConnectFails
    BY <1>8, <2>1, OpDone DEF Create, ConnectFails
  <2>2. CASE op' = [op EXCEPT !.at = "install", !.proc = generation] /\ UNCHANGED wanted
    BY <1>0, <1>8, <2>2, OpMoves DEF Create
  <2> QED BY <1>8, <2>1, <2>2 DEF Create
<1>9. CASE Handshake
  BY <1>0, <1>9 DEF Handshake, Operation
<1>10. CASE ClearAttempt
  BY <1>0, <1>10 DEF ClearAttempt, ConnectFails, NoOp, Holder
<1>11. CASE ApplyHandshake \/ ProbeEnds \/ ShutdownEnd
  BY <1>11 DEF ApplyHandshake, ProbeEnds, ShutdownEnd, NoOp, Holder
<1>12. CASE ShutdownStops
  BY <1>0, <1>12 DEF ShutdownStops, Operation
<1>13. CASE LoopStep \/ Environment \/ UNCHANGED vars
  BY <1>13 DEF LoopStep, HandleDisconnect, HandleViolation, LoopStops, LoopSchedules,
     Environment, ProcessCrashes, ProcessDies, StreamBreaks, vars
<1>14. CASE ScheduleRetry \/ (\E g \in Generations : TimerFires(g)) \/ Quit \/ ForceBegin \/ ForceEnd
  BY <1>14 DEF ScheduleRetry, TimerFires, Quit, ForceBegin, ForceEnd
<1>15. CASE ShutdownBegin
  BY <1>15 DEF ShutdownBegin, Holder
<1>16. CASE GracefulTimeout
  BY <1>16 DEF GracefulTimeout, NoOp, Holder
<1> QED BY <1>1, <1>2, <1>3, <1>4, <1>5, <1>6, <1>7, <1>8, <1>9, <1>10, <1>11, <1>12, <1>13,
           <1>14, <1>15, <1>16 DEF Next, OpStep

\* How a step of the holder of the lifecycle lock leaves op.
LEMMA Outline ==
  ASSUME op \in Operation, OpStep
  PROVE  /\ \/ op' = NoOp
            \/ op'.kind = op.kind
         /\ op'.at = "idle" => op' = NoOp
         /\ op'.at = "replace" => Revalidate /\ op'.proc = 0
         /\ op'.at = "stopOld" => Replace /\ op'.proc = runtime
         /\ op'.at = "resolve" => \/ Replace /\ op'.proc = runtime /\ runtime = 0
                                  \/ StopOld /\ op'.proc = 0
         /\ op'.at = "spawn" => (Resolve /\ op'.proc = op.proc) \/ (ClearAttempt /\ op'.proc = 0)
         /\ op'.at = "create" => Spawn /\ op'.proc = op.proc
         /\ op'.at = "install" => Create /\ op'.proc = generation
         /\ op'.at = "handshake" => Install /\ op'.proc = op.proc
         /\ op'.at \in {"apply", "undo"} => Handshake /\ op'.proc = op.proc
         /\ op'.at = "clear" => UndoAttempt /\ op'.proc = op.proc
         /\ op'.at = "end" => ShutdownStops /\ op'.proc = op.proc
         /\ op'.at \in {"idle", "replace", "stopOld", "resolve", "spawn", "create", "install",
                       "handshake", "apply", "undo", "clear", "end"}
<1>1. CASE Revalidate
  <2>1. CASE op' = NoOp
    BY <2>1, OpDone
  <2>2. CASE op' = [op EXCEPT !.at = "replace", !.proc = 0]
    <3>1. op'.kind = op.kind /\ op'.at = "replace" /\ op'.proc = 0
      BY <2>2, OpMoves
    <3> QED BY <1>1, <3>1
  <2> QED BY <1>1, <2>1, <2>2 DEF Revalidate
<1>2. CASE Replace
  <2> DEFINE at == IF runtime = 0 THEN "resolve" ELSE "stopOld"
  <2>1. op' = [op EXCEPT !.at = at, !.proc = runtime]
    BY <1>2 DEF Replace
  <2>2. op'.kind = op.kind /\ op'.at = at /\ op'.proc = runtime
    BY <2>1, OpMoves
  <2> QED BY <1>2, <2>2
<1>3. CASE StopOld
  <2>1. op'.kind = op.kind /\ op'.at = "resolve" /\ op'.proc = 0
    BY <1>3, OpMoves DEF StopOld
  <2> QED BY <1>3, <2>1
<1>4. CASE Resolve
  BY <1>4, OpDone DEF Resolve, ConnectFails, Operation
<1>5. CASE Spawn
  BY <1>5 DEF Spawn, Operation
<1>6. CASE Create
  <2>1. CASE op' = NoOp
    BY <2>1, OpDone
  <2>2. CASE op' = [op EXCEPT !.at = "install", !.proc = generation]
    <3>1. op'.kind = op.kind /\ op'.at = "install" /\ op'.proc = generation
      BY <2>2, OpMoves
    <3> QED BY <1>6, <3>1
  <2> QED BY <1>6, <2>1, <2>2 DEF Create, ConnectFails
<1>7. CASE Install
  BY <1>7 DEF Install, Operation
<1>8. CASE Handshake
  BY <1>8 DEF Handshake, Operation
<1>9. CASE UndoAttempt
  BY <1>9 DEF UndoAttempt, Operation
<1>10. CASE ClearAttempt
  <2>1. CASE op' = NoOp
    BY <2>1, OpDone
  <2>2. CASE op' = [Holder("connect", "spawn", 0) EXCEPT !.tries = op.tries + 1]
    <3>1. op'.kind = "connect" /\ op'.at = "spawn" /\ op'.proc = 0
      BY <2>2 DEF Holder
    <3> QED BY <1>10, <3>1 DEF ClearAttempt, At
  <2> QED BY <1>10, <2>1, <2>2 DEF ClearAttempt, ConnectFails
<1>11. CASE ShutdownStops
  BY <1>11 DEF ShutdownStops, Operation
<1>12. CASE ApplyHandshake \/ ProbeEnds \/ ShutdownEnd
  BY <1>12, OpDone DEF ApplyHandshake, ProbeEnds, ShutdownEnd
<1> QED BY <1>1, <1>2, <1>3, <1>4, <1>5, <1>6, <1>7, <1>8, <1>9, <1>10, <1>11, <1>12 DEF OpStep

\* And what it leaves alone.
LEMMA Frame ==
  ASSUME OpStep
  PROVE  /\ UNCHANGED <<stopping, loop, timers, fired, broken, signals, taken>>
         /\ generation' = generation \/ Spawn
         /\ runtime' \in {runtime, 0} \/ Install
         /\ expected' = expected \/ StopOld \/ UndoAttempt \/ ShutdownStops
BY DEF OpStep, Revalidate, Replace, StopOld, Resolve, Spawn, Create, Install, Handshake,
   ApplyHandshake, UndoAttempt, ClearAttempt, ProbeEnds, ShutdownStops, ShutdownEnd, StopTree

\* Every step works on a process that has been started.
LEMMA AgedStep == Inv /\ [Next]_vars => Aged'
<1> SUFFICES ASSUME Inv, [Next]_vars PROVE Aged'
  OBVIOUS
<1> USE DEF Aged
<1>0. /\ op \in Operation /\ loop \in LoopState /\ ConnType
      /\ Aged /\ Named /\ Current /\ RuntimeIsCurrent
  BY DEF Inv, TypeOK, CurrentInv, ReconnectInv, Current
<1>1. CASE AskConnect \/ RunRestart
  BY <1>0, <1>1 DEF AskConnect, RunRestart, ConnectBegin, NoOp, Holder, ConnType, RuntimeIsCurrent
<1>2. CASE AskProbe
  BY <1>0, <1>2 DEF AskProbe, Holder, ConnType, RuntimeIsCurrent, Named
<1>3. CASE OpStep
  <2>1. op' = NoOp => op'.proc = 0
    BY OpDone
  <2>2. op'.proc \in {0, op.proc, runtime, generation}
    BY <1>0, <1>3, <2>1, Outline
  <2>3. op.proc \in Generations /\ generation \in Generations /\ runtime <= generation
        /\ loop.proc \in Generations
    BY <1>0 DEF ConnType, RuntimeIsCurrent, Operation, LoopState
  <2>4. CASE Spawn
    <3>1. op'.at = "create" /\ op'.proc = op.proc /\ op.kind = "connect"
      BY <1>0, <2>4 DEF Spawn, Operation, At
    <3> QED BY <1>0, <2>3, <2>4, <3>1, Frame, <1>3 DEF Spawn, Named, Current
  <2>5. CASE ~Spawn
    <3>1. op'.proc <= generation' /\ generation' = generation /\ loop' = loop
      BY <1>0, <1>3, <2>2, <2>3, <2>5, Frame
    <3>2. CASE Install
      BY <1>0, <3>1, <3>2 DEF Install, At, Current, Operation
    <3>3. CASE ~Install
      <4>1. op'.at \in {"create", "install"} => op.at = "create"
        BY <1>0, <1>3, <2>5, Outline DEF Create, At
      <4> QED BY <1>0, <1>3, <3>1, <3>3, <4>1, Frame DEF Named
    <3> QED BY <3>2, <3>3
  <2> QED BY <2>4, <2>5
<1>4. ASSUME NEW s \in signals, HandleDisconnect(s) \/ HandleViolation(s) PROVE Aged'
  <2>1. CASE HandleDisconnect(s)
    BY <1>0, <2>1 DEF HandleDisconnect, Named
  <2>2. CASE HandleViolation(s)
    BY <1>0, <2>2 DEF HandleViolation, Effective, Named, Current, RuntimeIsCurrent, ConnType
  <2> QED BY <1>4, <2>1, <2>2
<1>5. CASE LoopStops
  BY <1>0, <1>5 DEF LoopStops, LoopState
<1>6. CASE LoopSchedules
  BY <1>0, <1>6 DEF LoopSchedules, IdleLoop
<1>7. CASE Environment \/ ScheduleRetry \/ (\E g \in Generations : TimerFires(g)) \/ UNCHANGED vars
  BY <1>0, <1>7 DEF Environment, ProcessCrashes, ProcessDies, StreamBreaks, ScheduleRetry,
     TimerFires, vars
<1>8. CASE Quit \/ ForceBegin \/ ForceEnd
  BY <1>0, <1>8 DEF Quit, ForceBegin, ForceEnd, Named
<1>9. CASE ShutdownBegin
  BY <1>0, <1>9 DEF ShutdownBegin, Holder, ConnType, RuntimeIsCurrent
<1>10. CASE GracefulTimeout
  BY <1>0, <1>10 DEF GracefulTimeout, NoOp, Holder, ConnType
<1> QED BY <1>1, <1>2, <1>3, <1>4, <1>5, <1>6, <1>7, <1>8, <1>9, <1>10 DEF Next, LoopStep

\* Every step leaves a wanted runtime Ready, or its handshake or its end ahead.
LEMMA InstalledStep == Inv /\ [Next]_vars => Installed'
<1> SUFFICES ASSUME Inv, [Next]_vars PROVE Installed'
  OBVIOUS
<1> USE DEF Installed
<1>0. op \in Operation /\ Installed /\ Current /\ Final /\ Kinds
  BY DEF Inv, TypeOK, CurrentInv, ReconnectInv
<1>1. CASE AskConnect \/ RunRestart
  <2>1. ConnectBegin /\ UNCHANGED <<runtime, ready, stopping>>
    BY <1>1 DEF AskConnect, RunRestart
  <2>2. ASSUME ~stopping, runtime # 0, op'.at # "replace" PROVE ready
    <3>1. op' = Holder("connect", "replace", 0) => op'.at = "replace"
      BY DEF Holder
    <3> QED BY Zenon, <2>1, <2>2, <3>1 DEF ConnectBegin
  <2> QED BY Zenon, <2>1, <2>2
<1>2. CASE AskProbe
  BY <1>2 DEF AskProbe
<1>3. CASE Revalidate
  BY <1>0, <1>3 DEF Revalidate, At
<1>4. CASE Replace \/ StopOld \/ Resolve \/ Spawn \/ Create \/ ClearAttempt \/ ProbeEnds
  <2>1. runtime' = 0
    BY <1>0, <1>4 DEF Replace, StopOld, Resolve, Spawn, Create, ClearAttempt, ProbeEnds, At, Current
  <2> QED BY <2>1
<1>5. CASE Install \/ Handshake \/ UndoAttempt
  <2>1. op'.at \in {"handshake", "apply", "undo", "clear"}
    BY <1>0, <1>5 DEF Install, Handshake, UndoAttempt, Operation
  <2> QED BY <2>1
<1>6. CASE ApplyHandshake
  BY <1>6 DEF ApplyHandshake
<1>7. CASE ShutdownStops \/ ShutdownEnd
  <2>1. stopping'
    BY <1>0, <1>7 DEF ShutdownStops, ShutdownEnd, At, Final
  <2> QED BY <2>1
<1>8. CASE LoopStep
  BY <1>0, <1>8 DEF LoopStep, HandleDisconnect, HandleViolation, LoopStops, LoopSchedules
<1>9. CASE Environment \/ ScheduleRetry \/ (\E g \in Generations : TimerFires(g)) \/ UNCHANGED vars
  BY <1>0, <1>9 DEF Environment, ProcessCrashes, ProcessDies, StreamBreaks, ScheduleRetry,
     TimerFires, vars
<1>10. CASE Quit \/ ForceBegin \/ ForceEnd \/ ShutdownBegin
  BY <1>0, <1>10 DEF Quit, ForceBegin, ForceEnd, ShutdownBegin
<1>11. CASE GracefulTimeout
  <2>1. op.kind = "shutdown" => stopping
    BY <1>0 DEF Final
  <2> QED BY <1>0, <1>11, <2>1 DEF GracefulTimeout
<1> QED BY <1>1, <1>2, <1>3, <1>4, <1>5, <1>6, <1>7, <1>8, <1>9, <1>10, <1>11 DEF Next, OpStep

\* No step but a failing attempt expects the end of the installed process.
LEMMA UnexpectedStep == Inv /\ [Next]_vars => Unexpected'
<1> SUFFICES ASSUME Inv, [Next]_vars, ~stopping' PROVE Unexpected'
  BY DEF Unexpected
<1> USE DEF Unexpected
<1>0. /\ op \in Operation /\ Unexpected /\ Named /\ Current /\ RuntimeIsCurrent /\ Final
      /\ Kinds /\ Aged
      /\ runtime \in Generations /\ generation \in Generations
      /\ 0 \notin expected
  BY DEF Inv, TypeOK, ConnType, ProcessType, CurrentInv, ReconnectInv, Current
<1>1. CASE AskConnect \/ RunRestart
  <2>1. op.at = "idle" /\ op'.at \in {"idle", "revalidate", "replace"}
    BY <1>1 DEF AskConnect, RunRestart, ConnectBegin, NoOp, Holder
  <2>2. UNCHANGED <<generation, runtime, stopping, expected>>
    BY <1>1 DEF AskConnect, RunRestart
  <2> QED BY <1>0, <2>1, <2>2
<1>2. CASE AskProbe
  BY <1>0, <1>2 DEF AskProbe, Holder
<1>3. CASE OpStep
  <2>0. ~stopping /\ stopping' = stopping
    BY <1>3, Frame
  <2>1. CASE StopOld \/ UndoAttempt \/ ShutdownStops
    <3>1. ~ShutdownStops
      BY <1>0, <2>0 DEF ShutdownStops, At, Final
    <3>2. CASE StopOld
      <4>1. op'.at = "resolve" /\ runtime' = 0 /\ generation' = generation
            /\ expected' = expected \union {op.proc}
        BY <1>0, <3>2, OpMoves DEF StopOld, StopTree, Current
      <4>2. op.proc # 0
        BY <1>0, <3>2 DEF StopOld, Named
      <4> QED BY <1>0, <2>0, <4>1, <4>2 DEF Aged, Operation
    <3>3. CASE UndoAttempt
      <4>1. op'.at = "clear" /\ runtime' = runtime /\ generation' = generation
            /\ expected' = expected \union {op.proc}
        BY <1>0, <3>3 DEF UndoAttempt, StopTree, Operation
      <4> QED BY <1>0, <2>0, <4>1 DEF Aged, Operation
    <3> QED BY <2>1, <3>1, <3>2, <3>3
  <2>2. CASE Spawn
    <3>1. /\ op'.at = "create" /\ runtime' = 0 /\ expected' = expected
          /\ generation' = generation + 1
      BY <1>0, <2>2 DEF Spawn, Operation, At, Current
    <3>2. expected \subseteq Processes
      BY DEF Inv, TypeOK, ProcessType
    <3> QED BY <1>0, <2>0, <3>1, <3>2
  <2>3. CASE Install
    <3>1. /\ op'.at = "handshake" /\ runtime' = generation
          /\ UNCHANGED <<expected, generation>> /\ op.at = "install"
      BY <1>0, <2>3 DEF Install, Operation, At, Current
    <3> QED BY <1>0, <2>0, <3>1
  <2>4. CASE ClearAttempt
    <3>1. runtime' = 0 /\ UNCHANGED <<generation, expected>>
      BY <1>0, <2>4 DEF ClearAttempt, At, Current
    <3>2. op'.at \notin {"create", "install"}
      BY <1>0, <1>3, <2>4, Outline DEF Spawn, Create, ClearAttempt, At
    <3> QED BY <1>0, <2>0, <3>1, <3>2
  <2>5. CASE ~(StopOld \/ UndoAttempt \/ ShutdownStops \/ Spawn \/ Install \/ ClearAttempt)
    <3>1. expected' = expected /\ generation' = generation /\ runtime' \in {runtime, 0}
      BY <1>3, <2>5, Frame
    <3>2. op'.at \in {"create", "install"} => op.at = "create"
      BY <1>0, <1>3, <2>5, Outline DEF Create, At
    <3>3. op.at # "clear"
      BY <1>3, <2>5 DEF OpStep, Revalidate, Replace, Resolve, Create, Handshake, ApplyHandshake,
         ProbeEnds, ShutdownEnd, At
    <3> QED BY <1>0, <2>0, <3>1, <3>2, <3>3
  <2> QED BY <2>1, <2>2, <2>3, <2>4, <2>5
<1>4. ASSUME NEW s \in signals, HandleDisconnect(s) \/ HandleViolation(s) PROVE Unexpected'
  <2>1. runtime' \in {runtime, 0} /\ UNCHANGED <<generation, stopping, op, expected>>
    BY <1>4 DEF HandleDisconnect, HandleViolation
  <2> QED BY <1>0, <2>1
<1>5. CASE LoopStops
  <2>1. /\ expected' = expected \union {loop.proc} /\ loop.proc # 0 /\ loop.proc # runtime
        /\ loop.proc <= generation /\ (op.at \in {"create", "install"} => loop.proc # generation)
        /\ UNCHANGED <<generation, runtime, stopping, op>>
    BY <1>0, <1>5 DEF LoopStops, StopTree, Aged, Named
  <2> QED BY <1>0, <2>1
<1>6. CASE LoopSchedules \/ Environment \/ ScheduleRetry \/ (\E g \in Generations : TimerFires(g))
           \/ UNCHANGED vars \/ Quit \/ ForceEnd
  BY <1>0, <1>6 DEF LoopSchedules, Environment, ProcessCrashes, ProcessDies, StreamBreaks,
     ScheduleRetry, TimerFires, vars, Quit, ForceEnd
<1>7. ~ForceBegin /\ ~ShutdownBegin
  BY DEF ForceBegin, ShutdownBegin
<1>8. CASE GracefulTimeout
  BY <1>0, <1>8 DEF GracefulTimeout, Final
<1> QED BY <1>1, <1>2, <1>3, <1>4, <1>5, <1>6, <1>7, <1>8 DEF Next, LoopStep

\* Every step leaves the end of an installed process to be heard of.
LEMMA HeardStep == Inv /\ [Next]_vars => Heard'
<1> SUFFICES ASSUME Inv, [Next]_vars, ~stopping', runtime' # 0, runtime' \in broken',
                    op'.at \notin {"handshake", "undo", "clear"}
             PROVE  \E s \in signals' : s.gen = runtime'
  BY DEF Heard
<1> DEFINE Told == \E s \in signals : s.gen = runtime
<1>0. /\ op \in Operation /\ Named /\ Current /\ RuntimeIsCurrent /\ Final /\ Unexpected
      /\ (~stopping /\ runtime # 0 /\ runtime \in broken
            /\ op.at \notin {"handshake", "undo", "clear"} => Told)
  BY DEF Inv, TypeOK, CurrentInv, ReconnectInv, Current, Heard
<1>1. CASE AskConnect \/ RunRestart
  <2>1. op.at = "idle" /\ UNCHANGED <<runtime, stopping, broken, signals>>
    BY <1>1 DEF AskConnect, RunRestart, ConnectBegin, NoOp, Holder
  <2> QED BY <1>0, <2>1
<1>2. ~AskProbe
  BY DEF AskProbe
<1>3. CASE OpStep
  <2>1. ~stopping /\ UNCHANGED <<stopping, broken, signals>>
    BY <1>3, Frame
  <2>2. CASE Install
    <3>1. op'.at = "handshake"
      BY <1>0, <2>2 DEF Install, Operation
    <3> QED BY <3>1
  <2>3. CASE Handshake
    <3>1. op'.at = "apply"
      BY <1>0, <2>3 DEF Handshake, Operation
    <3>2. op.proc \notin broken /\ runtime' = runtime /\ op.proc = generation
      BY <1>0, <2>3, <3>1 DEF Handshake, Operation, At, Current
    <3> QED BY <1>0, <2>1, <3>2 DEF RuntimeIsCurrent
  <2>4. CASE UndoAttempt
    <3>1. op'.at = "clear"
      BY <1>0, <2>4 DEF UndoAttempt, Operation
    <3> QED BY <3>1
  <2>5. CASE ClearAttempt
    BY <1>0, <2>5 DEF ClearAttempt, At, Current
  <2>6. CASE ~(Install \/ Handshake \/ UndoAttempt \/ ClearAttempt)
    <3>1. op.at \notin {"handshake", "undo", "clear"}
      BY <1>3, <2>6 DEF OpStep, Revalidate, Replace, StopOld, Resolve, Spawn, Create,
         ApplyHandshake, ProbeEnds, ShutdownStops, ShutdownEnd, At
    <3>2. runtime' = runtime
      BY <1>3, <2>6, Frame
    <3> QED BY <1>0, <2>1, <3>1, <3>2
  <2> QED BY <2>2, <2>3, <2>4, <2>5, <2>6
<1>4. ASSUME NEW s \in signals, HandleDisconnect(s) \/ HandleViolation(s)
      PROVE  \E t \in signals' : t.gen = runtime'
  <2>1. /\ runtime' = runtime /\ UNCHANGED <<stopping, op, broken>> /\ signals' = signals \ {s}
        /\ Effective(s) => runtime \in expected
    BY <1>4 DEF HandleDisconnect, HandleViolation, Take
  <2>2. ~Effective(s)
    BY <1>0, <2>1 DEF Unexpected, Effective
  <2>3. s.gen # runtime
    BY <1>0, <2>1, <2>2 DEF Effective, RuntimeIsCurrent
  <2> QED BY <1>0, <2>1, <2>3
<1>5. CASE LoopStops \/ LoopSchedules
  BY <1>0, <1>5 DEF LoopStops, StopTree, LoopSchedules
<1>6. CASE Environment
  <2>1. UNCHANGED <<runtime, stopping, op>>
    BY <1>6 DEF Environment, ProcessCrashes, ProcessDies, StreamBreaks
  <2>2. ASSUME NEW q \in Processes, ProcessCrashes(q) PROVE \E s \in signals' : s.gen = runtime'
    <3>1. CASE q \in broken
      BY <1>0, <2>1, <2>2, <3>1 DEF ProcessCrashes
    <3>2. CASE q \notin broken
      <4>1. signals \subseteq signals' /\ [m |-> "lost", gen |-> q] \in signals'
            /\ broken' = broken \union {q}
        BY <2>2, <3>2 DEF ProcessCrashes
      <4> QED BY <1>0, <2>1, <4>1
    <3> QED BY <3>1, <3>2
  <2>3. ASSUME NEW q \in Processes, ProcessDies(q) PROVE \E s \in signals' : s.gen = runtime'
    BY <1>0, <2>1, <2>3 DEF ProcessDies
  <2>4. ASSUME NEW q \in Processes, NEW k \in {"lost", "violation"}, StreamBreaks(q, k)
        PROVE  \E s \in signals' : s.gen = runtime'
    <3>1. signals \subseteq signals' /\ [m |-> k, gen |-> q] \in signals'
          /\ broken' = broken \union {q}
      BY <2>4 DEF StreamBreaks
    <3> QED BY <1>0, <2>1, <3>1
  <2> QED BY <1>6, <2>2, <2>3, <2>4 DEF Environment
<1>7. CASE ScheduleRetry \/ (\E g \in Generations : TimerFires(g)) \/ UNCHANGED vars \/ Quit
           \/ ForceEnd
  BY <1>0, <1>7 DEF ScheduleRetry, TimerFires, vars, Quit, ForceEnd
<1>8. ~ForceBegin /\ ~ShutdownBegin
  BY DEF ForceBegin, ShutdownBegin
<1>9. CASE GracefulTimeout
  BY <1>0, <1>9 DEF GracefulTimeout, Final
<1> QED BY <1>1, <1>2, <1>3, <1>4, <1>5, <1>6, <1>7, <1>8, <1>9 DEF Next, LoopStep

\* Every step that takes the runtime out leaves a restart behind.
LEMMA OwedStep == Inv /\ [Next]_vars => Owed'
<1> SUFFICES ASSUME Inv, [Next]_vars, ~stopping', wanted', runtime' = 0,
                    op'.at \in {"idle", "handshake", "apply"}
             PROVE  Pending'
  BY DEF Owed
<1>0. /\ op \in Operation /\ Named /\ Current /\ Final /\ Kinds
      /\ RestartType /\ generation \in Generations /\ loop \in LoopState
      /\ (~stopping /\ wanted /\ runtime = 0 /\ op.at \in {"idle", "handshake", "apply"} => Pending)
  BY DEF Inv, TypeOK, ConnType, CurrentInv, ReconnectInv, Owed
<1>1. ~AskConnect /\ ~RunRestart /\ ~AskProbe
  <2>1. ~AskProbe
    BY DEF AskProbe
  <2>2. ASSUME ConnectBegin, UNCHANGED stopping PROVE FALSE
    <3>1. op' = Holder("connect", "revalidate", runtime) \/ op' = Holder("connect", "replace", 0)
      BY <2>2 DEF ConnectBegin
    <3> QED BY <3>1 DEF Holder
  <2> QED BY <2>1, <2>2 DEF AskConnect, RunRestart
<1>2. CASE OpStep
  <2>1. ~stopping /\ UNCHANGED <<stopping, loop, timers, fired>>
    BY <1>2, Frame
  <2>2. CASE Revalidate
    <3>1. owed' = owed + 1
      BY <1>0, <1>2, <2>2, Outline DEF Revalidate, At, Named, Operation
    <3> QED BY <1>0, <3>1 DEF Pending, RestartType
  <2>3. CASE ConnectFails
    <3>1. owed' = owed + 1
      BY <2>3 DEF ConnectFails
    <3> QED BY <1>0, <3>1 DEF Pending, RestartType
  <2>4. ~Install
    BY <1>0 DEF Install, At, Named
  <2>5. CASE Handshake \/ ApplyHandshake
    <3>1. Pending /\ UNCHANGED <<generation, owed>>
      BY <1>0, <2>1, <2>5 DEF Handshake, ApplyHandshake, At
    <3> QED BY <2>1, <3>1 DEF Pending
  <2>6. ~ProbeEnds /\ ~ShutdownEnd
    BY <1>0, <2>1 DEF ProbeEnds, ShutdownEnd, At, Kinds, Final
  <2> QED BY <1>0, <1>2, <2>2, <2>3, <2>4, <2>5, <2>6, Outline DEF OpStep, Resolve, Create,
         ClearAttempt, Replace, StopOld, Spawn, UndoAttempt, ShutdownStops, Operation, Holder, At
<1>3. ASSUME NEW s \in signals, HandleDisconnect(s) \/ HandleViolation(s) PROVE Pending'
  <2>1. CASE runtime = 0
    <3>1. Pending /\ UNCHANGED <<generation, loop, restarts>>
      BY <1>0, <1>3, <2>1 DEF HandleDisconnect, HandleViolation, Effective
    <3> QED BY <3>1 DEF Pending
  <2>2. CASE runtime # 0
    <3>1. /\ generation' = generation
          /\ \/ loop' = [at |-> "schedule", proc |-> 0, gen |-> generation]
             \/ loop' = [at |-> "stopping", proc |-> runtime, gen |-> generation]
      BY <1>3, <2>2 DEF HandleDisconnect, HandleViolation
    <3> QED BY <3>1 DEF Pending
  <2> QED BY <2>1, <2>2
<1>4. CASE LoopStops
  <2>1. Pending /\ UNCHANGED <<generation, restarts>>
    BY <1>0, <1>4 DEF LoopStops
  <2>2. loop'.at = "schedule" /\ loop'.gen = loop.gen
    BY <1>0, <1>4 DEF LoopStops, LoopState
  <2> QED BY <2>1, <2>2 DEF Pending
<1>5. CASE LoopSchedules
  <2>1. Pending /\ UNCHANGED <<generation, fired, owed>>
    BY <1>0, <1>5 DEF LoopSchedules
  <2>2. timers' = [timers EXCEPT ![loop.gen] = @ + 1] /\ loop.gen \in Generations
    BY <1>0, <1>5 DEF LoopSchedules, LoopState
  <2> QED BY <1>0, <2>1, <2>2 DEF Pending, RestartType
<1>6. CASE ScheduleRetry
  <2>1. timers'[generation'] > 0
    BY <1>0, <1>6 DEF ScheduleRetry, RestartType
  <2> QED BY <2>1 DEF Pending
<1>7. ASSUME NEW g \in Generations, TimerFires(g) PROVE Pending'
  <2>1. Pending /\ UNCHANGED <<generation, owed, loop>> /\ runtime = 0 /\ ~stopping
    BY <1>0, <1>7 DEF TimerFires
  <2> QED BY <1>0, <1>7, <2>1 DEF Pending, TimerFires, RestartType
<1>8. CASE Environment \/ UNCHANGED vars \/ Quit \/ ForceEnd
  BY <1>0, <1>8 DEF Environment, ProcessCrashes, ProcessDies, StreamBreaks, vars, Quit, ForceEnd,
     Pending
<1>9. ~ForceBegin /\ ~ShutdownBegin
  BY DEF ForceBegin, ShutdownBegin
<1>10. CASE GracefulTimeout
  BY <1>0, <1>10 DEF GracefulTimeout, Final, Pending
<1> QED BY <1>1, <1>2, <1>3, <1>4, <1>5, <1>6, <1>7, <1>8, <1>9, <1>10 DEF Next, LoopStep

\* A connection that is wanted and not there is somebody's to bring back, until
\* the shutdown begins: what the signal loop, the failed connects and the restart
\* timers hand to one another is never dropped between them.
THEOREM SomeoneReconnectsHolds == Spec => []SomeoneReconnects
<1>1. Inv => SomeoneReconnects
  <2> SUFFICES ASSUME Inv, wanted, ~stopping, op.kind # "connect", ~Pending PROVE Up
    BY DEF SomeoneReconnects, Pending
  <2>1. op.kind = "none" /\ op.at = "idle"
    BY DEF Inv, TypeOK, Operation, CurrentInv, Final, ReconnectInv, Kinds
  <2>2. runtime # 0
    BY <2>1 DEF Inv, ReconnectInv, Owed
  <2> QED BY <2>1, <2>2 DEF Inv, ReconnectInv, Installed, Heard, Up
<1>2. Inv /\ [Next]_vars => Inv'
  BY TypeStep, CurrentStep, KindsStep, AgedStep, InstalledStep, UnexpectedStep, HeardStep,
     OwedStep DEF Inv, ReconnectInv, CurrentInv
<1>3. Init => Inv
  BY TypeInit, CurrentInit, ReconnectInit DEF Inv
<1> QED BY <1>1, <1>2, <1>3, PTL DEF Spec

\* Both hold of every run of the supervisor.
THEOREM ConnectionIsKeptHolds == Spec => []ConnectionIsKept
BY RuntimeIsCurrentHolds, SomeoneReconnectsHolds, PTL DEF ConnectionIsKept

-----------------------------------------------------------------------------
(* Every replacement has its cause.                                        *)

\* The process that was started last is good, and in the hands of who is to use
\* it: about to be started or installed, in its handshake, or installed, Ready and
\* not being taken down.
InHand ==
  \/ op.at = "create"
  \/ /\ generation # 0 /\ proc[generation] = "live" /\ generation \notin broken
     /\ \/ op.at = "install"
        \/ /\ runtime = generation /\ op.at \notin {"replace", "undo", "clear"}
           /\ ready \/ op.at \in {"handshake", "apply"}

\* Beside the first one, every process that was started is accounted for by a
\* fault, a probe or a handshake in vain; one more is, unless the last process is in
\* hand.
Paid == ~stopping => generation + (IF InHand THEN 0 ELSE 1) <= 1 + faults + probes + unusable

\* What the signal loop reads, or stops a process for, went wrong, and nothing goes
\* wrong with a process before it is started; a connect that looks at a connection
\* again looks at the installed one.
Blamed ==
  /\ \A p \in Processes : proc[p] = "none" => p \notin broken
  /\ \A p \in Processes : p > generation => proc[p] = "none"
  /\ op.at = "create" => proc[generation] = "none"
  /\ \A s \in signals : s.gen \in broken
  /\ loop.proc # 0 => loop.proc \in broken
  /\ op.at = "revalidate" => runtime \in {0, op.proc}

\* Before the first connect nothing has gone wrong, and nothing was started.
LEMMA PaidInit == Init => Blamed /\ Paid
BY DEF Init, Blamed, Paid, InHand, NoOp, Holder, IdleLoop

\* What a step of the holder of the lifecycle lock does to the processes.
LEMMA Treats ==
  ASSUME TypeOK, OpStep
  PROVE  \/ proc' = proc
         \/ (Revalidate \/ ApplyHandshake) /\ proc' = Dropped(op.proc, {runtime, loop.proc, taken})
         \/ Create /\ proc' = [proc EXCEPT ![generation] = "live"]
         \/ (StopOld \/ UndoAttempt \/ ShutdownStops) /\ StopTree(op.proc)
<1>1. CASE Revalidate \/ ApplyHandshake
  BY <1>1 DEF Revalidate, ApplyHandshake
<1>2. CASE Create
  BY <1>2 DEF Create
<1>3. CASE StopOld \/ UndoAttempt \/ ShutdownStops
  BY <1>3 DEF StopOld, UndoAttempt, ShutdownStops
<1>4. CASE Replace \/ Resolve \/ Spawn
  BY <1>4 DEF Replace, Resolve, Spawn
<1>5. CASE Install \/ Handshake \/ ClearAttempt
  BY Zenon, <1>5 DEF Install, Handshake, ClearAttempt, process
<1>6. CASE ProbeEnds \/ ShutdownEnd
  BY <1>6 DEF ProbeEnds, ShutdownEnd
<1> QED BY <1>1, <1>2, <1>3, <1>4, <1>5, <1>6 DEF OpStep

\* Stopping a process, or dropping it, changes that process only, and starts none.
LEMMA Stopped ==
  ASSUME TypeOK, NEW p \in Generations, NEW owners,
         proc' = Dropped(p, owners) \/ (p # 0 /\ StopTree(p))
  PROVE  /\ \A q \in Processes : q # p => proc'[q] = proc[q]
         /\ \A q \in Processes : proc'[q] = "none" => proc[q] = "none"
         /\ \A q \in Processes : proc'[q] = "live" => proc[q] = "live"
         /\ proc' = Dropped(p, owners) /\ p \in owners => \A q \in Processes : proc'[q] = proc[q]
         /\ proc' = Dropped(p, owners) => \A q \in Processes : proc[q] = "none" => proc'[q] = "none"
<1>1. CASE proc' = Dropped(p, owners)
  BY <1>1 DEF Dropped, TypeOK, ProcessType
<1>2. CASE p # 0 /\ StopTree(p) /\ proc' # Dropped(p, owners)
  BY <1>2 DEF StopTree, TypeOK, ProcessType
<1> QED BY <1>1, <1>2

\* Every step leaves the blame where it belongs.
LEMMA BlamedStep == Inv /\ Blamed /\ [Next]_vars => Blamed'
<1> SUFFICES ASSUME Inv, Blamed, [Next]_vars PROVE Blamed'
  OBVIOUS
<1> USE DEF Blamed
<1>0. /\ op \in Operation /\ loop \in LoopState /\ TypeOK /\ ProcessType
      /\ runtime \in Generations /\ generation \in Generations
      /\ Aged /\ Named /\ Current /\ RuntimeIsCurrent /\ Kinds
  BY DEF Inv, TypeOK, ConnType, CurrentInv, ReconnectInv, Current
<1>1. CASE AskConnect \/ RunRestart
  BY <1>0, <1>1 DEF AskConnect, RunRestart, ConnectBegin, NoOp, Holder
<1>2. CASE AskProbe
  BY <1>0, <1>2 DEF AskProbe, Holder
<1>3. CASE OpStep
  <2>0. UNCHANGED <<loop, broken, signals>>
    BY <1>3, Frame
  <2>1. op'.at # "revalidate"
    <3>1. op' = NoOp => op'.at # "revalidate"
      BY OpDone
    <3> QED BY <1>0, <1>3, <3>1, Outline
  <2>2. CASE Spawn
    <3>1. /\ generation' = generation + 1 /\ generation' \in Processes /\ proc' = proc
      BY <1>0, <2>2 DEF Spawn
    <3> QED BY <1>0, <2>0, <2>1, <3>1
  <2>3. CASE ~Spawn
    <3>1. generation' = generation
      BY <1>3, <2>3, Frame
    <3>2. op'.at # "create"
      BY <1>0, <1>3, <2>3, Outline
    <3>3. ASSUME \A q \in Processes : proc'[q] = "none" => proc[q] = "none",
                 \A q \in Processes : q > generation => proc'[q] = proc[q]
          PROVE  Blamed'
      BY <2>0, <2>1, <3>1, <3>2, <3>3
    <3>4. CASE proc' = proc
      BY <3>3, <3>4
    <3>5. CASE (Revalidate \/ ApplyHandshake) /\ proc' = Dropped(op.proc, {runtime, loop.proc, taken})
      <4>1. op.proc \in Generations /\ op.proc <= generation
        BY <1>0, OpFields DEF Aged
      <4> QED BY <1>0, <3>3, <3>5, <4>1, Stopped
    <3>6. CASE Create /\ proc' = [proc EXCEPT ![generation] = "live"]
      BY <1>0, <3>3, <3>6 DEF ProcessType
    <3>7. CASE (StopOld \/ UndoAttempt \/ ShutdownStops) /\ StopTree(op.proc)
      <4>1. op.proc \in Generations /\ op.proc <= generation /\ op.proc # 0
        BY <1>0, <3>7, OpFields DEF Aged, Named, StopOld, UndoAttempt, ShutdownStops, At
      <4> QED BY <1>0, <3>3, <3>7, <4>1, Stopped
    <3> QED BY <1>0, <1>3, <3>4, <3>5, <3>6, <3>7, Treats
  <2> QED BY <2>2, <2>3
<1>4. ASSUME NEW s \in signals, HandleDisconnect(s) PROVE Blamed'
  <2>1. /\ UNCHANGED <<generation, broken, op>> /\ signals' \subseteq signals
        /\ runtime' \in {runtime, 0} /\ loop'.proc \in {0, loop.proc}
        /\ proc' = proc \/ (runtime # 0 /\ proc' = Dropped(runtime, {op.proc, taken}))
    BY <1>4 DEF HandleDisconnect, Take, Effective
  <2>2. CASE proc' = proc
    BY <2>1, <2>2
  <2>3. CASE runtime # 0 /\ proc' = Dropped(runtime, {op.proc, taken})
    <3>1. \A q \in Processes : proc[q] = "none" <=> proc'[q] = "none"
      BY <1>0, <2>3, Stopped
    <3>2. op.at = "create" => generation \in Processes
      BY <1>0 DEF Current
    <3> QED BY <2>1, <3>1, <3>2
  <2> QED BY <2>1, <2>2, <2>3
<1>5. ASSUME NEW s \in signals, HandleViolation(s) PROVE Blamed'
  <2>1. /\ UNCHANGED <<generation, proc, broken, op>> /\ signals' \subseteq signals
        /\ runtime' \in {runtime, 0}
        /\ loop'.proc = loop.proc \/ (loop'.proc = runtime /\ Effective(s))
    BY <1>5 DEF HandleViolation, Take
  <2>2. Effective(s) => runtime \in broken
    BY <1>0 DEF Effective, RuntimeIsCurrent
  <2> QED BY <2>1, <2>2
<1>6. CASE LoopStops
  <2>1. /\ UNCHANGED <<generation, runtime, op, broken, signals>> /\ loop'.proc = 0
        /\ StopTree(loop.proc) /\ loop.proc # 0 /\ loop.proc <= generation
        /\ loop.proc \in Generations /\ loop.proc \in broken
    BY <1>0, <1>6 DEF LoopStops, StopTree, Aged, Named, LoopState
  <2>2. \A q \in Processes : q # loop.proc => proc'[q] = proc[q]
    BY <1>0, <2>1, Stopped
  <2>3. \A q \in Processes : proc'[q] = "none" => proc[q] = "none"
    BY <1>0, <2>1, Stopped
  <2>4. op.at = "create" => proc'[generation] = "none"
    BY <1>0, <2>1, <2>2 DEF Current
  <2> QED BY <1>0, <2>1, <2>2, <2>3, <2>4
<1>7. CASE LoopSchedules \/ ScheduleRetry \/ (\E g \in Generations : TimerFires(g)) \/ UNCHANGED vars
           \/ Quit \/ ForceEnd
  BY <1>0, <1>7 DEF LoopSchedules, IdleLoop, ScheduleRetry, TimerFires, vars, Quit, ForceEnd
<1>8. CASE ForceBegin
  <2>1. /\ UNCHANGED <<generation, op, broken, signals, loop>> /\ runtime' = 0
        /\ proc' = proc \/ (runtime # 0 /\ proc' = Dropped(runtime, {}))
    BY <1>8 DEF ForceBegin
  <2>2. CASE proc' = proc
    BY <2>1, <2>2
  <2>3. CASE runtime # 0 /\ proc' = Dropped(runtime, {})
    <3>1. \A q \in Processes : proc[q] = "none" <=> proc'[q] = "none"
      BY <1>0, <2>3, Stopped
    <3>2. op.at = "create" => generation \in Processes
      BY <1>0 DEF Current
    <3> QED BY <2>1, <3>1, <3>2
  <2> QED BY <2>1, <2>2, <2>3
<1>9. CASE ShutdownBegin
  BY <1>0, <1>9 DEF ShutdownBegin, Holder
<1>10. CASE GracefulTimeout
  BY <1>0, <1>10 DEF GracefulTimeout, NoOp, Holder
<1>11. CASE Environment
  <2>0. UNCHANGED <<conn, op, loop>>
    BY <1>11 DEF Environment, ProcessCrashes, ProcessDies, StreamBreaks
  <2>1. ASSUME NEW p \in Processes, ProcessCrashes(p) PROVE Blamed'
    <3>1. /\ proc[p] = "live" /\ proc' = [proc EXCEPT ![p] = "exited"]
          /\ broken' = broken \union {p}
          /\ \A s \in signals' : s \in signals \/ s.gen = p
      BY <2>1 DEF ProcessCrashes
    <3> QED BY <1>0, <2>0, <3>1 DEF ProcessType
  <2>2. ASSUME NEW p \in Processes, ProcessDies(p) PROVE Blamed'
    BY <1>0, <2>0, <2>2 DEF ProcessDies, ProcessType
  <2>3. ASSUME NEW p \in Processes, NEW m \in {"lost", "violation"}, StreamBreaks(p, m)
        PROVE  Blamed'
    BY <1>0, <2>0, <2>3 DEF StreamBreaks
  <2> QED BY <1>11, <2>1, <2>2, <2>3 DEF Environment
<1> QED BY <1>1, <1>2, <1>3, <1>4, <1>5, <1>6, <1>7, <1>8, <1>9, <1>10, <1>11 DEF Next, LoopStep

\* A step that starts no process keeps the account, if it leaves the process in
\* hand where it was or has a cause of its own.
LEMMA Charged ==
  ASSUME TypeOK, Paid, generation' = generation, stopping' = stopping,
         \/ UNCHANGED <<faults, probes, unusable>> /\ (InHand => InHand')
         \/ faults' = faults + 1 /\ UNCHANGED <<probes, unusable>>
         \/ probes' = probes + 1 /\ UNCHANGED <<faults, unusable>>
         \/ unusable' = unusable + 1 /\ UNCHANGED <<faults, probes>>
  PROVE  Paid'
<1>1. /\ generation \in Nat /\ faults \in Nat /\ probes \in Nat /\ unusable \in Nat
  BY DEF TypeOK, ConnType, CountType
<1>2. SUFFICES ASSUME ~stopping
               PROVE  generation' + (IF InHand' THEN 0 ELSE 1) <= 1 + faults' + probes' + unusable'
  BY DEF Paid
<1>3. generation + (IF InHand THEN 0 ELSE 1) <= 1 + faults + probes + unusable
  BY <1>2 DEF Paid
<1> DEFINE h == IF InHand THEN 0 ELSE 1
           g == IF InHand' THEN 0 ELSE 1
<1>4. h \in 0..1 /\ g \in 0..1 /\ ((InHand => InHand') => g <= h)
  OBVIOUS
<1>5. generation + h <= 1 + faults + probes + unusable
  BY <1>3
<1> SUFFICES generation' + g <= 1 + faults' + probes' + unusable'
  OBVIOUS
<1> HIDE DEF h, g
<1> QED BY <1>1, <1>4, <1>5

\* A step that changes neither the process in hand nor where it is keeps it so.
LEMMA Holds ==
  ASSUME UNCHANGED <<generation, runtime, ready, op, broken>>,
         generation # 0 => proc'[generation] = proc[generation],
         InHand
  PROVE  InHand'
BY DEF InHand

\* Every step keeps the account of the processes.
LEMMA PaidStep == Inv /\ Blamed /\ Paid /\ [Next]_vars => Paid'
<1> SUFFICES ASSUME Inv, Blamed, Paid, [Next]_vars, ~stopping' PROVE Paid'
  BY DEF Paid
<1>0. /\ op \in Operation /\ loop \in LoopState /\ TypeOK /\ ProcessType
      /\ runtime \in Generations /\ generation \in Generations
      /\ Aged /\ Named /\ Current /\ RuntimeIsCurrent /\ Kinds /\ Installed /\ Final
  BY DEF Inv, TypeOK, ConnType, CurrentInv, ReconnectInv, Current
<1>1. CASE AskConnect \/ RunRestart
  <2>1. /\ UNCHANGED <<generation, runtime, ready, stopping, proc, broken, faults, probes,
                       unusable>>
        /\ op = NoOp
        /\ op'.at \in {"idle", "revalidate"} \/ (op'.at = "replace" /\ (runtime = 0 \/ ~ready))
    BY <1>1 DEF AskConnect, RunRestart, ConnectBegin, NoOp, Holder
  <2>2. op.at = "idle"
    BY <2>1 DEF NoOp, Holder
  <2>3. InHand => InHand'
    BY <1>0, <2>1, <2>2 DEF InHand
  <2> QED BY <1>0, <2>1, <2>3, Charged
<1>2. CASE AskProbe
  <2>1. UNCHANGED <<generation, stopping, faults, unusable>> /\ probes' = probes + 1
    BY <1>2 DEF AskProbe
  <2> QED BY <1>0, <2>1, Charged
<1>3. CASE OpStep
  <2>0. ~stopping /\ UNCHANGED <<stopping, loop, broken>>
    BY <1>3, Frame
  <2>1. CASE Spawn
    <3>1. ~InHand
      BY <1>0, <2>1 DEF Spawn, At, Current, InHand
    <3>2. generation + 1 <= 1 + faults + probes + unusable
      BY <2>0, <3>1 DEF Paid
    <3>3. InHand' /\ generation' = generation + 1 /\ UNCHANGED <<faults, probes, unusable>>
      BY <1>0, <2>1 DEF Spawn, InHand, Operation
    <3> QED BY <3>2, <3>3, <1>0 DEF Paid, TypeOK, CountType
  <2>2. CASE ~Spawn /\ faults' = faults + 1 /\ UNCHANGED <<probes, unusable>>
    BY <1>0, <1>3, <2>0, <2>2, Frame, Charged
  <2>3. CASE ~Spawn /\ UNCHANGED <<faults, probes, unusable>>
    <3>0. generation' = generation
      BY <1>3, <2>3, Frame
    <3>1. SUFFICES ASSUME InHand PROVE InHand'
      BY <1>0, <2>0, <2>3, <3>0, Charged
    <3>2. CASE Revalidate
      <4>1. runtime = op.proc /\ generation = runtime /\ proc[generation] = "live" /\ runtime # 0
            /\ generation \notin broken /\ ready
        BY <1>0, <3>1, <3>2 DEF Revalidate, At, InHand, Blamed
      <4>2. op' = NoOp /\ UNCHANGED <<runtime, ready>>
        BY <2>3, <3>2, <4>1, <1>0 DEF Revalidate, Fault, TypeOK, CountType
      <4>3. proc'[generation] = proc[generation]
        <5>1. proc' = Dropped(op.proc, {runtime, loop.proc, taken})
          BY <3>2 DEF Revalidate
        <5>2. op.proc \in {runtime, loop.proc, taken} /\ op.proc \in Generations
          BY <1>0, <4>1
        <5>3. \A q \in Processes : proc'[q] = proc[q]
          BY <1>0, <5>1, <5>2, Stopped
        <5> QED BY <1>0, <4>1, <5>3
      <4> QED BY <2>0, <3>0, <4>1, <4>2, <4>3, OpDone DEF InHand
    <3>3. CASE Create
      <4>1. proc' = [proc EXCEPT ![generation] = "live"]
            /\ op' = [op EXCEPT !.at = "install", !.proc = generation]
        BY <1>0, <2>3, <3>3 DEF Create, Fault, TypeOK, CountType
      <4>2. op'.kind = op.kind /\ op'.at = "install" /\ op'.proc = generation
        <5>1. op \in Operation
          BY <1>0
        <5>2. op' = [op EXCEPT !.at = "install", !.proc = generation]
          BY <4>1
        <5> QED BY <5>1, <5>2 DEF Operation
      <4>3. generation \in Processes /\ proc[generation] = "none"
        BY <1>0, <3>3 DEF Create, At, Current, Blamed
      <4> QED BY <1>0, <2>0, <3>0, <4>1, <4>2, <4>3 DEF InHand, Blamed, ProcessType
    <3>4. CASE Install
      <4>1. op'.at = "handshake" /\ runtime' = generation /\ proc' = proc
        BY <1>0, <3>4 DEF Install, Operation, At, Current
      <4>2. op.at = "install"
        BY <3>4 DEF Install, At
      <4> QED BY <2>0, <3>0, <3>1, <4>1, <4>2 DEF InHand
    <3>5. CASE Handshake
      <4>1. op.proc = generation /\ op.at = "handshake"
        <5>1. op.at = "handshake"
          BY Zenon, <3>5 DEF Handshake, At
        <5> QED BY <1>0, <5>1 DEF Current
      <4>2. proc[generation] = "live" /\ generation \notin broken /\ runtime = generation
            /\ generation # 0
        BY <3>1, <4>1 DEF InHand
      <4>3. loop.proc # generation
        BY <4>2 DEF Blamed
      <4>4. faults' # faults + 1
        BY <1>0, <2>3 DEF TypeOK, CountType
      <4>5. op' = [op EXCEPT !.at = "apply"] /\ UNCHANGED <<runtime, proc>>
        <5>1. UNCHANGED <<runtime, proc>>
          BY Zenon, <3>5 DEF Handshake, conn, process
        <5>2. \/ op' = [op EXCEPT !.at = "apply"]
              \/ proc[op.proc] # "live" \/ op.proc \in broken \/ loop.proc = op.proc
              \/ faults' = faults + 1
          BY Zenon, <3>5 DEF Handshake, Fault
        <5> QED BY <4>1, <4>2, <4>3, <4>4, <5>1, <5>2
      <4> QED BY <1>0, <2>0, <3>0, <4>2, <4>5 DEF InHand, Operation
    <3>6. CASE ApplyHandshake
      <4>1. runtime = generation /\ op.proc = generation /\ generation # 0
            /\ proc[generation] = "live" /\ generation \notin broken
        BY <1>0, <3>1, <3>6 DEF ApplyHandshake, At, Current, InHand
      <4>2. proc'[generation] = proc[generation] /\ op' = NoOp /\ runtime' = runtime
        BY <1>0, <3>6, <4>1, Stopped, OpFields DEF ApplyHandshake
      <4>3. ready'
        <5>1. unusable' # unusable + 1
          BY <2>3, <1>0 DEF TypeOK, CountType
        <5> QED BY Zenon, <3>6, <5>1 DEF ApplyHandshake
      <4> QED BY <2>0, <3>0, <4>1, <4>2, <4>3, OpDone DEF InHand
    <3>7. ~(Replace \/ StopOld \/ Resolve \/ UndoAttempt \/ ClearAttempt \/ ProbeEnds)
      BY <1>0, <3>1 DEF Replace, StopOld, Resolve, UndoAttempt, ClearAttempt, ProbeEnds, At,
         Current, InHand
    <3>8. ~(ShutdownStops \/ ShutdownEnd)
      BY <1>0, <2>0 DEF ShutdownStops, ShutdownEnd, At, Final
    <3> QED BY <1>3, <2>3, <3>2, <3>3, <3>4, <3>5, <3>6, <3>7, <3>8 DEF OpStep
  <2>4. CASE ~Spawn /\ unusable' = unusable + 1 /\ UNCHANGED <<faults, probes>>
    BY <1>0, <1>3, <2>0, <2>4, Frame, Charged
  <2>5. /\ UNCHANGED probes
        /\ \/ UNCHANGED unusable /\ (UNCHANGED faults \/ faults' = faults + 1)
           \/ unusable' = unusable + 1 /\ UNCHANGED faults
    <3>1. CASE Revalidate \/ Handshake
      BY Zenon, <3>1 DEF Revalidate, Handshake, Fault
    <3>2. CASE Resolve \/ Create
      BY <3>2 DEF Resolve, Create, Fault
    <3>3. CASE Replace \/ StopOld \/ Spawn \/ Install \/ ApplyHandshake \/ UndoAttempt
               \/ ClearAttempt \/ ProbeEnds \/ ShutdownStops \/ ShutdownEnd
      BY <3>3 DEF Replace, StopOld, Spawn, Install, ApplyHandshake, UndoAttempt, ClearAttempt,
         ProbeEnds, ShutdownStops, ShutdownEnd
    <3> QED BY <1>3, <3>1, <3>2, <3>3 DEF OpStep
  <2> QED BY <2>1, <2>2, <2>3, <2>4, <2>5
<1>4. ASSUME NEW s \in signals, HandleDisconnect(s) \/ HandleViolation(s) PROVE Paid'
  <2>1. UNCHANGED <<generation, stopping, op, broken, faults, probes, unusable>>
    BY <1>4 DEF HandleDisconnect, HandleViolation
  <2>2. CASE Effective(s)
    <3>1. runtime = generation /\ generation \in broken /\ runtime # 0
      BY <1>0, <2>2 DEF Effective, RuntimeIsCurrent, Blamed
    <3>2. ~InHand
      BY <1>0, <3>1 DEF InHand, Current
    <3> QED BY <1>0, <2>1, <3>2, Charged
  <2>3. CASE ~Effective(s)
    <3>1. UNCHANGED <<runtime, ready, proc>>
      BY <1>4, <2>3 DEF HandleDisconnect, HandleViolation
    <3> QED BY <1>0, <2>1, <3>1, Holds, Charged
  <2> QED BY <2>2, <2>3
<1>5. CASE LoopStops
  <2>1. /\ UNCHANGED <<generation, runtime, ready, stopping, op, broken, faults, probes, unusable>>
        /\ StopTree(loop.proc) /\ loop.proc # 0 /\ loop.proc \in Generations
        /\ loop.proc \in broken
    BY <1>0, <1>5 DEF LoopStops, StopTree, Named, LoopState, Blamed
  <2>2. \A q \in Processes : q # loop.proc => proc'[q] = proc[q]
    BY <1>0, <2>1, Stopped
  <2>3. InHand => InHand'
    BY <1>0, <2>1, <2>2 DEF InHand
  <2> QED BY <1>0, <2>1, <2>3, Charged
<1>6. CASE LoopSchedules \/ ScheduleRetry \/ (\E g \in Generations : TimerFires(g)) \/ UNCHANGED vars
           \/ Quit \/ ForceEnd
  <2>1. UNCHANGED <<generation, runtime, ready, stopping, op, proc, broken, faults, probes,
                    unusable>>
    BY <1>6 DEF LoopSchedules, ScheduleRetry, TimerFires, vars, Quit, ForceEnd
  <2> QED BY <1>0, <2>1, Holds, Charged
<1>7. ~ForceBegin /\ ~ShutdownBegin
  BY DEF ForceBegin, ShutdownBegin
<1>8. CASE GracefulTimeout
  <2>1. UNCHANGED <<generation, runtime, ready, stopping, proc, broken, faults, probes, unusable>>
    BY <1>8 DEF GracefulTimeout
  <2>2. op' = op
    BY <1>0, <1>8, <2>1 DEF GracefulTimeout, Final
  <2> QED BY <1>0, <2>1, <2>2, Holds, Charged
<1>9. CASE Environment
  <2>0. UNCHANGED <<generation, runtime, ready, stopping, op, probes, unusable>>
    BY <1>9 DEF Environment, ProcessCrashes, ProcessDies, StreamBreaks
  <2>1. CASE faults' = faults + 1
    BY <1>0, <2>0, <2>1, Charged
  <2>2. ASSUME NEW p \in Processes, ProcessDies(p) PROVE Paid'
    <3>1. proc[p] = "killed" /\ proc' = [proc EXCEPT ![p] = "exited"]
          /\ UNCHANGED <<broken, faults>>
      BY <2>2 DEF ProcessDies
    <3>2. InHand => InHand'
      BY <1>0, <2>0, <3>1 DEF InHand, ProcessType
    <3> QED BY <1>0, <2>0, <3>1, <3>2, Charged
  <2> QED BY <1>9, <2>1, <2>2 DEF Environment, ProcessCrashes, StreamBreaks, Fault
<1> QED BY <1>1, <1>2, <1>3, <1>4, <1>5, <1>6, <1>7, <1>8, <1>9 DEF Next, LoopStep

\* Until the shutdown, a process beside the first one is only started for a fault
\* or a probe that cost the connection one, or a handshake with a server that cannot be
\* worked with: two restarts that are left behind, or
\* a timer that fires while a connect is at work, start none in addition.
THEOREM OneReplacementHolds == Spec => []OneReplacement
<1> DEFINE All == Inv /\ Blamed /\ Paid
<1>1. Init => All
  BY TypeInit, CurrentInit, ReconnectInit, PaidInit DEF Inv
<1>2. All /\ [Next]_vars => All'
  <2>1. Inv /\ [Next]_vars => Inv'
    BY TypeStep, CurrentStep, KindsStep, AgedStep, InstalledStep, UnexpectedStep, HeardStep,
       OwedStep DEF Inv, ReconnectInv, CurrentInv
  <2> QED BY <2>1, BlamedStep, PaidStep
<1>3. All => OneReplacement
  <2> SUFFICES ASSUME All, ~stopping PROVE generation <= 1 + faults + probes + unusable
    BY DEF OneReplacement
  <2>1. generation \in Nat /\ faults \in Nat /\ probes \in Nat /\ unusable \in Nat
    BY DEF Inv, TypeOK, ConnType, CountType
  <2>2. generation + (IF InHand THEN 0 ELSE 1) <= 1 + faults + probes + unusable
    BY DEF Paid
  <2>3. CASE InHand
    BY <2>1, <2>2, <2>3
  <2>4. CASE ~InHand
    BY <2>1, <2>2, <2>4
  <2> QED BY <2>3, <2>4
<1> HIDE DEF All
<1> QED BY <1>1, <1>2, <1>3, PTL DEF Spec
=============================================================================
