------------------------- MODULE AppLifecycleProofs -------------------------
(* Proofs about AppLifecycle, for every set of requests, closers and task   *)
(* slots and every bound on the attempts.                                   *)
EXTENDS AppLifecycle, TLAPS

USE DEF coordinator, history

-----------------------------------------------------------------------------
(* Types.                                                                  *)

\* The order visits each component once, and nothing else.
LEMMA OrderFacts ==
  /\ Len(Order) = 4
  /\ \A i \in 1..4 : Order[i] \in Components
  /\ \A c \in Components : \E i \in 1..4 : Order[i] = c
  /\ \A i, j \in 1..4 : Order[i] = Order[j] => i = j
BY DEF Order, Components

\* The empty report, with which a shutdown starts, is a report.
LEMMA NoReportType == NoReport \in Reports
BY DEF NoReport, Reports, Outcome

\* A task slot without a task is typed.
LEMMA IdleType == Idle \in Tasks
BY AppLifecycleAssumption, OrderFacts, NoReportType DEF Idle, Tasks

\* A new shutdown task is well typed.
LEMMA SpawnType ==
  ASSUME TypeOK,
         NEW r \in Requests, NEW n \in 0..MaxAttempt, NEW rep \in Reports,
         NEW fresh \in BOOLEAN, SpawnShutdown(r, n, rep, fresh)
  PROVE  task' \in [TaskSlots -> Tasks] /\ gracefulRuns' \in Nat
<1>1. PICK s \in TaskSlots :
        /\ task' = [task EXCEPT ![s] =
             [stage |-> IF fresh THEN "graceful" ELSE "force", req |-> r,
              attempt |-> n, at |-> 1, ok |-> TRUE, report |-> rep]]
        /\ gracefulRuns' = IF fresh THEN gracefulRuns + 1 ELSE gracefulRuns
  BY DEF SpawnShutdown
<1>2. [stage |-> IF fresh THEN "graceful" ELSE "force", req |-> r,
       attempt |-> n, at |-> 1, ok |-> TRUE, report |-> rep] \in Tasks
  BY OrderFacts DEF Tasks
<1> QED BY <1>1, <1>2 DEF TypeOK

\* A program that has just started is typed.
LEMMA TypeInit == Init => TypeOK
<1> SUFFICES ASSUME Init PROVE TypeOK
  OBVIOUS
<1>1. /\ state \in [kind : Kinds, req : Requests \union {None},
                   attempt : 0..MaxAttempt, report : Reports]
      /\ state.kind = "Open"
  BY AppLifecycleAssumption, NoReportType DEF Init, Open, Kinds
<1>2. task \in [TaskSlots -> Tasks] /\ closer \in [Closers -> {"idle", "sawTurn", "sawNoTurn"}]
  BY IdleType DEF Init
<1>3. exitReady \in BOOLEAN /\ exited \in BOOLEAN /\ turnActive \in BOOLEAN
  BY DEF Init
<1>4. gracefulRuns \in Nat /\ forceDone \in [Components -> Nat]
  BY DEF Init
<1> QED BY <1>1, <1>2, <1>3, <1>4 DEF Init, TypeOK

\* Every step keeps the types: the coordinator's, the tasks' and the history's.
LEMMA TypeStep == TypeOK /\ [Next]_vars => TypeOK'
<1> SUFFICES ASSUME TypeOK, [Next]_vars PROVE TypeOK'
  OBVIOUS
<1> USE AppLifecycleAssumption
<1>0. 1 \in 0..MaxAttempt /\ 0 \in 0..MaxAttempt
  OBVIOUS
<1>1. CASE StartTurn
  BY <1>1 DEF StartTurn, TypeOK
<1>2. CASE EndTurn
  BY <1>2 DEF EndTurn, TypeOK
<1>3. ASSUME NEW c \in Closers, ReadActiveTurn(c) PROVE TypeOK'
  BY <1>3 DEF ReadActiveTurn, TypeOK
<1>4. ASSUME NEW c \in Closers, RequestClose(c) PROVE TypeOK'
  <2>1. closer' \in [Closers -> {"idle", "sawTurn", "sawNoTurn"}]
    BY <1>4 DEF RequestClose, TypeOK
  <2>2. ASSUME NEW r \in Requests \ issued,
               issued' = issued \union {r},
               state' = [kind |-> "ShuttingDown", req |-> r, attempt |-> 1,
                         report |-> NoReport],
               SpawnShutdown(r, 1, NoReport, TRUE), UNCHANGED known
        PROVE  TypeOK'
    <3>1. task' \in [TaskSlots -> Tasks] /\ gracefulRuns' \in Nat
      BY <1>0, <2>2, SpawnType, NoReportType
    <3> QED BY <1>4, <2>1, <2>2, <3>1, NoReportType DEF RequestClose, TypeOK, Kinds
  <2>3. ASSUME NEW r \in Requests \ issued,
               issued' = issued \union {r},
               state' = [kind |-> "Confirming", req |-> r, attempt |-> 0,
                         report |-> NoReport],
               known' = known \union {r}, UNCHANGED <<task, gracefulRuns>>
        PROVE  TypeOK'
    BY <1>0, <1>4, <2>1, <2>3, NoReportType DEF RequestClose, TypeOK, Kinds
  <2>4. CASE UNCHANGED <<state, task, known, issued, gracefulRuns>>
    BY <1>4, <2>1, <2>4 DEF RequestClose, TypeOK
  <2> QED BY <1>4, <2>2, <2>3, <2>4 DEF RequestClose
<1>5. ASSUME NEW r \in Requests, CancelQuit(r) PROVE TypeOK'
  BY <1>5, NoReportType DEF CancelQuit, TypeOK, Open, Kinds
<1>6. ASSUME NEW r \in Requests, ConfirmQuit(r) PROVE TypeOK'
  <2>1. task' \in [TaskSlots -> Tasks] /\ gracefulRuns' \in Nat
    BY <1>0, <1>6, SpawnType, NoReportType DEF ConfirmQuit
  <2> QED BY <1>6, <2>1, NoReportType DEF ConfirmQuit, TypeOK, Kinds
<1>7. ASSUME NEW r \in Requests, RetryCleanup(r) PROVE TypeOK'
  <2>1. state.attempt + 1 \in 0..MaxAttempt /\ state.report \in Reports
    BY <1>7 DEF RetryCleanup, TypeOK
  <2>2. task' \in [TaskSlots -> Tasks] /\ gracefulRuns' \in Nat
    BY <1>7, <2>1, SpawnType DEF RetryCleanup
  <2>3. state' \in [kind : Kinds, req : Requests \union {None},
                    attempt : 0..MaxAttempt, report : Reports]
    BY <1>7, <2>1 DEF RetryCleanup, TypeOK, Kinds
  <2> QED BY <1>7, <2>2, <2>3 DEF RetryCleanup, TypeOK
<1>8. ASSUME NEW s \in TaskSlots, TaskStep(s) PROVE TypeOK'
  <2> USE OrderFacts
  <2>1. task[s] \in Tasks
    BY DEF TypeOK
  <2>2. ASSUME NEW ok \in BOOLEAN, GracefulStep(s, ok) PROVE TypeOK'
    <3>1. Order[task[s].at] \in Components
      BY <2>1, <2>2 DEF GracefulStep, Tasks
    <3>2. PICK b \in BOOLEAN : task' = [task EXCEPT ![s].at = @ + 1, ![s].ok = b]
      BY <2>2 DEF GracefulStep
    <3>3. task' \in [TaskSlots -> Tasks]
      <4>1. task[s].at + 1 \in 1..Len(Order) + 1
        BY <2>1, <2>2 DEF GracefulStep, Tasks
      <4>2. [task[s] EXCEPT !.at = @ + 1, !.ok = b] \in Tasks
        BY <2>1, <4>1 DEF Tasks
      <4> QED BY <3>2, <4>2 DEF TypeOK
    <3>4. cleaned' \subseteq Components /\ turnActive' \in BOOLEAN
      BY <2>2, <3>1 DEF GracefulStep, Converge, TypeOK
    <3> QED BY <2>2, <3>3, <3>4 DEF GracefulStep, TypeOK
  <2>3. ASSUME NEW ok \in BOOLEAN, ForceStep(s, ok) PROVE TypeOK'
    <3>1. Order[task[s].at] \in Components
      BY <2>1, <2>3 DEF ForceStep, Tasks
    <3>2. PICK rep \in Reports : task' = [task EXCEPT ![s].at = @ + 1, ![s].report = rep]
      <4>1. task[s].report \in Reports
        BY <2>1 DEF Tasks
      <4>2. CASE task[s].report[Order[task[s].at]] = "Completed"
        <5>1. task' = [task EXCEPT ![s].at = @ + 1, ![s].report = task[s].report]
          BY <2>1, <2>3, <4>2 DEF ForceStep, Tasks, TypeOK
        <5> QED BY <4>1, <5>1
      <4>3. CASE task[s].report[Order[task[s].at]] # "Completed"
        <5> DEFINE rep == [task[s].report EXCEPT ![Order[task[s].at]] =
                             IF ok THEN "Completed" ELSE "Failed"]
        <5>1. rep \in Reports
          BY <4>1 DEF Reports, Outcome
        <5>2. task' = [task EXCEPT ![s].at = @ + 1, ![s].report = rep]
          BY <2>1, <2>3, <4>3 DEF ForceStep, Tasks, TypeOK
        <5> QED BY <5>1, <5>2
      <4> QED BY <4>2, <4>3
    <3>3. task' \in [TaskSlots -> Tasks]
      BY <2>1, <2>3, <3>2 DEF ForceStep, Tasks, TypeOK
    <3>4. cleaned' \subseteq Components /\ turnActive' \in BOOLEAN
      BY <2>3, <3>1 DEF ForceStep, Converge, TypeOK
    <3>5. forceDone' \in [Components -> Nat]
      BY <2>3, <3>1 DEF ForceStep, TypeOK
    <3> QED BY <2>3, <3>3, <3>4, <3>5 DEF ForceStep, TypeOK
  <2>4. CASE GracefulEnd(s)
    <3>1. task' \in [TaskSlots -> Tasks]
      BY <2>1, <2>4 DEF GracefulEnd, Tasks, TypeOK
    <3> QED BY <2>4, <3>1 DEF GracefulEnd, TypeOK
  <2>5. CASE GracefulTimeout(s)
    <3>1. task' \in [TaskSlots -> Tasks]
      <4>1. [task[s] EXCEPT !.stage = "force", !.at = 1, !.ok = FALSE] \in Tasks
        <5>1. 1 \in 1..Len(Order) + 1
          OBVIOUS
        <5> QED BY <2>1, <5>1, Zenon DEF Tasks
      <4> QED BY <2>5, <4>1 DEF GracefulTimeout, TypeOK
    <3> QED BY <2>5, <3>1 DEF GracefulTimeout, TypeOK
  <2>6. CASE ForceEnd(s)
    <3>1. task' \in [TaskSlots -> Tasks]
      BY <2>1, <2>6 DEF ForceEnd, Tasks, TypeOK
    <3> QED BY <2>6, <3>1 DEF ForceEnd, TypeOK
  <2>7. CASE FinishAttempt(s)
    <3>1. task' \in [TaskSlots -> Tasks]
      BY <2>7, IdleType DEF FinishAttempt, TypeOK
    <3>2. CASE UNCHANGED <<state, exitReady, known>>
      BY <2>7, <3>1, <3>2 DEF FinishAttempt, TypeOK
    <3>3. CASE /\ state.kind = "ShuttingDown" /\ state.req = task[s].req
               /\ state' = [state EXCEPT !.kind = "ExitReady"]
               /\ exitReady' = TRUE /\ UNCHANGED known
      BY <2>7, <3>1, <3>3 DEF FinishAttempt, TypeOK, Kinds
    <3>4. CASE /\ state.kind = "ShuttingDown" /\ state.req = task[s].req
               /\ state' = [state EXCEPT !.kind = "CleanupFailed",
                                         !.report = task[s].report]
               /\ known' = known \union {task[s].req} /\ UNCHANGED exitReady
      <4>1. task[s].req \in Requests /\ task[s].report \in Reports
        BY <2>1, <3>4 DEF TypeOK, Tasks
      <4> QED BY <4>1, <2>7, <3>1, <3>4 DEF FinishAttempt, TypeOK, Kinds, Tasks
    <3> QED BY <2>7, <3>2, <3>3, <3>4 DEF FinishAttempt
  <2> QED BY <1>8, <2>2, <2>3, <2>4, <2>5, <2>6, <2>7 DEF TaskStep
<1>9. CASE Exit
  BY <1>9 DEF Exit, TypeOK
<1>10. CASE UNCHANGED vars
  BY <1>10 DEF vars, TypeOK
<1> QED BY <1>1, <1>2, <1>3, <1>4, <1>5, <1>6, <1>7, <1>8, <1>9, <1>10
           DEF Next, Terminated

\* The variables of the coordinator, of the tasks and of the components keep
\* their types through every interleaving.
THEOREM TypeCorrect == Spec => []TypeOK
BY TypeInit, TypeStep, PTL DEF Spec

-----------------------------------------------------------------------------
(* One shutdown at a time.                                                 *)

\* The slot a new shutdown task takes; the others stay as they were.
LEMMA Spawned ==
  ASSUME TypeOK, NEW r, NEW n, NEW rep, NEW fresh, SpawnShutdown(r, n, rep, fresh)
  PROVE  \E s \in TaskSlots :
           /\ task'[s] = [stage |-> IF fresh THEN "graceful" ELSE "force", req |-> r,
                          attempt |-> n, at |-> 1, ok |-> TRUE, report |-> rep]
           /\ \A z \in TaskSlots : z # s => task'[z] = task[z]
BY DEF SpawnShutdown, TypeOK

\* A shutdown is begun only from states in which no task runs, so the task that
\* it spawns is alone.
LEMMA SpawnAlone ==
  ASSUME TypeOK, OneShutdown, state.kind # "ShuttingDown",
         NEW r, NEW n, NEW rep, NEW fresh, SpawnShutdown(r, n, rep, fresh),
         state'.kind = "ShuttingDown", state'.req = r, state'.attempt = n
  PROVE  OneShutdown'
<1>1. \A s \in TaskSlots : ~Running(s)
  BY DEF OneShutdown
<1>2. PICK s \in TaskSlots :
        /\ task'[s] = [stage |-> IF fresh THEN "graceful" ELSE "force", req |-> r,
                       attempt |-> n, at |-> 1, ok |-> TRUE, report |-> rep]
        /\ \A z \in TaskSlots : z # s => task'[z] = task[z]
  BY Spawned
<1>3. \A z \in TaskSlots : Running(z)' => z = s
  BY <1>1, <1>2 DEF Running
<1>4. task'[s].req = r /\ task'[s].attempt = n
  BY <1>2
<1> QED BY <1>3, <1>4 DEF OneShutdown

\* A step of one task that keeps its request and its attempt.
LEMMA TaskKeeps ==
  ASSUME TypeOK, NEW s \in TaskSlots, TaskStep(s), ~FinishAttempt(s)
  PROVE  /\ Running(s)
         /\ task'[s].req = task[s].req /\ task'[s].attempt = task[s].attempt
         /\ \A z \in TaskSlots : z # s => task'[z] = task[z]
         /\ UNCHANGED <<state, exitReady, exited, known, issued, declined, gracefulRuns>>
<1> USE DEF TypeOK, Running
<1>1. ASSUME NEW ok \in BOOLEAN, GracefulStep(s, ok)
      PROVE  /\ Running(s)
             /\ task'[s].req = task[s].req /\ task'[s].attempt = task[s].attempt
             /\ \A z \in TaskSlots : z # s => task'[z] = task[z]
  BY <1>1 DEF GracefulStep, Tasks
<1>2. ASSUME NEW ok \in BOOLEAN, ForceStep(s, ok)
      PROVE  /\ Running(s)
             /\ task'[s].req = task[s].req /\ task'[s].attempt = task[s].attempt
             /\ \A z \in TaskSlots : z # s => task'[z] = task[z]
  BY <1>2 DEF ForceStep, Tasks
<1>3. CASE GracefulEnd(s)
  BY <1>3 DEF GracefulEnd, Tasks
<1>4. CASE GracefulTimeout(s)
  BY <1>4 DEF GracefulTimeout, Tasks
<1>5. CASE ForceEnd(s)
  BY <1>5 DEF ForceEnd, Tasks
<1> QED BY <1>1, <1>2, <1>3, <1>4, <1>5
        DEF TaskStep, GracefulStep, ForceStep

\* No step spawns a second shutdown task beside a running one.
LEMMA OneShutdownStep == TypeOK /\ OneShutdown /\ [Next]_vars => OneShutdown'
<1> SUFFICES ASSUME TypeOK, OneShutdown, [Next]_vars PROVE OneShutdown'
  OBVIOUS
<1>1. CASE UNCHANGED <<state, task>>
  BY <1>1 DEF OneShutdown, Running
<1>2. ASSUME NEW c \in Closers, RequestClose(c) PROVE OneShutdown'
  <2>1. ASSUME NEW r \in Requests, state.kind = "Open",
               state' = [kind |-> "ShuttingDown", req |-> r, attempt |-> 1,
                         report |-> NoReport],
               SpawnShutdown(r, 1, NoReport, TRUE)
        PROVE  OneShutdown'
    BY <2>1, SpawnAlone
  <2>2. CASE state.kind = "Open" /\ UNCHANGED task
    BY <2>2 DEF OneShutdown, Running
  <2> QED BY <1>1, <1>2, <2>1, <2>2 DEF RequestClose
<1>3. ASSUME NEW r \in Requests, CancelQuit(r) PROVE OneShutdown'
  BY <1>3 DEF CancelQuit, OneShutdown, Running
<1>4. ASSUME NEW r \in Requests, ConfirmQuit(r) PROVE OneShutdown'
  BY <1>4, SpawnAlone DEF ConfirmQuit
<1>5. ASSUME NEW r \in Requests, RetryCleanup(r) PROVE OneShutdown'
  <2>1. state'.kind = "ShuttingDown" /\ state'.req = r /\ state'.attempt = state.attempt + 1
    BY <1>5 DEF RetryCleanup, TypeOK
  <2> QED BY <1>5, <2>1, SpawnAlone DEF RetryCleanup
<1>6. ASSUME NEW s \in TaskSlots, TaskStep(s) PROVE OneShutdown'
  <2>1. CASE FinishAttempt(s)
    <3>1. \A z \in TaskSlots : ~Running(z)'
      BY <2>1 DEF FinishAttempt, OneShutdown, Running, Idle, TypeOK
    <3> QED BY <3>1 DEF OneShutdown
  <2>2. CASE ~FinishAttempt(s)
    BY <1>6, <2>2, TaskKeeps DEF OneShutdown, Running
  <2> QED BY <2>1, <2>2
<1> QED BY <1>1, <1>2, <1>3, <1>4, <1>5, <1>6
        DEF Next, StartTurn, EndTurn, ReadActiveTurn, Exit, Terminated, vars

\* Whatever the order of closes, answers and retries, at most one shutdown task
\* runs, and it is that of the attempt the coordinator records.
THEOREM OneShutdownHolds == Spec => []OneShutdown
<1>1. Init => OneShutdown
  BY DEF Init, OneShutdown, Running, Idle
<1> QED BY <1>1, TypeCorrect, OneShutdownStep, PTL DEF Spec

-----------------------------------------------------------------------------
(* The process leaves a clean system.                                      *)

\* Whatever a report or a pass claims to have finished has really converged.
ReportsSound ==
  \A c \in Components :
    /\ state.report[c] = "Completed" => c \in cleaned
    /\ \A s \in TaskSlots : task[s].report[c] = "Completed" => c \in cleaned

PassSound ==
  \A s \in TaskSlots : task[s].ok =>
    /\ task[s].stage = "graceful" =>
         \A i \in 1..4 : i < task[s].at => Order[i] \in cleaned
    /\ task[s].stage = "report" => cleaned = Components

ExitSound == (exited => exitReady) /\ (exitReady => cleaned = Components)

CleanInv == ReportsSound /\ PassSound /\ ExitSound

\* At the start nothing is reported and the exit is not prepared.
LEMMA CleanInit == Init => CleanInv
<1> SUFFICES ASSUME Init PROVE CleanInv
  OBVIOUS
<1>1. \A c \in Components : NoReport[c] # "Completed"
  BY DEF NoReport
<1>2. ReportsSound
  BY <1>1 DEF Init, ReportsSound, Open, Idle
<1>3. PassSound
  BY DEF Init, PassSound, Idle
<1> QED BY <1>2, <1>3 DEF Init, CleanInv, ExitSound

\* Convergence is never lost, so what was sound stays so if the claims stay.
LEMMA CleanKept ==
  ASSUME CleanInv, cleaned \subseteq cleaned', cleaned' \subseteq Components,
         UNCHANGED <<state, exitReady, task>>, exited' => exitReady
  PROVE  CleanInv'
BY OrderFacts DEF CleanInv, ReportsSound, PassSound, ExitSound

\* A task that has just been spawned claims what its predecessor claimed.
LEMMA CleanSpawned ==
  ASSUME TypeOK, CleanInv, UNCHANGED <<cleaned, exitReady, exited>>,
         NEW r, NEW n, NEW rep, NEW fresh, SpawnShutdown(r, n, rep, fresh),
         \A c \in Components : rep[c] = "Completed" => c \in cleaned,
         \A c \in Components : state'.report[c] = "Completed" => c \in cleaned
  PROVE  CleanInv'
<1>1. PICK s \in TaskSlots :
        /\ task'[s] = [stage |-> IF fresh THEN "graceful" ELSE "force", req |-> r,
                       attempt |-> n, at |-> 1, ok |-> TRUE, report |-> rep]
        /\ \A z \in TaskSlots : z # s => task'[z] = task[z]
  BY Spawned
<1>2. ReportsSound'
  BY <1>1 DEF CleanInv, ReportsSound
<1>3. PassSound'
  <2> SUFFICES ASSUME NEW z \in TaskSlots, task'[z].ok
               PROVE  /\ task'[z].stage = "graceful" =>
                           \A i \in 1..4 : i < task'[z].at => Order[i] \in cleaned
                      /\ task'[z].stage = "report" => cleaned = Components
    BY DEF PassSound
  <2>1. CASE z = s
    BY <1>1, <2>1
  <2>2. CASE z # s
    BY <1>1, <2>2 DEF CleanInv, PassSound
  <2> QED BY <2>1, <2>2
<1> QED BY <1>2, <1>3 DEF CleanInv, ExitSound

\* Every step reports Completed only what it has cleaned.
LEMMA CleanStep == TypeOK /\ CleanInv /\ [Next]_vars => CleanInv'
<1> SUFFICES ASSUME TypeOK, CleanInv, [Next]_vars PROVE CleanInv'
  OBVIOUS
<1>0. \A c \in Components : NoReport[c] # "Completed"
  BY DEF NoReport
<1>1. ASSUME NEW c \in Closers, RequestClose(c) PROVE CleanInv'
  <2>1. UNCHANGED <<cleaned, exitReady, exited>>
    BY <1>1 DEF RequestClose
  <2>2. ASSUME NEW r, SpawnShutdown(r, 1, NoReport, TRUE), state'.report = NoReport
        PROVE  CleanInv'
    BY <1>0, <2>1, <2>2, CleanSpawned
  <2>3. CASE UNCHANGED task /\ state'.report = NoReport
    BY <1>0, <2>1, <2>3 DEF CleanInv, ReportsSound, PassSound, ExitSound
  <2>4. CASE UNCHANGED <<task, state>>
    BY <2>1, <2>4 DEF CleanInv, ReportsSound, PassSound, ExitSound
  <2>5. \/ \E r \in Requests : SpawnShutdown(r, 1, NoReport, TRUE) /\ state'.report = NoReport
        \/ UNCHANGED task /\ state'.report = NoReport
        \/ UNCHANGED <<task, state>>
    <3>1. ASSUME NEW r \in Requests \ issued, NEW k, NEW n,
                 state' = [kind |-> k, req |-> r, attempt |-> n, report |-> NoReport]
          PROVE  r \in Requests /\ state'.report = NoReport
      BY <3>1
    <3> QED BY <1>1, <3>1, Zenon DEF RequestClose
  <2> QED BY <2>2, <2>3, <2>4, <2>5
<1>2. ASSUME NEW r \in Requests, CancelQuit(r) PROVE CleanInv'
  BY <1>0, <1>2 DEF CancelQuit, Open, CleanInv, ReportsSound, PassSound, ExitSound
<1>3. ASSUME NEW r \in Requests, ConfirmQuit(r) PROVE CleanInv'
  BY <1>0, <1>3, CleanSpawned DEF ConfirmQuit
<1>4. ASSUME NEW r \in Requests, RetryCleanup(r) PROVE CleanInv'
  <2>1. state'.report = state.report
    BY <1>4 DEF RetryCleanup, TypeOK
  <2>2. \A c \in Components : state.report[c] = "Completed" => c \in cleaned
    BY DEF CleanInv, ReportsSound
  <2> QED BY <1>4, <2>1, <2>2, CleanSpawned DEF RetryCleanup
<1>5. ASSUME NEW s \in TaskSlots, TaskStep(s) PROVE CleanInv'
  <2>1. task[s] \in Tasks
    BY DEF TypeOK
  <2>2. ASSUME NEW ok \in BOOLEAN, GracefulStep(s, ok) PROVE CleanInv'
    <3>1. /\ UNCHANGED <<state, exitReady, exited>>
          /\ task'[s].report = task[s].report
          /\ task'[s].stage = "graceful" /\ task'[s].at = task[s].at + 1
          /\ task'[s].ok => task[s].ok /\ Order[task[s].at] \in cleaned'
          /\ \A z \in TaskSlots : z # s => task'[z] = task[z]
      BY <2>1, <2>2 DEF GracefulStep, Converge, TypeOK, Tasks
    <3>2. Order[task[s].at] \in Components /\ task[s].at \in 1..4
      BY <2>1, <2>2, OrderFacts DEF GracefulStep, Tasks
    <3>3. cleaned \subseteq cleaned' /\ cleaned' \subseteq Components
      BY <2>2, <3>2 DEF GracefulStep, Converge, TypeOK
    <3>4. ReportsSound'
      BY <3>1, <3>3 DEF CleanInv, ReportsSound
    <3>5. PassSound'
      <4>1. ASSUME task'[s].ok, NEW i \in 1..4, i < task'[s].at
            PROVE  Order[i] \in cleaned'
        <5>1. CASE i = task[s].at
          BY <3>1, <4>1, <5>1
        <5>2. CASE i < task[s].at
          BY <2>2, <3>1, <3>3, <4>1, <5>2 DEF CleanInv, PassSound, GracefulStep
        <5> QED BY <3>1, <3>2, <4>1, <5>1, <5>2
      <4>2. \A z \in TaskSlots : z # s => task'[z] = task[z]
        BY <3>1
      <4> QED BY <3>1, <3>3, <4>1, <4>2 DEF CleanInv, PassSound
    <3> QED BY <3>1, <3>3, <3>4, <3>5 DEF CleanInv, ExitSound
  <2>3. ASSUME NEW ok \in BOOLEAN, ForceStep(s, ok) PROVE CleanInv'
    <3>1. Order[task[s].at] \in Components
      BY <2>1, <2>3, OrderFacts DEF ForceStep, Tasks
    <3>2. cleaned \subseteq cleaned' /\ cleaned' \subseteq Components
      BY <2>3, <3>1 DEF ForceStep, Converge, TypeOK
    <3>3. /\ UNCHANGED <<state, exitReady, exited>>
          /\ task'[s].stage = "force"
          /\ \A z \in TaskSlots : z # s => task'[z] = task[z]
      BY <2>1, <2>3 DEF ForceStep, TypeOK, Tasks
    <3>4. \A c \in Components :
            task'[s].report[c] = "Completed" =>
              task[s].report[c] = "Completed" \/ (c = Order[task[s].at] /\ c \in cleaned')
      <4>1. CASE task[s].report[Order[task[s].at]] = "Completed"
        <5>1. task' = [task EXCEPT ![s].at = @ + 1]
          BY <2>3, <4>1 DEF ForceStep
        <5> QED BY <2>1, <5>1 DEF TypeOK, Tasks
      <4>2. CASE task[s].report[Order[task[s].at]] # "Completed"
        BY <2>1, <2>3, <3>1, <4>2 DEF ForceStep, Converge, TypeOK, Tasks, Reports
      <4> QED BY <4>1, <4>2
    <3>5. ReportsSound'
      BY <3>2, <3>3, <3>4 DEF CleanInv, ReportsSound
    <3>6. PassSound'
      BY <3>2, <3>3 DEF CleanInv, PassSound
    <3> QED BY <3>2, <3>3, <3>5, <3>6 DEF CleanInv, ExitSound
  <2>4. CASE GracefulEnd(s)
    <3>1. /\ UNCHANGED <<state, exitReady, exited, cleaned>>
          /\ task'[s].report = task[s].report /\ task'[s].ok = task[s].ok
          /\ task'[s].stage \in {"force", "report"}
          /\ task'[s].stage = "report" => task[s].ok
          /\ task[s].stage = "graceful" /\ task[s].at = 5
          /\ \A z \in TaskSlots : z # s => task'[z] = task[z]
      BY <2>1, <2>4, OrderFacts DEF GracefulEnd, TypeOK, Tasks
    <3>2. task[s].ok => cleaned = Components
      <4>1. task[s].ok => \A i \in 1..4 : Order[i] \in cleaned
        BY <3>1 DEF CleanInv, PassSound
      <4>2. cleaned \subseteq Components
        BY DEF TypeOK
      <4> QED BY <4>1, <4>2, OrderFacts
    <3> QED BY <3>1, <3>2 DEF CleanInv, ReportsSound, PassSound, ExitSound
  <2>5. CASE GracefulTimeout(s)
    <3>1. /\ UNCHANGED <<state, exitReady, exited, cleaned>>
          /\ task'[s].report = task[s].report /\ ~task'[s].ok
          /\ \A z \in TaskSlots : z # s => task'[z] = task[z]
      BY <2>1, <2>5 DEF GracefulTimeout, TypeOK, Tasks
    <3> QED BY <3>1 DEF CleanInv, ReportsSound, PassSound, ExitSound
  <2>6. CASE ForceEnd(s)
    <3>1. /\ UNCHANGED <<state, exitReady, exited, cleaned>>
          /\ task'[s].report = task[s].report /\ ~task'[s].ok
          /\ \A z \in TaskSlots : z # s => task'[z] = task[z]
      BY <2>1, <2>6 DEF ForceEnd, TypeOK, Tasks
    <3> QED BY <3>1 DEF CleanInv, ReportsSound, PassSound, ExitSound
  <2>7. CASE FinishAttempt(s)
    <3>1. /\ UNCHANGED <<exited, cleaned>>
          /\ task'[s] = Idle
          /\ \A z \in TaskSlots : z # s => task'[z] = task[z]
      BY <2>7 DEF FinishAttempt, TypeOK
    <3>2. PassSound'
      BY <3>1 DEF CleanInv, PassSound, Idle
    <3>3. \A c \in Components : state'.report[c] = "Completed" => c \in cleaned
      <4>1. state'.report = state.report \/ state'.report = task[s].report
        BY <2>7 DEF FinishAttempt, TypeOK
      <4> QED BY <4>1 DEF CleanInv, ReportsSound
    <3>4. ReportsSound'
      BY <1>0, <3>1, <3>3 DEF CleanInv, ReportsSound, Idle
    <3>5. Completed(task[s]) => cleaned = Components
      BY <2>7 DEF FinishAttempt, Completed, CleanInv, ReportsSound, PassSound, TypeOK
    <3>6. ExitSound'
      BY <2>7, <3>5 DEF FinishAttempt, CleanInv, ExitSound
    <3> QED BY <3>2, <3>4, <3>6 DEF CleanInv
  <2> QED BY <1>5, <2>2, <2>3, <2>4, <2>5, <2>6, <2>7 DEF TaskStep
<1>6. CASE StartTurn \/ EndTurn \/ Exit \/ UNCHANGED vars
  BY <1>6, CleanKept DEF StartTurn, EndTurn, Exit, vars, CleanInv, ExitSound, TypeOK
<1>7. ASSUME NEW c \in Closers, ReadActiveTurn(c) PROVE CleanInv'
  BY <1>7, CleanKept DEF ReadActiveTurn, CleanInv, ExitSound, TypeOK
<1> QED BY <1>1, <1>2, <1>3, <1>4, <1>5, <1>6, <1>7 DEF Next, Terminated

\* The main process goes away only when every component has converged.
THEOREM ExitOnlyWhenCleanHolds == Spec => []ExitOnlyWhenClean
<1>1. CleanInv => ExitOnlyWhenClean
  BY DEF CleanInv, ExitSound, ExitOnlyWhenClean
<1> QED BY <1>1, TypeCorrect, CleanInit, CleanStep, PTL DEF Spec

-----------------------------------------------------------------------------
(* What the user was asked and what is done at most once.                  *)

\* A request id is drawn once, and dead once it is declined.
DeclinedInv ==
  /\ declined \subseteq issued
  /\ state.kind # "Open" => state.req \in issued \ declined

\* No step brings a declined request back.
LEMMA DeclinedStep == TypeOK /\ DeclinedInv /\ [Next]_vars => DeclinedInv'
<1> SUFFICES ASSUME TypeOK, DeclinedInv, [Next]_vars PROVE DeclinedInv'
  OBVIOUS
<1>1. CASE UNCHANGED <<state, issued, declined>>
  BY <1>1 DEF DeclinedInv
<1>2. ASSUME NEW c \in Closers, RequestClose(c) PROVE DeclinedInv'
  <2>1. ASSUME NEW r \in Requests \ issued, NEW k, NEW n,
               issued' = issued \union {r},
               state' = [kind |-> k, req |-> r, attempt |-> n, report |-> NoReport]
        PROVE  DeclinedInv'
    BY <1>2, <2>1 DEF RequestClose, DeclinedInv
  <2>2. CASE UNCHANGED <<state, issued>>
    BY <1>2, <2>2 DEF RequestClose, DeclinedInv
  <2> QED BY <1>2, <2>1, <2>2, Zenon DEF RequestClose
<1>3. ASSUME NEW r \in Requests, CancelQuit(r) PROVE DeclinedInv'
  BY <1>3 DEF CancelQuit, Open, DeclinedInv
<1>4. ASSUME NEW r \in Requests, ConfirmQuit(r) PROVE DeclinedInv'
  BY <1>4 DEF ConfirmQuit, DeclinedInv
<1>5. ASSUME NEW r \in Requests, RetryCleanup(r) PROVE DeclinedInv'
  BY <1>5 DEF RetryCleanup, DeclinedInv, TypeOK
<1>6. ASSUME NEW s \in TaskSlots, FinishAttempt(s) PROVE DeclinedInv'
  BY <1>6 DEF FinishAttempt, DeclinedInv, TypeOK
<1> QED BY <1>1, <1>2, <1>3, <1>4, <1>5, <1>6
        DEF Next, StartTurn, EndTurn, ReadActiveTurn, Exit, Terminated, vars, TaskStep,
            GracefulStep, GracefulEnd, GracefulTimeout, ForceStep, ForceEnd

\* No answer that arrives late revives a quit the user has declined.
THEOREM DeclinedHolds == Spec => []DeclinedStaysDeclined
<1>1. Init => DeclinedInv
  BY DEF Init, DeclinedInv, Open
<1>2. DeclinedInv => DeclinedStaysDeclined
  BY DEF DeclinedInv, DeclinedStaysDeclined
<1> QED BY <1>1, <1>2, TypeCorrect, DeclinedStep, PTL DEF Spec

\* What has been forced is written in the report of the task that runs or, when
\* none does, in that of the state; a graceful pass opens the first attempt only.
OnceInv ==
  /\ CleanupAtMostOnce
  /\ state.kind \in {"Open", "Confirming"} =>
       gracefulRuns = 0 /\ \A c \in Components : forceDone[c] = 0
  /\ \A c \in Components : forceDone[c] # 0 =>
       /\ state.kind = "CleanupFailed" => state.report[c] = "Completed"
       /\ \A s \in TaskSlots : Running(s) => task[s].report[c] = "Completed"

\* Spawning keeps the invariant if the new task knows what has been forced.
LEMMA OnceSpawned ==
  ASSUME TypeOK, OneShutdown, OnceInv, state.kind # "ShuttingDown",
         NEW r, NEW n, NEW rep, NEW fresh, SpawnShutdown(r, n, rep, fresh),
         \A c \in Components : forceDone[c] # 0 => rep[c] = "Completed",
         fresh => gracefulRuns = 0,
         state'.kind = "ShuttingDown", UNCHANGED forceDone
  PROVE  OnceInv'
<1>1. PICK s \in TaskSlots :
        /\ task'[s] = [stage |-> IF fresh THEN "graceful" ELSE "force", req |-> r,
                       attempt |-> n, at |-> 1, ok |-> TRUE, report |-> rep]
        /\ \A z \in TaskSlots : z # s => task'[z] = task[z]
  BY Spawned
<1>2. gracefulRuns' = IF fresh THEN gracefulRuns + 1 ELSE gracefulRuns
  BY DEF SpawnShutdown
<1>3. gracefulRuns' <= 1
  BY <1>2 DEF OnceInv, CleanupAtMostOnce
<1>4. \A z \in TaskSlots : Running(z)' => z = s
  BY <1>1 DEF OneShutdown, Running
<1>5. \A c \in Components : forceDone[c] # 0 => task'[s].report[c] = "Completed"
  BY <1>1
<1> QED BY <1>3, <1>4, <1>5 DEF OnceInv, CleanupAtMostOnce

\* No step forces what has been forced, nor opens a second graceful pass.
LEMMA OnceStep == TypeOK /\ OneShutdown /\ OnceInv /\ [Next]_vars => OnceInv'
<1> SUFFICES ASSUME TypeOK, OneShutdown, OnceInv, [Next]_vars PROVE OnceInv'
  OBVIOUS
<1>1. CASE UNCHANGED <<state, task, gracefulRuns, forceDone>>
  BY <1>1 DEF OnceInv, CleanupAtMostOnce, Running
<1>2. ASSUME NEW c \in Closers, RequestClose(c) PROVE OnceInv'
  <2>1. UNCHANGED forceDone
    BY <1>2 DEF RequestClose
  <2>2. ASSUME state.kind = "Open", NEW r \in Requests,
               state' = [kind |-> "ShuttingDown", req |-> r, attempt |-> 1,
                         report |-> NoReport],
               SpawnShutdown(r, 1, NoReport, TRUE)
        PROVE  OnceInv'
    <3>1. gracefulRuns = 0 /\ \A x \in Components : forceDone[x] = 0
      BY <2>2 DEF OnceInv
    <3> QED BY <2>1, <2>2, <3>1, OnceSpawned
  <2>3. ASSUME state.kind = "Open", NEW r \in Requests,
               state' = [kind |-> "Confirming", req |-> r, attempt |-> 0,
                         report |-> NoReport],
               UNCHANGED <<task, gracefulRuns>>
        PROVE  OnceInv'
    BY <2>1, <2>3 DEF OnceInv, CleanupAtMostOnce, Running
  <2> QED BY <1>1, <1>2, <2>1, <2>2, <2>3 DEF RequestClose
<1>3. ASSUME NEW r \in Requests, CancelQuit(r) PROVE OnceInv'
  BY <1>3 DEF CancelQuit, Open, OnceInv, CleanupAtMostOnce, Running
<1>4. ASSUME NEW r \in Requests, ConfirmQuit(r) PROVE OnceInv'
  <2>1. gracefulRuns = 0 /\ \A x \in Components : forceDone[x] = 0
    BY <1>4 DEF ConfirmQuit, OnceInv
  <2> QED BY <1>4, <2>1, OnceSpawned DEF ConfirmQuit
<1>5. ASSUME NEW r \in Requests, RetryCleanup(r) PROVE OnceInv'
  <2>1. state'.kind = "ShuttingDown"
    BY <1>5 DEF RetryCleanup, TypeOK
  <2>2. \A c \in Components : forceDone[c] # 0 => state.report[c] = "Completed"
    BY <1>5 DEF RetryCleanup, OnceInv
  <2> QED BY <1>5, <2>1, <2>2, OnceSpawned DEF RetryCleanup
<1>6. ASSUME NEW s \in TaskSlots, TaskStep(s) PROVE OnceInv'
  <2>1. task[s] \in Tasks
    BY DEF TypeOK
  <2>2. ASSUME ~FinishAttempt(s), UNCHANGED forceDone, task'[s].report = task[s].report
        PROVE  OnceInv'
    BY <1>6, <2>2, TaskKeeps DEF OnceInv, CleanupAtMostOnce, Running
  <2>3. ASSUME NEW ok \in BOOLEAN, GracefulStep(s, ok) PROVE OnceInv'
    <3>1. task'[s].report = task[s].report /\ UNCHANGED forceDone
      BY <2>1, <2>3 DEF GracefulStep, TypeOK, Tasks
    <3>2. ~FinishAttempt(s)
      BY <2>3 DEF GracefulStep, FinishAttempt
    <3> QED BY <2>2, <3>1, <3>2
  <2>4. CASE GracefulEnd(s) \/ GracefulTimeout(s) \/ ForceEnd(s)
    <3>1. task'[s].report = task[s].report /\ UNCHANGED forceDone
      BY <2>1, <2>4 DEF GracefulEnd, GracefulTimeout, ForceEnd, TypeOK, Tasks
    <3>2. ~FinishAttempt(s)
      BY <2>4 DEF GracefulEnd, GracefulTimeout, ForceEnd, FinishAttempt
    <3> QED BY <2>2, <3>1, <3>2
  <2>5. ASSUME NEW ok \in BOOLEAN, ForceStep(s, ok) PROVE OnceInv'
    <3> DEFINE o == Order[task[s].at]
    <3>1. o \in Components
      BY <2>1, <2>5, OrderFacts DEF ForceStep, Tasks
    <3>2. /\ Running(s) /\ Running(s)' /\ UNCHANGED <<state, gracefulRuns>>
          /\ \A z \in TaskSlots : z # s => task'[z] = task[z]
      BY <2>1, <2>5 DEF ForceStep, TypeOK, Tasks, Running
    <3>3. state.kind = "ShuttingDown" /\ \A z \in TaskSlots : Running(z) => z = s
      BY <3>2 DEF OneShutdown
    <3>4. CASE task[s].report[o] = "Completed"
      <4>1. task' = [task EXCEPT ![s].at = @ + 1] /\ UNCHANGED forceDone
        BY <2>5, <3>4 DEF ForceStep
      <4>2. task'[s].report = task[s].report
        BY <2>1, <4>1 DEF TypeOK, Tasks
      <4> QED BY <3>2, <3>3, <4>1, <4>2 DEF OnceInv, CleanupAtMostOnce, Running
    <3>5. CASE task[s].report[o] # "Completed"
      <4>1. forceDone[o] = 0
        BY <3>1, <3>2, <3>5 DEF OnceInv
      <4>2. forceDone' = [forceDone EXCEPT ![o] = IF ok THEN @ + 1 ELSE @]
        BY <2>5, <3>5 DEF ForceStep
      <4>3. \A c \in Components : forceDone'[c] <= 1 /\ (c # o => forceDone'[c] = forceDone[c])
        BY <3>1, <4>1, <4>2 DEF OnceInv, CleanupAtMostOnce, TypeOK
      <4>4. task'[s].report = [task[s].report EXCEPT ![o] = IF ok THEN "Completed" ELSE "Failed"]
        BY <2>1, <2>5, <3>5 DEF ForceStep, TypeOK, Tasks
      <4>5. \A c \in Components : forceDone'[c] # 0 => task'[s].report[c] = "Completed"
        <5>1. ok => task'[s].report[o] = "Completed"
          BY <2>1, <3>1, <4>4 DEF Tasks, Reports
        <5>2. ~ok => forceDone'[o] = 0
          BY <3>1, <4>1, <4>2 DEF TypeOK
        <5>3. \A c \in Components : c # o => task'[s].report[c] = task[s].report[c]
          BY <2>1, <3>1, <4>4 DEF Tasks, Reports
        <5> QED BY <3>2, <4>3, <5>1, <5>2, <5>3 DEF OnceInv
      <4> QED BY <3>2, <3>3, <4>3, <4>5 DEF OnceInv, CleanupAtMostOnce, Running
    <3> QED BY <3>4, <3>5
  <2>6. CASE FinishAttempt(s)
    <3>1. /\ state.kind = "ShuttingDown"
          /\ state.req = task[s].req /\ state.attempt = task[s].attempt
      BY <2>6 DEF FinishAttempt, OneShutdown, Running
    <3>2. \A z \in TaskSlots : ~Running(z)'
      BY <2>6 DEF FinishAttempt, OneShutdown, Running, Idle, TypeOK
    <3>3. UNCHANGED <<forceDone, gracefulRuns>>
      BY <2>6 DEF FinishAttempt
    <3>4. CASE state'.kind = "ExitReady"
      BY <3>2, <3>3, <3>4 DEF OnceInv, CleanupAtMostOnce
    <3>5. CASE state'.kind = "CleanupFailed" /\ state'.report = task[s].report
      <4>1. Running(s)
        BY <2>6 DEF FinishAttempt, Running
      <4> QED BY <3>2, <3>3, <3>5, <4>1 DEF OnceInv, CleanupAtMostOnce
    <3> QED BY <2>6, <3>1, <3>4, <3>5 DEF FinishAttempt, TypeOK
  <2> QED BY <1>6, <2>3, <2>4, <2>5, <2>6 DEF TaskStep
<1> QED BY <1>1, <1>2, <1>3, <1>4, <1>5, <1>6
        DEF Next, StartTurn, EndTurn, ReadActiveTurn, Exit, Terminated, vars

\* Over all attempts no cleanup that is over is done again.
THEOREM CleanupOnceHolds == Spec => []CleanupAtMostOnce
<1>1. Init => OnceInv
  BY DEF Init, OnceInv, CleanupAtMostOnce, Open, Idle, Running
<1>2. OnceInv => CleanupAtMostOnce
  BY DEF OnceInv
<1> QED BY <1>1, <1>2, TypeCorrect, OneShutdownHolds, OnceStep, PTL DEF Spec

\* The promises of a quit together.
THEOREM QuitIsSoundHolds == Spec => []QuitIsSound
BY OneShutdownHolds, ExitOnlyWhenCleanHolds, DeclinedHolds, CleanupOnceHolds, PTL
   DEF QuitIsSound

\* A shutdown that has begun is never called off.
THEOREM NoWayBackHolds == Spec => NoWayBack
<1>1. TypeOK /\ [Next]_vars =>
        [state.kind \in {"ShuttingDown", "CleanupFailed", "ExitReady"} =>
           state'.kind \notin {"Open", "Confirming"}]_vars
  <2> SUFFICES ASSUME TypeOK, Next, state.kind \in {"ShuttingDown", "CleanupFailed", "ExitReady"}
               PROVE  state'.kind \notin {"Open", "Confirming"}
    OBVIOUS
  <2>1. CASE UNCHANGED state
    BY <2>1
  <2>2. ASSUME NEW c \in Closers, RequestClose(c) PROVE UNCHANGED state
    BY <2>2 DEF RequestClose
  <2>3. ASSUME NEW r \in Requests, CancelQuit(r) \/ ConfirmQuit(r) PROVE FALSE
    BY <2>3 DEF CancelQuit, ConfirmQuit
  <2>4. ASSUME NEW r \in Requests, RetryCleanup(r) PROVE state'.kind = "ShuttingDown"
    BY <2>4 DEF RetryCleanup, TypeOK
  <2>5. ASSUME NEW s \in TaskSlots, FinishAttempt(s)
        PROVE  UNCHANGED state \/ state'.kind \in {"ExitReady", "CleanupFailed"}
    BY <2>5 DEF FinishAttempt, TypeOK
  <2> QED BY <2>1, <2>2, <2>3, <2>4, <2>5
          DEF Next, StartTurn, EndTurn, ReadActiveTurn, Exit, Terminated, vars, TaskStep,
              GracefulStep, GracefulEnd, GracefulTimeout, ForceStep, ForceEnd
<1> QED BY <1>1, TypeCorrect, PTL DEF Spec, NoWayBack
=============================================================================
