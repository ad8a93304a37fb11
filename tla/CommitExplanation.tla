-------------------------- MODULE CommitExplanation --------------------------
(***************************************************************************)
(* The controller of commit explanations (codex/commit_explanation.rs):    *)
(* requests of the UI and of the commit workflow become tasks of one       *)
(* worker, which has them explained one at a time, and each commit has a   *)
(* state that the UI shows.                                                *)
(*                                                                         *)
(* Requests are admitted one at a time, but a request that brings a newer  *)
(* generation gives the data lock back in between. A second request for    *)
(* the same commit is bound to the task that is there. The run behind the  *)
(* worker (module SupportRun) ends in any way, also after it was           *)
(* cancelled. Saving the audit may fail, which switches the controller off *)
(* for good; the release may be unready at any request.                    *)
(***************************************************************************)
EXTENDS Naturals, Sequences, FiniteSets

CONSTANTS Workspaces, Locales, Commits,
          MaxGen,          \* bound on the generations of a workspace
          MaxVersion,      \* bound on the selections of a commit
          MaxAsked,        \* bound on the requests
          TaskLimit,       \* queue_limit
          CacheLimit       \* cache_limit

ASSUME ExplanationAssumption ==
  /\ MaxGen \in Nat /\ MaxVersion \in Nat /\ MaxAsked \in Nat
  /\ TaskLimit \in Nat /\ CacheLimit \in Nat \ {0}

ExplainScope == [ws : Workspaces, gen : 1..MaxGen, locale : Locales]
ExplanationKey == [ws : Workspaces, gen : 1..MaxGen, locale : Locales, commit : Commits]
Triggers == {"auto", "user", "retry"}
ScopeOf(key) == [ws |-> key.ws, gen |-> key.gen, locale |-> key.locale]

VARIABLES
  generations, activeScope,   \* the newest generation of a workspace, the UI's scope
  states,                     \* the state of each commit's explanation
  tasks, active, executing,   \* data.queue, data.active, and what the worker does
  cache,                      \* cache_order
  enabled,                    \* no save of the audit has failed
  admission,                  \* the request that has admission and gave the lock back
  asked,                      \* how many requests there were
  shutting, converged         \* shutting_down, and that a shutdown has reported success

explainScope == <<generations, activeScope>>
explainWork == <<tasks, active, executing, cache>>
explainEnd == <<shutting, converged>>
explainVars == <<explainScope, states, explainWork, enabled, admission, asked, explainEnd>>

NoExplanation == [st |-> "not_generated"]
NoRequestInside == [at |-> "none"]
Idle == [at |-> "idle"]
StateOf(q, st) == [st |-> st, id |-> q.id, trigger |-> q.trigger, version |-> q.version]
Terminal == {"failed", "unavailable", "canceled"}

ExplainInit ==
  /\ generations = [w \in Workspaces |-> 0] /\ activeScope = Idle
  /\ states = [k \in ExplanationKey |-> NoExplanation]
  /\ tasks = <<>> /\ active = Idle /\ executing = "none" /\ cache = <<>>
  /\ enabled = TRUE /\ admission = NoRequestInside /\ asked = 0
  /\ shutting = FALSE /\ converged = FALSE

\* persist_audit: a failure switches the support features off.
Persists == enabled' \in {enabled, FALSE}

-----------------------------------------------------------------------------
(* request.                                                                *)

\* record_blocked_state.
Blocked(q) ==
  /\ states' = [states EXCEPT ![q.key] = StateOf(q, "unavailable")]
  /\ Persists
  /\ UNCHANGED explainWork

\* can_rebind_request: a later selection, and no automatic request for a user's.
CanRebind(old, q) ==
  /\ q.version >= old.version
  /\ ~(old.trigger \in {"user", "retry"} /\ q.trigger = "auto")

\* The task that is there gets the new request; its run keeps its own name.
Rebind(q) ==
  /\ tasks' = [i \in DOMAIN tasks |->
       IF tasks[i].key = q.key /\ \A j \in 1..(i - 1) : tasks[j].key # q.key THEN q ELSE tasks[i]]
  /\ UNCHANGED <<active, executing, cache>>
RebindActive(q) ==
  /\ active' = [active EXCEPT !.task = q]
  /\ UNCHANGED <<tasks, executing, cache>>

ActiveOn(key) == active.at = "run" /\ active.task.key = key
TasksOn(key) == {i \in DOMAIN tasks : tasks[i].key = key}
Cached(key) == \E i \in DOMAIN cache : cache[i] = key

Enqueue(q) ==
  /\ states' = [states EXCEPT ![q.key] = StateOf(q, "queued")]
  /\ tasks' = Append(tasks, q)
  /\ executing' = IF executing = "none" THEN "pick" ELSE executing
  /\ UNCHANGED <<active, cache, enabled>>

\* A commit that has a state: nothing is done for an older request, a live task is
\* bound to the request, and one that has ended is only labelled with it.
OnKnown(q) ==
  LET old == states[q.key]
      relabel == states' = [states EXCEPT ![q.key] = StateOf(q, old.st)] IN
  \/ ~CanRebind(old, q) /\ UNCHANGED <<states, explainWork>>
  \/ /\ CanRebind(old, q)
     /\ \/ old.st = "queued" /\ TasksOn(q.key) # {} /\ relabel /\ Rebind(q)
        \/ old.st = "running" /\ ActiveOn(q.key) /\ relabel /\ RebindActive(q)
        \/ old.st = "generated" /\ Cached(q.key) /\ relabel /\ UNCHANGED explainWork
        \/ old.st \in Terminal /\ q.trigger # "retry" /\ relabel /\ UNCHANGED explainWork

Outstanding == Len(tasks) + (IF active.at = "run" THEN 1 ELSE 0)

\* A new task, for a commit without a state or for the retry of one that has ended.
Starts(q) ==
  \/ states[q.key] = NoExplanation /\ q.trigger # "retry"
  \/ /\ states[q.key].st \in Terminal /\ q.trigger = "retry" /\ CanRebind(states[q.key], q)

\* Seeded bug: shutting_down is looked at only once.
BugProceed(q) ==
  \/ /\ activeScope \notin {Idle, ScopeOf(q.key)}
     /\ Blocked(q) /\ UNCHANGED activeScope
  \/ /\ activeScope \in {Idle, ScopeOf(q.key)}
     /\ activeScope' = ScopeOf(q.key)
     /\ \/ states[q.key] # NoExplanation /\ OnKnown(q) /\ UNCHANGED enabled
        \/ Starts(q) /\ Outstanding >= TaskLimit + 1 /\ Blocked(q)
        \/ Starts(q) /\ Outstanding < TaskLimit + 1 /\ Enqueue(q)
        \/ /\ states[q.key] = NoExplanation /\ q.trigger = "retry"
           /\ UNCHANGED <<states, explainWork, enabled>>

\* The rest of request, under the data lock; it looks at shutting_down again.
Proceed(q) ==
  \/ /\ shutting \/ activeScope \notin {Idle, ScopeOf(q.key)}
     /\ Blocked(q) /\ UNCHANGED activeScope
  \/ /\ ~shutting /\ activeScope \in {Idle, ScopeOf(q.key)}
     /\ activeScope' = ScopeOf(q.key)
     /\ \/ states[q.key] # NoExplanation /\ OnKnown(q) /\ UNCHANGED enabled
        \/ Starts(q) /\ Outstanding >= TaskLimit + 1 /\ Blocked(q)
        \/ Starts(q) /\ Outstanding < TaskLimit + 1 /\ Enqueue(q)
        \/ /\ states[q.key] = NoExplanation /\ q.trigger = "retry"
           /\ UNCHANGED <<states, explainWork, enabled>>

\* A request is blocked if the audit is not saved, support is off, the release is not
\* ready, the controller shuts down or its generation is old.
Request(q) ==
  /\ admission = NoRequestInside /\ asked < MaxAsked /\ asked' = asked + 1
  /\ \/ Blocked(q) /\ UNCHANGED <<explainScope, admission>>
     \/ /\ enabled /\ ~shutting /\ generations[q.key.ws] \in {0, q.key.gen}
        /\ generations' = [generations EXCEPT ![q.key.ws] = q.key.gen]
        /\ Proceed(q)
        /\ UNCHANGED admission
     \/ /\ enabled /\ ~shutting /\ generations[q.key.ws] \in 1..(q.key.gen - 1)
        /\ admission' = [at |-> "scope", q |-> q]
        /\ UNCHANGED <<explainScope, states, explainWork, enabled>>
  /\ UNCHANGED explainEnd

\* set_scope, for the UI or within a request, fails for an older generation.
ScopeChanges(s) ==
  IF generations[s.ws] > s.gen THEN UNCHANGED explainScope
  ELSE /\ generations' = [generations EXCEPT ![s.ws] = s.gen]
       /\ activeScope' = s

SetExplainScope(s) ==
  /\ ScopeChanges(s)
  /\ UNCHANGED <<states, explainWork, enabled, admission, asked, explainEnd>>

RequestScope ==
  /\ admission.at = "scope"
  /\ ScopeChanges(ScopeOf(admission.q.key))
  /\ admission' = IF generations[admission.q.key.ws] > admission.q.key.gen
                  THEN NoRequestInside ELSE [admission EXCEPT !.at = "rest"]
  /\ UNCHANGED <<states, explainWork, enabled, asked, explainEnd>>

RequestRest ==
  /\ admission.at = "rest"
  /\ Proceed(admission.q)
  /\ admission' = NoRequestInside
  /\ UNCHANGED <<generations, asked, explainEnd>>

-----------------------------------------------------------------------------
(* cancel and shutdown.                                                    *)

\* The state of a task that is canceled; it may have left with its evicted explanation.
CancelState(k) ==
  states' = IF states[k] = NoExplanation THEN states ELSE [states EXCEPT ![k].st = "canceled"]

\* The running task is marked, a waiting one is taken out; both are canceled.
CancelTask(id) ==
  /\ \/ /\ active.at = "run" /\ active.task.id = id
        /\ active' = [active EXCEPT !.canceled = TRUE]
        /\ CancelState(active.task.key)
        /\ UNCHANGED tasks
     \/ \E i \in DOMAIN tasks :
          /\ tasks[i].id = id /\ ~(active.at = "run" /\ active.task.id = id)
          /\ tasks' = SubSeq(tasks, 1, i - 1) \o SubSeq(tasks, i + 1, Len(tasks))
          /\ CancelState(tasks[i].key)
          /\ UNCHANGED active
  /\ Persists
  /\ UNCHANGED <<explainScope, executing, cache, admission, asked, explainEnd>>

BeginShutdown ==
  /\ shutting' = TRUE /\ tasks' = <<>>
  /\ active' = IF active.at = "run" THEN [active EXCEPT !.canceled = TRUE] ELSE active
  /\ states' = [k \in ExplanationKey |->
       IF states[k] # NoExplanation /\ (TasksOn(k) # {} \/ ActiveOn(k))
       THEN [states[k] EXCEPT !.st = "canceled"] ELSE states[k]]
  /\ Persists
  /\ UNCHANGED <<explainScope, executing, cache, admission, asked, converged>>

\* shutdown_converged has waited for the worker, and the executor has let go of its
\* runs.
ReportShutdown ==
  /\ shutting /\ executing = "none"
  /\ converged' = (tasks = <<>> /\ active = Idle)
  /\ UNCHANGED <<explainScope, states, explainWork, enabled, admission, asked, shutting>>

-----------------------------------------------------------------------------
(* run_worker.                                                             *)

\* Seeded bug: when the audit is not saved the worker leaves, as if it still worked.
BugPickTask ==
  /\ executing = "pick" /\ tasks # <<>>
  /\ tasks' = Tail(tasks)
  /\ \/ /\ active' = [at |-> "run", task |-> Head(tasks), canceled |-> FALSE]
        /\ states' = [states EXCEPT ![Head(tasks).key] = StateOf(Head(tasks), "running")]
        /\ executing' = "execute"
        /\ UNCHANGED enabled
     \/ /\ states' = [states EXCEPT ![Head(tasks).key] = StateOf(Head(tasks), "unavailable")]
        /\ enabled' = FALSE /\ executing' = "gone"
        /\ UNCHANGED active
  /\ UNCHANGED <<explainScope, cache, admission, asked, explainEnd>>

PickTask ==
  /\ executing = "pick" /\ tasks # <<>>
  /\ tasks' = Tail(tasks)
  /\ \/ /\ active' = [at |-> "run", task |-> Head(tasks), canceled |-> FALSE]
        /\ states' = [states EXCEPT ![Head(tasks).key] = StateOf(Head(tasks), "running")]
        /\ executing' = "execute"
        /\ UNCHANGED enabled
     \/ /\ states' = [states EXCEPT ![Head(tasks).key] = StateOf(Head(tasks), "unavailable")]
        /\ enabled' = FALSE
        /\ UNCHANGED <<active, executing>>
  /\ UNCHANGED <<explainScope, cache, admission, asked, explainEnd>>

WorkerEnds ==
  /\ executing = "pick" /\ tasks = <<>>
  /\ executing' = "none"
  /\ UNCHANGED <<explainScope, states, tasks, active, cache, enabled, admission, asked,
                 explainEnd>>

\* insert_cache: the oldest explanations go, and their states with them.
WithoutEntry(key) ==
  IF ~Cached(key) THEN cache
  ELSE LET i == CHOOSE i \in DOMAIN cache : cache[i] = key IN
       SubSeq(cache, 1, i - 1) \o SubSeq(cache, i + 1, Len(cache))
Excess(key) ==
  LET all == Len(WithoutEntry(key)) + 1 IN IF all > CacheLimit THEN all - CacheLimit ELSE 0
Evicted(key) == {WithoutEntry(key)[i] : i \in 1..Excess(key)}
Younger(key) == SubSeq(WithoutEntry(key), Excess(key) + 1, Len(WithoutEntry(key)))

\* Seeded bug: an explanation that leaves the cache keeps its state.
BugCacheIn(q) ==
  /\ cache' = Append(Younger(q.key), q.key)
  /\ states' = [states EXCEPT ![q.key] = StateOf(q, "generated")]

CacheIn(q) ==
  /\ cache' = Append(Younger(q.key), q.key)
  /\ states' = [k \in ExplanationKey |->
       IF k = q.key THEN StateOf(q, "generated")
       ELSE IF k \in Evicted(q.key) /\ states[k].st = "generated" THEN NoExplanation
       ELSE states[k]]

\* The run has ended; what it brought is for the request that the task has now. A
\* state that says canceled is left alone. If the audit is not saved the explanation
\* is taken back.
FinishTask(outcome) ==
  /\ executing = "execute" /\ executing' = "pick"
  /\ active' = Idle
  /\ LET q == active.task IN
     \/ states[q.key].st = "canceled" /\ UNCHANGED <<states, cache, enabled>>
     \/ /\ states[q.key].st # "canceled"
        /\ \/ outcome = "generated" /\ CacheIn(q) /\ UNCHANGED enabled
           \/ /\ outcome # "generated"
              /\ states' = [states EXCEPT ![q.key] = StateOf(q, outcome)]
              /\ UNCHANGED <<cache, enabled>>
           \/ /\ states' = [k \in ExplanationKey |->
                   IF k = q.key THEN StateOf(q, "unavailable")
                   ELSE IF outcome = "generated" /\ k \in Evicted(q.key)
                           /\ states[k].st = "generated" THEN NoExplanation
                   ELSE states[k]]
              /\ cache' = IF outcome = "generated" THEN Younger(q.key) ELSE WithoutEntry(q.key)
              /\ enabled' = FALSE
  /\ UNCHANGED <<explainScope, tasks, admission, asked, explainEnd>>

-----------------------------------------------------------------------------

Inputs == [key : ExplanationKey, id : {asked + 1}, trigger : Triggers, version : 1..MaxVersion]

ExplainWorker ==
  \/ PickTask \/ WorkerEnds
  \/ \E outcome \in {"generated"} \union Terminal : FinishTask(outcome)

ExplainNext ==
  \/ \E q \in Inputs : Request(q)
  \/ RequestScope \/ RequestRest
  \/ \E s \in ExplainScope : SetExplainScope(s)
  \/ \E id \in 1..MaxAsked : CancelTask(id)
  \/ BeginShutdown \/ ReportShutdown
  \/ ExplainWorker

ExplainSpec == ExplainInit /\ [][ExplainNext]_explainVars

\* The worker is a task of its own, and a run has a timeout.
ExplainFairness == WF_explainVars(ExplainWorker)

-----------------------------------------------------------------------------
(* Properties.                                                             *)

\* A state has behind it what it speaks of, so that the next request for the commit
\* can be bound to it and never ends as "state missing": a queued commit waits in the
\* queue, a running one runs, an explanation that is said to be there is in the cache,
\* although requests, cancellations, evictions and failed saves change them apart.
StatesAreBacked ==
  \A k \in ExplanationKey :
    CASE states[k].st = "queued" -> TasksOn(k) # {}
      [] states[k].st = "running" -> ActiveOn(k)
      [] states[k].st = "generated" -> Cached(k)
      [] OTHER -> TRUE

\* A shutdown that has reported success is final: no task waits, runs or starts
\* after it, also none of a request that was let in before it began.
QuietAfterShutdown == converged => tasks = <<>> /\ active = Idle /\ executing = "none"

\* The states, the queue, the worker and the cache agree, until and after the end.
ExplanationsAreSound == StatesAreBacked /\ QuietAfterShutdown

\* What is said to be queued or running comes to an end, once nothing more is asked.
Unsettled == \E k \in ExplanationKey : states[k].st \in {"queued", "running"}
ExplanationsSettle == Unsettled ~> ~Unsettled

\* What the docs say of requests for one commit: they are gathered into one task
\* (docs/requirements/codex-main-session.md:122).
OneTaskPerCommit ==
  \A k \in ExplanationKey :
    Cardinality(TasksOn(k)) + (IF ActiveOn(k) /\ ~active.canceled THEN 1 ELSE 0) <= 1

=============================================================================
