------------------------------ MODULE Narration ------------------------------
(***************************************************************************)
(* The narration service (narration/service.rs, process.rs, policy.rs): a  *)
(* bounded queue of pieces of text, by priority, which one worker has      *)
(* spoken: a process fetches the audio, a second one plays it.             *)
(*                                                                         *)
(* The commands hold the admission lock; the forced shutdown does not.     *)
(* What silences the service raises the epoch and kills the process it     *)
(* finds: a job carries the epoch it was queued in, and a process starts   *)
(* only in the epoch of its job, which is read under the same lock as the  *)
(* process of a kill. A process has its name in active_pid from its start  *)
(* to its end. A command with an old settings version, one that cannot     *)
(* save and a scope that is rolled back change nothing and do not appear.  *)
(***************************************************************************)
EXTENDS Naturals, Sequences, FiniteSets

CONSTANTS Requests,         \* requests of the UI, each spoken in pieces
          HighRequests, LowRequests,   \* their priorities, the others are normal
          MaxScope,         \* bound on the changes of scope
          MaxPiece,         \* bound on the pieces of a request
          MaxSpeak,         \* bound on the calls of speak
          MaxEpoch,         \* bound on what raises the epoch
          QueueDepth        \* NARRATION_MAX_QUEUE_DEPTH

ASSUME NarrationAssumption ==
  /\ HighRequests \subseteq Requests /\ LowRequests \subseteq Requests \ HighRequests
  /\ MaxScope \in Nat /\ MaxPiece \in Nat /\ MaxSpeak \in Nat /\ MaxEpoch \in Nat
  /\ QueueDepth \in Nat \ {0}

VARIABLES
  voiceOn,           \* settings: enabled, not muted, with a provider and its key
  voiceScope, sequences, dismissed,   \* policy: scope (counted), sequences, canceled_requests
  speakQueue, speaks,                 \* queue, and how often speak was called
  epoch, speech,     \* process: epoch, and the process that runs
  voiceActive,       \* runtime: active_key with active_priority
  voiceWorker, job,  \* worker_loop and the job it is at
  permit,            \* of notify
  holder,            \* the command that holds admission_lock
  forcing,           \* force_shutdown_now
  voiceClosed,       \* shutdown
  quiet,             \* history: the epoch since which all else has been reported silent
  silent,            \* history: a shutdown has reported success
  voiceHeard              \* history: what began to play

voicePolicy == <<voiceScope, sequences, dismissed>>
voiceProcess == <<epoch, speech>>
voiceWork == <<voiceWorker, job>>
voicePast == <<quiet, silent, voiceHeard>>
narrationVars == <<voiceOn, voicePolicy, speakQueue, speaks, voiceProcess, voiceActive,
                   voiceWork, permit, holder, forcing, voiceClosed, voicePast>>

Priority(r) == IF r \in HighRequests THEN 2 ELSE IF r \in LowRequests THEN 0 ELSE 1
NoJob == [piece |-> "none"]
NoSpeech == [stage |-> "none", hit |-> FALSE]
NobodyInside == [at |-> "free"]

NarrationInit ==
  /\ voiceOn = TRUE /\ voiceScope = 0
  /\ sequences = [r \in Requests |-> 0] /\ dismissed = {}
  /\ speakQueue = <<>> /\ speaks = 0 /\ epoch = 0 /\ speech = NoSpeech
  /\ voiceActive = NoJob /\ voiceWorker = "none" /\ job = NoJob /\ permit = FALSE
  /\ holder = NobodyInside /\ forcing = "no" /\ voiceClosed = FALSE
  /\ quiet = 0 /\ silent = FALSE /\ voiceHeard = <<>>

Current(j) == j.epoch = epoch
HighWaits == speakQueue # <<>> /\ Priority(Head(speakQueue).request) = 2

-----------------------------------------------------------------------------
(* speak.                                                                  *)

\* Mutant: in front of those of the same priority.
BugInsertAt(queue, j) ==
  LET later == {i \in DOMAIN queue : Priority(queue[i].request) <= Priority(j.request)} IN
  IF later = {} THEN Len(queue) + 1 ELSE CHOOSE i \in later : \A k \in later : i <= k
\* By priority, behind those of the same one.
InsertAt(queue, j) ==
  LET later == {i \in DOMAIN queue : Priority(queue[i].request) < Priority(j.request)} IN
  IF later = {} THEN Len(queue) + 1 ELSE CHOOSE i \in later : \A k \in later : i <= k
Inserted(queue, j) ==
  SubSeq(queue, 1, InsertAt(queue, j) - 1) \o <<j>> \o SubSeq(queue, InsertAt(queue, j), Len(queue))
FirstLow == {i \in DOMAIN speakQueue : /\ Priority(speakQueue[i].request) = 0
                                       /\ \A k \in 1..(i - 1) : Priority(speakQueue[k].request) # 0}
Without(queue, i) == SubSeq(queue, 1, i - 1) \o SubSeq(queue, i + 1, Len(queue))

\* A full queue gives up its first piece of low priority, or refuses.
RoomFor == IF Len(speakQueue) < QueueDepth THEN {speakQueue}
           ELSE {Without(speakQueue, i) : i \in FirstLow}

\* validate_and_record: pieces come in order, and not after a cancellation.
Validates(r) ==
  /\ r \notin dismissed /\ sequences[r] < MaxPiece
  /\ sequences' = [sequences EXCEPT ![r] = @ + 1]

\* A high one interrupts what is active, after the queue is unlocked.
Interrupts(r) == Priority(r) = 2 /\ voiceActive # NoJob /\ Priority(voiceActive.request) < 2

StartsWorker == voiceWorker' = IF voiceWorker = "none" THEN "top" ELSE voiceWorker
\* Mutant: only a worker that waits is notified, as with notify_waiters.
BugNotify == permit' = (permit \/ voiceWorker \in {"park", "eligible"})
Notify == permit' = TRUE

Speak(r) ==
  /\ holder = NobodyInside /\ voiceOn /\ speaks < MaxSpeak
  /\ speaks' = speaks + 1
  /\ StartsWorker
  /\ Validates(r)
  /\ \E queue \in RoomFor :
       speakQueue' = Inserted(queue, [request |-> r, piece |-> sequences[r], epoch |-> epoch,
                                       in |-> voiceScope])
  /\ Notify
  /\ holder' = IF Interrupts(r) THEN [at |-> "interrupt"] ELSE NobodyInside
  /\ UNCHANGED <<voiceOn, voiceScope, dismissed, voiceProcess, voiceActive, job, forcing,
                 voiceClosed, voicePast>>

\* terminate_active: the process that runs now is killed and waited for.
Hits == speech' = [speech EXCEPT !.hit = speech # NoSpeech]
Gone == ~speech.hit

Interrupt ==
  /\ holder.at = "interrupt" /\ Hits
  /\ holder' = [at |-> "interrupted"]
  /\ UNCHANGED <<voiceOn, voicePolicy, speakQueue, speaks, epoch, voiceActive, voiceWork, permit,
                 forcing, voiceClosed, voicePast>>

\* The result is not looked at, so the wait may also run out of its budget.
Interrupted ==
  /\ holder.at = "interrupted" /\ holder' = NobodyInside
  /\ UNCHANGED <<voiceOn, voicePolicy, speakQueue, speaks, voiceProcess, voiceActive, voiceWork,
                 permit, forcing, voiceClosed, voicePast>>

-----------------------------------------------------------------------------
(* What silences: cancel, update_settings, set_muted, reset_settings,      *)
(* set_scope and shutdown end in cancel_admitted.                          *)

Enters(op) == holder = NobodyInside /\ epoch < MaxEpoch /\ holder' = [at |-> "drain", op |-> op]

Cancel ==
  /\ Enters("cancel")
  /\ UNCHANGED <<voiceOn, voicePolicy, speakQueue, speaks, voiceProcess, voiceActive, voiceWork,
                 permit, forcing, voiceClosed, voicePast>>

\* Settings that keep the voice on cancel nothing.
SetVoice(on) ==
  /\ voiceOn' = on
  /\ IF on THEN ~voiceOn /\ holder = NobodyInside /\ holder' = holder ELSE Enters("settings")
  /\ UNCHANGED <<voicePolicy, speakQueue, speaks, voiceProcess, voiceActive, voiceWork, permit,
                 forcing, voiceClosed, voicePast>>

\* To another workspace or a later generation; one that comes back starts anew as well.
SetVoiceScope ==
  /\ voiceScope < MaxScope /\ Enters("scope")
  /\ voiceScope' = voiceScope + 1 /\ sequences' = [r \in Requests |-> 0] /\ dismissed' = {}
  /\ UNCHANGED <<voiceOn, speakQueue, speaks, voiceProcess, voiceActive, voiceWork, permit,
                 forcing, voiceClosed, voicePast>>

\* shutdown says so before it waits for its turn.
CloseVoice ==
  /\ ~voiceClosed /\ voiceClosed' = TRUE /\ Notify
  /\ UNCHANGED <<voiceOn, voicePolicy, speakQueue, speaks, voiceProcess, voiceActive, voiceWork,
                 holder, forcing, voicePast>>
CloseEnters ==
  /\ voiceClosed /\ Enters("close")
  /\ UNCHANGED <<voiceOn, voicePolicy, speakQueue, speaks, voiceProcess, voiceActive, voiceWork,
                 permit, forcing, voiceClosed, voicePast>>

\* The queue is drained; what was in it, and what is active, is canceled in the policy.
Drain ==
  /\ holder.at = "drain"
  /\ speakQueue' = <<>>
  /\ dismissed' = IF holder.op = "scope" THEN dismissed     \* keys of the scope before
                  ELSE dismissed \union {speakQueue[i].request : i \in DOMAIN speakQueue}
                                 \union (IF voiceActive = NoJob THEN {} ELSE {voiceActive.request})
  /\ holder' = [holder EXCEPT !.at = "bump"]
  /\ UNCHANGED <<voiceOn, voiceScope, sequences, speaks, voiceProcess, voiceActive, voiceWork,
                 permit, forcing, voiceClosed, voicePast>>

\* cancel_all: invalidate, and only then look for the process.
Bump ==
  /\ holder.at = "bump"
  /\ epoch' = epoch + 1
  /\ holder' = [holder EXCEPT !.at = "kill"]
  /\ UNCHANGED <<voiceOn, voicePolicy, speakQueue, speaks, speech, voiceActive, voiceWork, permit,
                 forcing, voiceClosed, voicePast>>
KillActive ==
  /\ holder.at = "kill" /\ Hits
  /\ holder' = [holder EXCEPT !.at = "wait"]
  /\ UNCHANGED <<voiceOn, voicePolicy, speakQueue, speaks, epoch, voiceActive, voiceWork, permit,
                 forcing, voiceClosed, voicePast>>

\* The process is gone, or the budget is and an error is reported.
CancelEnds ==
  /\ holder.at = "wait"
  /\ holder' = NobodyInside /\ voiceActive' = NoJob /\ Notify
  /\ \/ Gone /\ quiet' = epoch /\ silent' = (silent \/ holder.op = "close")
     \/ UNCHANGED <<quiet, silent>>
  /\ UNCHANGED <<voiceOn, voicePolicy, speakQueue, speaks, voiceProcess, voiceWork, forcing,
                 voiceClosed, voiceHeard>>

-----------------------------------------------------------------------------
(* force_shutdown_now.                                                     *)

\* notify_waiters wakes the worker only when it waits already.
ForceCloses ==
  /\ forcing = "no" /\ forcing' = "bump" /\ epoch < MaxEpoch
  /\ voiceClosed' = TRUE /\ speakQueue' = <<>>
  /\ voiceWorker' = IF voiceWorker = "park" THEN "top" ELSE voiceWorker
  /\ UNCHANGED <<voiceOn, voicePolicy, speaks, voiceProcess, voiceActive, job, permit, holder,
                 voicePast>>
ForceBumps ==
  /\ forcing = "bump" /\ forcing' = "kill" /\ epoch' = epoch + 1
  /\ UNCHANGED <<voiceOn, voicePolicy, speakQueue, speaks, speech, voiceActive, voiceWork, permit,
                 holder, voiceClosed, voicePast>>
ForceKills ==
  /\ forcing = "kill" /\ forcing' = "wait" /\ Hits
  /\ UNCHANGED <<voiceOn, voicePolicy, speakQueue, speaks, epoch, voiceActive, voiceWork, permit,
                 holder, voiceClosed, voicePast>>
ForceEnds ==
  /\ forcing = "wait" /\ forcing' = "done" /\ voiceActive' = NoJob
  /\ silent' \in {silent, silent \/ Gone}
  /\ UNCHANGED <<voiceOn, voicePolicy, speakQueue, speaks, voiceProcess, voiceWork, permit, holder,
                 voiceClosed, quiet, voiceHeard>>

-----------------------------------------------------------------------------
(* worker_loop.                                                            *)

WorkerAt(from, to) == voiceWorker = from /\ voiceWorker' = to

WorkerTop ==
  /\ WorkerAt("top", IF voiceClosed THEN "stopped" ELSE "pop")
  /\ UNCHANGED <<voiceOn, voicePolicy, speakQueue, speaks, voiceProcess, voiceActive, job, permit,
                 holder, forcing, voiceClosed, voicePast>>
PopJob ==
  /\ IF speakQueue = <<>> THEN WorkerAt("pop", "parking") /\ UNCHANGED <<job, speakQueue>>
     ELSE WorkerAt("pop", "popped") /\ job' = Head(speakQueue) /\ speakQueue' = Tail(speakQueue)
  /\ UNCHANGED <<voiceOn, voicePolicy, speaks, voiceProcess, voiceActive, permit, holder, forcing,
                 voiceClosed, voicePast>>
Park ==
  /\ WorkerAt("parking", "park")
  /\ UNCHANGED <<voiceOn, voicePolicy, speakQueue, speaks, voiceProcess, voiceActive, job, permit,
                 holder, forcing, voiceClosed, voicePast>>
Wake ==
  /\ WorkerAt("park", "top") /\ permit /\ permit' = FALSE
  /\ UNCHANGED <<voiceOn, voicePolicy, speakQueue, speaks, voiceProcess, voiceActive, job, holder,
                 forcing, voiceClosed, voicePast>>
CheckJob ==
  /\ WorkerAt("popped", IF Current(job) THEN "claim" ELSE "top")
  /\ UNCHANGED <<voiceOn, voicePolicy, speakQueue, speaks, voiceProcess, voiceActive, job, permit,
                 holder, forcing, voiceClosed, voicePast>>
SetActive ==
  /\ WorkerAt("claim", "eligible") /\ voiceActive' = job
  /\ UNCHANGED <<voiceOn, voicePolicy, speakQueue, speaks, voiceProcess, job, permit, holder,
                 forcing, voiceClosed, voicePast>>

\* Mutant: the wait does not look at the shutdown.
BugGivesUp == ~Current(job) \/ (Priority(job.request) < 2 /\ HighWaits)
\* wait_until_eligible: given up, passed (after the delay, which high ones do not have), or
\* woken from the delay by a notification, which is used up.
GivesUp == ~Current(job) \/ voiceClosed \/ (Priority(job.request) < 2 /\ HighWaits)
Eligible ==
  /\ \/ WorkerAt("eligible", IF GivesUp THEN "finish" ELSE "settings") /\ UNCHANGED permit
     \/ /\ voiceWorker = "eligible" /\ ~GivesUp /\ Priority(job.request) < 2
        /\ permit /\ permit' = FALSE /\ UNCHANGED voiceWorker
  /\ UNCHANGED <<voiceOn, voicePolicy, speakQueue, speaks, voiceProcess, voiceActive, job, holder,
                 forcing, voiceClosed, voicePast>>

\* The settings are read, record_start, set_active.
ReadSettings ==
  /\ \/ WorkerAt("settings", "fetch") /\ voiceOn /\ Current(job) /\ voiceActive' = job
     \/ WorkerAt("settings", "finish") /\ ~(voiceOn /\ Current(job)) /\ UNCHANGED voiceActive
  /\ UNCHANGED <<voiceOn, voicePolicy, speakQueue, speaks, voiceProcess, job, permit, holder,
                 forcing, voiceClosed, voicePast>>

\* Mutant: the epoch is not compared again when a process starts.
BugSpawns(stage) == speech' = [stage |-> stage, job |-> job, hit |-> FALSE]
\* spawn, under the gate: the job's epoch is the current one.
Spawns(stage) == Current(job) /\ speech' = [stage |-> stage, job |-> job, hit |-> FALSE]
SpawnFetch ==
  /\ \/ WorkerAt("fetch", "fetching") /\ Spawns("fetch")
     \/ WorkerAt("fetch", "finish") /\ UNCHANGED speech
  /\ UNCHANGED <<voiceOn, voicePolicy, speakQueue, speaks, epoch, voiceActive, job, permit, holder,
                 forcing, voiceClosed, voicePast>>
SpawnPlay ==
  /\ \/ /\ WorkerAt("play", "playing") /\ Spawns("play")
        /\ voiceHeard' = Append(voiceHeard, [job EXCEPT !.epoch = 0])
     \/ WorkerAt("play", "finish") /\ UNCHANGED <<speech, voiceHeard>>
  /\ UNCHANGED <<voiceOn, voicePolicy, speakQueue, speaks, epoch, voiceActive, job, permit, holder,
                 forcing, voiceClosed, quiet, silent>>

\* The process ends by itself, by a kill or by the worker's timeout, and is cleared; what was
\* fetched is played when the epoch is still the job's.
SpeechEnds ==
  /\ speech # NoSpeech /\ speech' = NoSpeech
  /\ \/ WorkerAt("fetching", "play") /\ ~speech.hit /\ Current(job)
     \/ voiceWorker \in {"fetching", "playing"} /\ voiceWorker' = "finish"
  /\ UNCHANGED <<voiceOn, voicePolicy, speakQueue, speaks, epoch, voiceActive, job, permit, holder,
                 forcing, voiceClosed, voicePast>>

\* finish_job, unless the runtime is another request's by now.
FinishJob ==
  /\ WorkerAt("finish", "top")
  /\ voiceActive' = IF voiceActive # NoJob /\ voiceActive.request = job.request THEN NoJob
                    ELSE voiceActive
  /\ job' = NoJob
  /\ UNCHANGED <<voiceOn, voicePolicy, speakQueue, speaks, voiceProcess, permit, holder, forcing,
                 voiceClosed, voicePast>>

-----------------------------------------------------------------------------
Worker ==
  \/ WorkerTop \/ PopJob \/ Park \/ Wake \/ CheckJob \/ SetActive \/ ReadSettings \/ SpawnFetch
  \/ SpawnPlay \/ SpeechEnds \/ FinishJob
Silencing == Drain \/ Bump \/ KillActive \/ CancelEnds \/ Interrupt \/ Interrupted
NarrationNext ==
  \/ \E r \in Requests : Speak(r)
  \/ Silencing \/ Cancel \/ CloseVoice \/ CloseEnters
  \/ \E on \in BOOLEAN : SetVoice(on)
  \/ SetVoiceScope
  \/ ForceCloses \/ ForceBumps \/ ForceKills \/ ForceEnds
  \/ Worker \/ Eligible

\* The worker and the command that holds the lock go on, a delay of the worker ends however
\* often it is notified meanwhile, and a process ends: it has a timeout.
NarrationFairness ==
  /\ WF_narrationVars(Worker) /\ WF_narrationVars(Silencing)
  /\ WF_narrationVars(Eligible /\ voiceWorker' # voiceWorker)
NarrationSpec == NarrationInit /\ [][NarrationNext]_narrationVars /\ NarrationFairness

-----------------------------------------------------------------------------
(* Properties.                                                             *)

\* Once a command that silences has reported success, nothing of before it is spoken, whatever
\* the worker was just about to start.
CanceledIsSilent == speech # NoSpeech => speech.job.epoch >= quiet

\* After a shutdown, plain or forced, has reported success, no process starts any more, though
\* speak still queues and the worker may still take a job.
ClosedIsSilent == silent => speech = NoSpeech

\* The pieces of a request are heard in their order, each once, whatever is interrupted,
\* evicted or dropped in between.
PiecesInOrder ==
  \A i, k \in DOMAIN voiceHeard :
    (i < k /\ voiceHeard[i].request = voiceHeard[k].request /\ voiceHeard[i].in = voiceHeard[k].in)
      => voiceHeard[i].piece < voiceHeard[k].piece

\* Silence that was promised is kept, and what is heard is in order.
NarrationIsSound == CanceledIsSilent /\ ClosedIsSilent /\ PiecesInOrder

\* What is queued is taken, unless the service closes.
QueueIsServed == (speakQueue # <<>>) ~> (speakQueue = <<>> \/ voiceClosed)
=============================================================================
