-------------------------- MODULE WorkUnitCommits --------------------------
(***************************************************************************)
(* Which commits the main Codex made: the work units of                    *)
(* git_review/main_work_unit_runtime.rs, and the proofs and the terminal   *)
(* observation of git_review/service.rs. A unit notes HEAD before its turn *)
(* begins. When a commit command is reported as started, HEAD is noted     *)
(* again; when it is reported as finished, a HEAD that has moved on is the *)
(* proof of a commit. At the end of the turn the commits since the unit    *)
(* began are listed, and those with a proof become evidence of the unit.   *)
(*                                                                         *)
(* The supervisor's signal loop hands over one notification after another  *)
(* and waits for each (supervisor.rs); the table of units is locked only   *)
(* between the calls of git. Meanwhile the server runs on, anybody may     *)
(* commit or move HEAD, and the generation may be invalidated.             *)
(***************************************************************************)
EXTENDS Naturals, Sequences

CONSTANTS MaxUnit,         \* bound on the work units
          MaxMade,         \* bound on the commits
          MaxItem,         \* bound on the commit commands
          MaxMoved,        \* bound on moves of HEAD to an earlier commit
          MaxGitFailure,   \* bound on calls of git or of the history that fail
          MaxCut           \* bound on the losses of the server

ASSUME WorkUnitCommitsAssumption ==
  /\ MaxUnit \in Nat /\ MaxMade \in Nat /\ MaxItem \in Nat
  /\ MaxMoved \in Nat /\ MaxGitFailure \in Nat /\ MaxCut \in Nat

Unborn == 0
NoUnit == 0

VARIABLES
  repo,        \* HEAD, and for every commit the set of it and its ancestors
  mainTurn,    \* the server: the unit of its turn and the commit commands that run
  feed,        \* notifications the signal loop has not taken yet
  beginning,   \* begin_work_unit under way
  work,        \* RuntimeData.contexts
  intake,      \* what the signal loop waits for
  workEra, cutEras,   \* the generation, invalidated_generations
  evidence,    \* git.commit_evidence.recorded: which commit is which unit's
  recorded,    \* git.work_unit.observed: the units
  handed,      \* how often a commit was handed over for an explanation
  reached,     \* history: what HEAD came to while a commit command of the unit was under way
  ended,       \* history: the units whose terminal observation was asked for
  units, items, moved, gitFailures

proofCounters == <<units, items, moved, gitFailures>>
workVars == <<beginning, work, workEra, cutEras>>
ledgerVars == <<evidence, recorded, handed, ended>>
proofVars == <<repo, mainTurn, feed, workVars, intake, ledgerVars, reached, proofCounters>>

NoMainTurn == [unit |-> NoUnit, running |-> {}]
NoContext == [gen |-> 0, before |-> Unborn, candidates |-> {}, proofs |-> << >>]
NotBeginning == [unit |-> NoUnit, gen |-> 0, before |-> Unborn, at |-> "none"]
IdleIntake == [at |-> "idle"]

ProofInit ==
  /\ repo = [head |-> Unborn, past |-> << >>]
  /\ mainTurn = NoMainTurn /\ feed = << >> /\ beginning = NotBeginning
  /\ work = [u \in 1..MaxUnit |-> NoContext]
  /\ intake = IdleIntake /\ workEra = 1 /\ cutEras = {}
  /\ evidence = {} /\ recorded = {} /\ handed = [c \in 1..MaxMade |-> 0]
  /\ reached = {} /\ ended = {}
  /\ units = 0 /\ items = 0 /\ moved = 0 /\ gitFailures = 0

Made == DOMAIN repo.past
Past(c) == IF c = Unborn THEN {} ELSE repo.past[c]

\* new_commit_shas: the commits of a range, or nothing if it is none.
IsForward(before, after) == before = Unborn \/ before \in Past(after)
NewCommits(before, after) == Past(after) \ Past(before)

\* rev-list --reverse: the one of a list that is next.
Oldest(S) == {c \in S : \A d \in S : c <= d}

HasContext(u) == work[u].gen # 0
CandidateFor(u, i) == {k \in work[u].candidates : k.item = i}
GitFails == gitFailures < MaxGitFailure /\ gitFailures' = gitFailures + 1

-----------------------------------------------------------------------------
(* The repository, and who else works in it.                               *)

\* A unit has a commit command under way, as far as its reports tell.
UnderWay ==
  {u \in 1..MaxUnit : HasContext(u) /\ work[u].candidates # {}}
    \union IF intake.at \in {"insert", "observe"} THEN {intake.unit} ELSE {}

HeadBecomes(past, c) ==
  /\ repo' = [head |-> c, past |-> past]
  /\ reached' = reached \union (UnderWay \X {c})

MakesCommit ==
  LET c == Len(repo.past) + 1 IN
  c <= MaxMade /\ HeadBecomes(Append(repo.past, Past(repo.head) \union {c}), c)

SomeoneCommits ==
  /\ MakesCommit
  /\ UNCHANGED <<mainTurn, feed, workVars, intake, ledgerVars, proofCounters>>

SomeoneMovesHead ==
  /\ moved < MaxMoved /\ moved' = moved + 1
  /\ \E c \in Made \ {repo.head} : HeadBecomes(repo.past, c)
  /\ UNCHANGED <<mainTurn, feed, workVars, intake, ledgerVars, units, items, gitFailures>>

-----------------------------------------------------------------------------
(* The server's turn. A completed command of node_repl names the heads it  *)
(* saw; a shell command only says that it succeeded.                       *)

ServerStays == UNCHANGED <<workVars, intake, ledgerVars, units, moved, gitFailures>>

CommandBegins ==
  /\ mainTurn.unit # NoUnit /\ items < MaxItem /\ items' = items + 1
  /\ \E exact \in BOOLEAN :
       mainTurn' = [mainTurn EXCEPT !.running = @ \union
                      {[item |-> items + 1, exact |-> exact, from |-> Unborn, made |-> Unborn]}]
  /\ feed' = Append(feed, [kind |-> "started", unit |-> mainTurn.unit, item |-> items + 1])
  /\ ServerStays /\ UNCHANGED <<repo, reached>>

CommandCommits ==
  /\ \E k \in {k \in mainTurn.running : k.made = Unborn} :
       mainTurn' = [mainTurn EXCEPT !.running = (@ \ {k}) \union
                      {[k EXCEPT !.from = repo.head, !.made = Len(repo.past) + 1]}]
  /\ MakesCommit
  /\ ServerStays /\ UNCHANGED <<feed, items>>

\* proof_intent of parse_main_command_notification
Intents(k) ==
  {"none"} \union IF ~k.exact THEN {"head"} ELSE IF k.made # Unborn THEN {"exact"} ELSE {}

CommandEnds ==
  /\ \E k \in mainTurn.running : \E intent \in Intents(k) :
       /\ mainTurn' = [mainTurn EXCEPT !.running = @ \ {k}]
       /\ feed' = Append(feed, [kind |-> "completed", unit |-> mainTurn.unit, item |-> k.item,
                                intent |-> intent, from |-> k.from, made |-> k.made])
  /\ ServerStays /\ UNCHANGED <<repo, reached, items>>

TurnEnds ==
  /\ mainTurn.unit # NoUnit /\ mainTurn' = NoMainTurn
  /\ feed' = Append(feed, [kind |-> "terminal", unit |-> mainTurn.unit])
  /\ ServerStays /\ UNCHANGED <<repo, reached, items>>

-----------------------------------------------------------------------------
(* The start of a turn: begin_work_unit, and its caller.                   *)

BeginStays == UNCHANGED <<repo, feed, intake, ledgerVars, reached, items, moved, gitFailures>>

\* A start waits for the end of the turn before it, not for what is done about that end.
BeginObserve ==
  /\ units < MaxUnit /\ units' = units + 1
  /\ beginning = NotBeginning /\ mainTurn = NoMainTurn /\ feed = << >>
  /\ beginning' = [unit |-> units + 1, gen |-> workEra, before |-> repo.head, at |-> "observed"]
  /\ BeginStays /\ UNCHANGED <<mainTurn, work, workEra, cutEras>>

\* Seeded bug: the invalidated generations are not looked at again.
BugIsCut(g) == FALSE

IsCut(g) == g \in cutEras

BeginInsert ==
  /\ beginning.at = "observed"
  /\ IF IsCut(beginning.gen)
     THEN beginning' = NotBeginning /\ UNCHANGED work
     ELSE /\ beginning' = [beginning EXCEPT !.at = "inserted"]
          /\ work' = [work EXCEPT ![beginning.unit] =
                        [NoContext EXCEPT !.gen = beginning.gen, !.before = beginning.before]]
  /\ BeginStays /\ UNCHANGED <<mainTurn, workEra, cutEras, units>>

StartUnit ==
  /\ beginning.at = "inserted" /\ beginning.gen = workEra
  /\ beginning' = NotBeginning /\ mainTurn' = [NoMainTurn EXCEPT !.unit = beginning.unit]
  /\ BeginStays /\ UNCHANGED <<work, workEra, cutEras, units>>

\* The reservation is gone, or the start fails.
Abandon ==
  /\ beginning.at = "inserted"
  /\ beginning' = NotBeginning /\ work' = [work EXCEPT ![beginning.unit] = NoContext]
  /\ BeginStays /\ UNCHANGED <<mainTurn, workEra, cutEras, units>>

\* The server is gone, and its notifications with it; the runtime hears of it afterwards.
LoseServer ==
  /\ workEra <= MaxCut /\ workEra' = workEra + 1
  /\ mainTurn' = NoMainTurn /\ feed' = << >>
  /\ UNCHANGED <<repo, beginning, work, cutEras, intake, ledgerVars, reached, proofCounters>>

InvalidateGeneration ==
  /\ \E g \in 1..(workEra - 1) \ cutEras :
       /\ cutEras' = cutEras \union {g}
       /\ work' = [u \in 1..MaxUnit |-> IF work[u].gen = g THEN NoContext ELSE work[u]]
  /\ BeginStays /\ UNCHANGED <<mainTurn, beginning, workEra, units>>

-----------------------------------------------------------------------------
(* The signal loop: record_command_started and record_command_completed.   *)

LoopStays == UNCHANGED <<repo, mainTurn, beginning, workEra, cutEras, reached,
                         units, items, moved>>
NextNotification(kind) ==
  intake = IdleIntake /\ feed # << >> /\ Head(feed).kind = kind /\ feed' = Tail(feed)
Returns == intake' = IdleIntake

TakeStarted ==
  /\ NextNotification("started")
  /\ LET n == Head(feed) IN
     intake' = IF HasContext(n.unit) /\ CandidateFor(n.unit, n.item) = {}
               THEN [at |-> "inspect", unit |-> n.unit, item |-> n.item] ELSE IdleIntake
  /\ LoopStays /\ UNCHANGED <<work, ledgerVars, gitFailures>>

\* Seeded bug: what the unit noted at its start is taken for the candidate.
BugHeadBefore == work[intake.unit].before

HeadBefore == repo.head

\* begin_trusted_commit_candidate
InspectHead ==
  /\ intake.at = "inspect"
  /\ \/ /\ intake' = [at |-> "insert", unit |-> intake.unit, item |-> intake.item,
                         before |-> HeadBefore]
        /\ UNCHANGED gitFailures
     \/ GitFails /\ Returns
  /\ LoopStays /\ UNCHANGED <<feed, work, ledgerVars>>

InsertCandidate ==
  /\ intake.at = "insert" /\ Returns
  /\ work' = IF HasContext(intake.unit)
             THEN [work EXCEPT ![intake.unit].candidates = @ \union
                     {[item |-> intake.item, before |-> intake.before]}]
             ELSE work
  /\ LoopStays /\ UNCHANGED <<feed, ledgerVars, gitFailures>>

\* The candidate is taken out, whatever became of the command.
TakeCompleted ==
  /\ NextNotification("completed")
  /\ LET n == Head(feed)
         found == IF HasContext(n.unit) THEN CandidateFor(n.unit, n.item) ELSE {} IN
     /\ work' = IF found = {} THEN work ELSE [work EXCEPT ![n.unit].candidates = @ \ found]
     /\ intake' = IF found = {} \/ n.intent = "none" THEN IdleIntake
                  ELSE [at |-> "observe", unit |-> n.unit, before |-> (CHOOSE k \in found : TRUE).before,
                        intent |-> n.intent, from |-> n.from, made |-> n.made]
  /\ LoopStays /\ UNCHANGED <<ledgerVars, gitFailures>>

MatchesIntent(head) ==
  intake.intent = "exact" => intake.before = intake.from /\ head = intake.made

HasMoved(head) == head \notin {Unborn, intake.before}

\* complete_trusted_commit_candidate: HEAD is read once, and its range is looked at after that.
ObserveHead ==
  /\ intake.at = "observe"
  /\ \/ /\ MatchesIntent(repo.head) /\ HasMoved(repo.head)
        /\ intake' = [at |-> "prove", unit |-> intake.unit, before |-> intake.before,
                      sha |-> repo.head]
        /\ UNCHANGED gitFailures
     \/ ~(MatchesIntent(repo.head) /\ HasMoved(repo.head)) /\ Returns /\ UNCHANGED gitFailures
     \/ GitFails /\ Returns
  /\ LoopStays /\ UNCHANGED <<feed, work, ledgerVars>>

IsProven ==
  /\ intake.sha \in Past(repo.head)
  /\ IsForward(intake.before, intake.sha)
  /\ intake.before # Unborn => intake.sha \in NewCommits(intake.before, intake.sha)

ProveCommit ==
  /\ intake.at = "prove"
  /\ intake' = IF IsProven THEN [at |-> "push", unit |-> intake.unit, sha |-> intake.sha]
               ELSE IdleIntake
  /\ LoopStays /\ UNCHANGED <<feed, work, ledgerVars, gitFailures>>

PushProof ==
  /\ intake.at = "push" /\ Returns
  /\ work' = IF HasContext(intake.unit)
             THEN [work EXCEPT ![intake.unit].proofs = Append(@, intake.sha)] ELSE work
  /\ LoopStays /\ UNCHANGED <<feed, ledgerVars, gitFailures>>

-----------------------------------------------------------------------------
(* The signal loop: finish_work_unit, and the terminal observation.        *)

ProvenShas(c) == {c.proofs[i] : i \in DOMAIN c.proofs}
IsDistinct(c) == \A i, j \in DOMAIN c.proofs : c.proofs[i] = c.proofs[j] => i = j

TakeTerminal ==
  /\ NextNotification("terminal")
  /\ LET u == Head(feed).unit IN
     IF HasContext(u)
     THEN /\ work' = [work EXCEPT ![u] = NoContext] /\ ended' = ended \union {u}
          /\ intake' = IF IsDistinct(work[u])
                       THEN [at |-> "capture", unit |-> u, before |-> work[u].before,
                             todo |-> ProvenShas(work[u])]
                       ELSE IdleIntake
     ELSE Returns /\ UNCHANGED <<work, ended>>
  /\ LoopStays /\ UNCHANGED <<evidence, recorded, handed, gitFailures>>

CaptureAfter ==
  /\ intake.at = "capture"
  /\ \/ /\ intake' = [at |-> "list", unit |-> intake.unit, before |-> intake.before,
                         after |-> repo.head, todo |-> intake.todo]
        /\ UNCHANGED gitFailures
     \/ GitFails /\ Returns
  /\ LoopStays /\ UNCHANGED <<feed, work, ledgerVars>>

IsObserved == intake.todo \subseteq NewCommits(intake.before, intake.after)

ListCommits ==
  /\ intake.at = "list"
  /\ \/ /\ intake.after = Unborn \/ IsForward(intake.before, intake.after)
        /\ IsObserved
        /\ intake' = [at |-> "append", unit |-> intake.unit, all |-> intake.todo, todo |-> intake.todo]
        /\ UNCHANGED gitFailures
     \/ /\ ~(intake.after = Unborn \/ IsForward(intake.before, intake.after)) \/ ~IsObserved
        /\ Returns /\ UNCHANGED gitFailures
     \/ GitFails /\ Returns
  /\ LoopStays /\ UNCHANGED <<feed, work, ledgerVars>>

\* Seeded bug: the evidence of another unit is written over.
BugBelongs(c, u) == TRUE

\* There is no evidence of a commit yet, or it is this unit's.
Belongs(c, u) == \A e \in evidence : e.commit = c => e.unit = u

AppendEvidence ==
  /\ intake.at = "append" /\ intake.todo # {}
  /\ \E c \in Oldest(intake.todo) :
     \/ /\ Belongs(c, intake.unit)
        /\ evidence' = evidence \union {[commit |-> c, unit |-> intake.unit]}
        /\ intake' = [intake EXCEPT !.todo = @ \ {c}] /\ UNCHANGED gitFailures
     \/ ~Belongs(c, intake.unit) /\ Returns /\ UNCHANGED <<evidence, gitFailures>>
     \/ GitFails /\ Returns /\ UNCHANGED evidence
  /\ LoopStays /\ UNCHANGED <<feed, work, recorded, handed, ended>>

AppendWorkUnit ==
  /\ intake.at = "append" /\ intake.todo = {}
  /\ \/ /\ recorded' = recorded \union {[unit |-> intake.unit, commits |-> intake.all]}
        /\ intake' = [at |-> "hand", todo |-> intake.all] /\ UNCHANGED gitFailures
     \/ GitFails /\ Returns /\ UNCHANGED recorded
  /\ LoopStays /\ UNCHANGED <<feed, work, evidence, handed, ended>>

\* One commit after the other; one that can no longer be reached is passed over.
HandOver ==
  /\ intake.at = "hand"
  /\ \/ intake.todo = {} /\ Returns /\ UNCHANGED <<handed, gitFailures>>
     \/ \E c \in Oldest(intake.todo) :
          /\ intake' = [intake EXCEPT !.todo = @ \ {c}]
          /\ \/ c \in Past(repo.head) /\ handed' = [handed EXCEPT ![c] = @ + 1]
                  /\ UNCHANGED gitFailures
             \/ c \notin Past(repo.head) /\ UNCHANGED <<handed, gitFailures>>
             \/ GitFails /\ UNCHANGED handed
  /\ LoopStays /\ UNCHANGED <<feed, work, evidence, recorded, ended>>

-----------------------------------------------------------------------------
ProofNext ==
  \/ SomeoneCommits \/ SomeoneMovesHead
  \/ CommandBegins \/ CommandCommits \/ CommandEnds \/ TurnEnds
  \/ BeginObserve \/ BeginInsert \/ StartUnit \/ Abandon \/ LoseServer \/ InvalidateGeneration
  \/ TakeStarted \/ InspectHead \/ InsertCandidate
  \/ TakeCompleted \/ ObserveHead \/ ProveCommit \/ PushProof
  \/ TakeTerminal \/ CaptureAfter \/ ListCommits \/ AppendEvidence \/ AppendWorkUnit \/ HandOver

ProofSpec == ProofInit /\ [][ProofNext]_proofVars

-----------------------------------------------------------------------------
(* Properties.                                                             *)

\* A unit that was being begun while its generation was invalidated leaves no context
\* behind: nobody would take it away again.
CutIsFinal == \A u \in 1..MaxUnit : work[u].gen \notin cutEras

\* A commit is the work of one unit, also when HEAD is moved back and comes to it again.
OneUnitPerCommit == \A d, e \in evidence : d.commit = e.commit => d.unit = e.unit

\* What is attributed to a unit is a commit that HEAD came to while a commit command of
\* that unit was under way, however late the reports of it were handled.
AttributedWasReached == \A e \in evidence : <<e.unit, e.commit>> \in reached

\* A unit is recorded with its commits only when the evidence of each of them is.
RecordIsWhole ==
  \A r \in recorded : \A c \in r.commits : [commit |-> c, unit |-> r.unit] \in evidence

\* No commit is explained twice on its own account, and none without a recorded unit.
HandedOnce ==
  \A c \in 1..MaxMade :
    handed[c] <= 1 /\ (handed[c] = 1 => \E r \in recorded : c \in r.commits)

CommitsAreAttributed ==
  CutIsFinal /\ OneUnitPerCommit /\ AttributedWasReached /\ RecordIsWhole /\ HandedOnce

\* docs/requirements/git-review-harness.md:77 and :91: every terminal event is observed
\* and recorded, with or without commits. Unless a call failed, that is so when the loop
\* is done with it.
TerminalIsRecorded ==
  intake = IdleIntake /\ gitFailures = 0 => ended \subseteq {r.unit : r \in recorded}

=============================================================================
