----------------------- MODULE WorkUnitCommitsProofs -----------------------
(* Proofs about WorkUnitCommits, for every bound on the units, the commits, *)
(* the commands, the moves of HEAD, the failures and the losses.            *)
EXTENDS WorkUnitCommits, TLAPS

Units == 1..MaxUnit
Shas == 1..MaxMade
Heads == 0..MaxMade

-----------------------------------------------------------------------------
(* The inductive invariant.                                                *)

Contexts == [gen : Nat, before : Heads, candidates : SUBSET [item : Nat, before : Heads],
             proofs : Seq(Shas)]

Running == [item : Nat, exact : BOOLEAN, from : Heads, made : Heads]

Notices ==
  [kind : {"started"}, unit : Units, item : Nat]
    \union [kind : {"completed"}, unit : Units, item : Nat,
            intent : {"none", "head", "exact"}, from : Heads, made : Heads]
    \union [kind : {"terminal"}, unit : Units]

Inserting == [at : {"insert"}, unit : Units, item : Nat, before : Heads]
Observing == [at : {"observe"}, unit : Units, before : Heads, intent : {"none", "head", "exact"},
              from : Heads, made : Heads]
Proving == [at : {"prove"}, unit : Units, before : Heads, sha : Shas]
Pushing == [at : {"push"}, unit : Units, sha : Shas]
Capturing == [at : {"capture"}, unit : Units, before : Heads, todo : SUBSET Shas]
Listing == [at : {"list"}, unit : Units, before : Heads, after : Heads, todo : SUBSET Shas]
Appending == [at : {"append"}, unit : Units, all : SUBSET Shas, todo : SUBSET Shas]

Intakes ==
  [at : {"idle"}] \union [at : {"inspect"}, unit : Units, item : Nat]
    \union Inserting \union Observing \union Proving \union Pushing
    \union Capturing \union Listing \union Appending \union [at : {"hand"}, todo : SUBSET Shas]

RepoType ==
  /\ repo \in [head : Heads, past : Seq(SUBSET Shas)]
  /\ Len(repo.past) <= MaxMade /\ repo.head <= Len(repo.past)
  /\ reached \in SUBSET (Units \X Shas)

TurnType ==
  /\ mainTurn \in [unit : 0..MaxUnit, running : SUBSET Running]
  /\ mainTurn.unit = NoUnit => mainTurn.running = {}

FeedType == feed \in Seq(Notices)

BeginType ==
  /\ beginning \in [unit : 0..MaxUnit, gen : Nat, before : Heads,
                    at : {"none", "observed", "inserted"}]
  /\ beginning.at # "none" => beginning.unit # NoUnit
  /\ units \in 0..MaxUnit

WorkType == work \in [Units -> Contexts]

EraType == workEra \in Nat \ {0} /\ cutEras \in SUBSET (Nat \ {0})

IntakeType == intake \in Intakes

LedgerType ==
  /\ evidence \in SUBSET [commit : Shas, unit : Units]
  /\ recorded \in SUBSET [unit : Units, commits : SUBSET Shas]
  /\ handed \in [Shas -> Nat] /\ ended \in SUBSET Units

CountType == items \in Nat /\ moved \in Nat /\ gitFailures \in Nat

TypeOK ==
  /\ RepoType /\ TurnType /\ FeedType /\ BeginType /\ WorkType /\ EraType
  /\ IntakeType /\ LedgerType /\ CountType

\* A unit has its context between the insertion and its end, once.
UnitsAreNew ==
  /\ \A u \in Units : HasContext(u) =>
       u <= units /\ u \notin ended /\ ~(beginning.at = "observed" /\ beginning.unit = u)
  /\ \A u \in Units : ~HasContext(u) => work[u].candidates = {}
  /\ beginning.at = "observed" => beginning.unit <= units /\ beginning.unit \notin ended
  /\ \A u \in ended : u <= units

\* HEAD is still what was noted for the unit, or has come here under its eyes.
Seen(u, before) == before = repo.head \/ <<u, repo.head>> \in reached

\* What is on its way to the evidence has been reached.
ProofsAreReached ==
  /\ \A u \in Units : \A k \in work[u].candidates : Seen(u, k.before)
  /\ \A u \in Units : \A i \in DOMAIN work[u].proofs : <<u, work[u].proofs[i]>> \in reached
  /\ intake.at \in {"insert", "observe"} => Seen(intake.unit, intake.before)
  /\ intake.at \in {"prove", "push"} => <<intake.unit, intake.sha>> \in reached
  /\ intake.at \in {"capture", "list", "append"} =>
       \A c \in intake.todo : <<intake.unit, c>> \in reached
  /\ AttributedWasReached

\* The unit in hand is not recorded yet; what is handed over is recorded, and is new.
LedgerIsInOrder ==
  /\ OneUnitPerCommit /\ RecordIsWhole /\ HandedOnce
  /\ \A r \in recorded : r.unit \in ended
  /\ intake.at \in {"capture", "list", "append"} =>
       intake.unit \in ended /\ \A r \in recorded : r.unit # intake.unit
  /\ intake.at = "append" =>
       \A c \in intake.all \ intake.todo : [commit |-> c, unit |-> intake.unit] \in evidence
  /\ intake.at = "hand" =>
       \A c \in intake.todo : handed[c] = 0 /\ \E r \in recorded : c \in r.commits

Inv == TypeOK /\ CutIsFinal /\ UnitsAreNew /\ ProofsAreReached /\ LedgerIsInOrder

-----------------------------------------------------------------------------
(* Types.                                                                  *)

\* What the loop is at tells what it holds.
LEMMA IntakeShape ==
  ASSUME intake \in Intakes
  PROVE  /\ intake.at = "inspect" => intake \in [at : {"inspect"}, unit : Units, item : Nat]
         /\ intake.at = "insert" => intake \in Inserting
         /\ intake.at = "observe" => intake \in Observing
         /\ intake.at = "prove" => intake \in Proving
         /\ intake.at = "push" => intake \in Pushing
         /\ intake.at = "capture" => intake \in Capturing
         /\ intake.at = "list" => intake \in Listing
         /\ intake.at = "append" => intake \in Appending
         /\ intake.at = "hand" => intake \in [at : {"hand"}, todo : SUBSET Shas]
BY DEF Intakes, Inserting, Observing, Proving, Pushing, Capturing, Listing, Appending

\* Each kind of step of the loop is one of its states.
LEMMA IntakeCases ==
  /\ IdleIntake \in Intakes
  /\ [at : {"inspect"}, unit : Units, item : Nat] \subseteq Intakes
  /\ Inserting \subseteq Intakes /\ Observing \subseteq Intakes /\ Proving \subseteq Intakes
  /\ Pushing \subseteq Intakes /\ Capturing \subseteq Intakes /\ Listing \subseteq Intakes
  /\ Appending \subseteq Intakes /\ [at : {"hand"}, todo : SUBSET Shas] \subseteq Intakes
BY DEF Intakes, IdleIntake

\* The notice that comes next is one, and what is behind it stays a queue of them.
LEMMA FeedFacts ==
  ASSUME feed \in Seq(Notices), feed # << >>
  PROVE  /\ Head(feed) \in Notices /\ Tail(feed) \in Seq(Notices)
         /\ Head(feed).unit \in Units
         /\ Head(feed).kind = "started" => Head(feed).item \in Nat
         /\ Head(feed).kind = "completed" =>
              Head(feed) \in [kind : {"completed"}, unit : Units, item : Nat,
                              intent : {"none", "head", "exact"}, from : Heads, made : Heads]
BY DEF Notices

\* The ancestors of a commit are commits.
LEMMA PastType ==
  ASSUME repo \in [head : Heads, past : Seq(SUBSET Shas)], repo.head <= Len(repo.past)
  PROVE  Past(repo.head) \subseteq Shas
BY DEF Past, Heads, Unborn

\* HEAD moves to a commit, and only units see it.
LEMMA HeadBecomesType ==
  ASSUME RepoType, WorkType, IntakeType, NEW past \in Seq(SUBSET Shas), NEW c \in Shas, c <= Len(past),
         Len(past) <= MaxMade, HeadBecomes(past, c)
  PROVE  RepoType'
<1>1. UnderWay \subseteq Units
  BY IntakeShape DEF IntakeType, UnderWay, Units, Inserting, Observing
<1>2. c \in Heads
  BY WorkUnitCommitsAssumption DEF Shas, Heads
<1> QED BY <1>1, <1>2 DEF HeadBecomes, RepoType

\* A new commit is HEAD, and the next in number.
LEMMA MakesCommitType ==
  ASSUME RepoType, WorkType, IntakeType, MakesCommit
  PROVE  RepoType' /\ Len(repo.past) + 1 \in Heads
<1> DEFINE c == Len(repo.past) + 1
           past == Append(repo.past, Past(repo.head) \union {c})
<1>1. c \in Shas /\ c \in Heads
  BY WorkUnitCommitsAssumption DEF MakesCommit, RepoType, Shas, Heads
<1>2. Past(repo.head) \union {c} \in SUBSET Shas
  BY <1>1, PastType DEF RepoType
<1>3. past \in Seq(SUBSET Shas) /\ Len(past) = c
  BY <1>1, <1>2 DEF RepoType
<1>4. HeadBecomes(past, c) /\ c <= MaxMade
  BY DEF MakesCommit
<1> HIDE DEF c, past
<1>5. c <= Len(past) /\ Len(past) <= MaxMade
  BY <1>1, <1>3, <1>4 DEF Shas
<1> QED BY <1>1, <1>3, <1>4, <1>5, HeadBecomesType DEF c

\* At the start the types are right.
LEMMA TypeInit == ProofInit => TypeOK
<1> SUFFICES ASSUME ProofInit PROVE TypeOK
  OBVIOUS
<1> USE WorkUnitCommitsAssumption
<1>1. NoContext \in Contexts
  BY DEF NoContext, Contexts, Heads, Unborn
<1>2. work \in [Units -> Contexts]
  BY <1>1 DEF ProofInit, Units
<1>3. repo \in [head : Heads, past : Seq(SUBSET Shas)] /\ Len(repo.past) = 0 /\ repo.head = 0
  BY DEF ProofInit, Heads, Unborn
<1>4. intake \in Intakes
  BY IntakeCases DEF ProofInit
<1>5. beginning \in [unit : 0..MaxUnit, gen : Nat, before : Heads,
                     at : {"none", "observed", "inserted"}] /\ beginning.at = "none"
  BY DEF ProofInit, NotBeginning, Heads, Unborn, NoUnit
<1>6. mainTurn \in [unit : 0..MaxUnit, running : SUBSET Running] /\ mainTurn.running = {}
  BY DEF ProofInit, NoMainTurn, NoUnit
<1>7. handed \in [Shas -> Nat]
  BY DEF ProofInit, Shas
<1> QED BY <1>2, <1>3, <1>4, <1>5, <1>6, <1>7
  DEF ProofInit, TypeOK, RepoType, TurnType, FeedType, BeginType, WorkType, EraType, IntakeType,
      LedgerType, CountType

\* Which steps change what.
LEMMA Frames ==
  ASSUME [ProofNext]_proofVars
  PROVE  /\ UNCHANGED <<repo, reached>> \/ SomeoneCommits \/ SomeoneMovesHead \/ CommandCommits
         /\ \/ UNCHANGED mainTurn \/ CommandBegins \/ CommandCommits \/ CommandEnds \/ TurnEnds
            \/ StartUnit \/ LoseServer
         /\ \/ UNCHANGED feed \/ CommandBegins \/ CommandEnds \/ TurnEnds \/ LoseServer
            \/ TakeStarted \/ TakeCompleted \/ TakeTerminal
         /\ UNCHANGED beginning \/ BeginObserve \/ BeginInsert \/ StartUnit \/ Abandon
         /\ UNCHANGED units \/ BeginObserve
         /\ \/ UNCHANGED work \/ BeginInsert \/ Abandon \/ InvalidateGeneration
            \/ InsertCandidate \/ TakeCompleted \/ PushProof \/ TakeTerminal
         /\ UNCHANGED workEra \/ LoseServer
         /\ UNCHANGED cutEras \/ InvalidateGeneration
         /\ \/ UNCHANGED intake \/ TakeStarted \/ InspectHead \/ InsertCandidate \/ TakeCompleted
            \/ ObserveHead \/ ProveCommit \/ PushProof \/ TakeTerminal \/ CaptureAfter
            \/ ListCommits \/ AppendEvidence \/ AppendWorkUnit \/ HandOver
         /\ UNCHANGED evidence \/ AppendEvidence
         /\ UNCHANGED recorded \/ AppendWorkUnit
         /\ UNCHANGED handed \/ HandOver
         /\ UNCHANGED ended \/ TakeTerminal
         /\ UNCHANGED items \/ CommandBegins
         /\ UNCHANGED moved \/ SomeoneMovesHead
         /\ UNCHANGED gitFailures \/ gitFailures' = gitFailures + 1
<1> USE DEF proofCounters, workVars, ledgerVars, ServerStays, BeginStays, LoopStays, GitFails
<1>1. CASE SomeoneCommits
  BY <1>1 DEF SomeoneCommits
<1>2. CASE SomeoneMovesHead
  BY <1>2 DEF SomeoneMovesHead
<1>3. CASE CommandBegins
  BY <1>3 DEF CommandBegins
<1>4. CASE CommandCommits
  BY <1>4 DEF CommandCommits
<1>5. CASE CommandEnds
  BY <1>5 DEF CommandEnds
<1>6. CASE TurnEnds
  BY <1>6 DEF TurnEnds
<1>7. CASE BeginObserve
  BY <1>7 DEF BeginObserve
<1>8. CASE BeginInsert
  BY <1>8 DEF BeginInsert
<1>9. CASE StartUnit
  BY <1>9 DEF StartUnit
<1>10. CASE Abandon
  BY <1>10 DEF Abandon
<1>11. CASE LoseServer
  BY <1>11 DEF LoseServer
<1>12. CASE InvalidateGeneration
  BY <1>12 DEF InvalidateGeneration
<1>13. CASE TakeStarted
  BY <1>13 DEF TakeStarted
<1>14. CASE InspectHead
  BY <1>14 DEF InspectHead
<1>15. CASE InsertCandidate
  BY <1>15 DEF InsertCandidate
<1>16. CASE TakeCompleted
  BY <1>16 DEF TakeCompleted
<1>17. CASE ObserveHead
  BY <1>17 DEF ObserveHead
<1>18. CASE ProveCommit
  BY <1>18 DEF ProveCommit
<1>19. CASE PushProof
  BY <1>19 DEF PushProof
<1>20. CASE TakeTerminal
  BY <1>20 DEF TakeTerminal
<1>21. CASE CaptureAfter
  BY <1>21 DEF CaptureAfter
<1>22. CASE ListCommits
  BY <1>22 DEF ListCommits
<1>23. CASE AppendEvidence
  BY <1>23 DEF AppendEvidence
<1>24. CASE AppendWorkUnit
  BY <1>24 DEF AppendWorkUnit
<1>25. CASE HandOver
  BY <1>25 DEF HandOver
<1>26. CASE UNCHANGED proofVars
  BY <1>26 DEF proofVars
<1> QED
  BY <1>1, <1>2, <1>3, <1>4, <1>5, <1>6, <1>7, <1>8, <1>9, <1>10, <1>11, <1>12, <1>13, <1>14, <1>15, <1>16,
     <1>17, <1>18, <1>19, <1>20, <1>21, <1>22, <1>23, <1>24, <1>25, <1>26 DEF ProofNext

\* HEAD and what has been reached.
LEMMA RepoStep == ASSUME TypeOK, [ProofNext]_proofVars PROVE RepoType'
<1> USE DEF TypeOK
<1>1. CASE UNCHANGED <<repo, reached>>
  BY <1>1 DEF RepoType
<1>2. CASE SomeoneCommits
  BY <1>2, MakesCommitType DEF SomeoneCommits
<1>3. CASE SomeoneMovesHead
  <2>1. PICK c \in Made \ {repo.head} : HeadBecomes(repo.past, c)
    BY <1>3 DEF SomeoneMovesHead
  <2>2. c \in Shas /\ c <= Len(repo.past)
    BY WorkUnitCommitsAssumption DEF Made, RepoType, Shas
  <2> QED BY <2>1, <2>2, HeadBecomesType DEF RepoType
<1>4. CASE CommandCommits
  BY <1>4, MakesCommitType DEF CommandCommits
<1> QED BY <1>1, <1>2, <1>3, <1>4, Frames

\* The turn and its commands.
LEMMA TurnStep == ASSUME TypeOK, [ProofNext]_proofVars PROVE TurnType'
<1> USE WorkUnitCommitsAssumption DEF TypeOK, TurnType
<1>1. CASE UNCHANGED mainTurn
  BY <1>1
<1>2. CASE CommandBegins
  <2>1. PICK exact \in BOOLEAN :
          mainTurn' = [mainTurn EXCEPT !.running = @ \union
            {[item |-> items + 1, exact |-> exact, from |-> Unborn, made |-> Unborn]}]
    BY <1>2 DEF CommandBegins
  <2>2. [item |-> items + 1, exact |-> exact, from |-> Unborn, made |-> Unborn] \in Running
    BY DEF Running, Heads, Unborn, CountType
  <2> QED BY <1>2, <2>1, <2>2 DEF CommandBegins
<1>3. CASE CommandCommits
  <2>1. PICK k \in mainTurn.running :
          mainTurn' = [mainTurn EXCEPT !.running = (@ \ {k}) \union
            {[k EXCEPT !.from = repo.head, !.made = Len(repo.past) + 1]}]
    BY <1>3 DEF CommandCommits
  <2>2. Len(repo.past) + 1 \in Heads /\ repo.head \in Heads
    BY <1>3, MakesCommitType DEF CommandCommits, RepoType
  <2>3. [k EXCEPT !.from = repo.head, !.made = Len(repo.past) + 1] \in Running
    BY <2>2 DEF Running
  <2>4. mainTurn.unit # NoUnit
    BY <2>1
  <2> QED BY <2>1, <2>3, <2>4
<1>4. CASE CommandEnds
  BY <1>4 DEF CommandEnds
<1>5. CASE TurnEnds \/ LoseServer
  BY <1>5 DEF TurnEnds, LoseServer, NoMainTurn, NoUnit
<1>6. CASE StartUnit
  BY <1>6 DEF StartUnit, NoMainTurn, NoUnit, BeginType
<1> QED BY <1>1, <1>2, <1>3, <1>4, <1>5, <1>6, Frames

\* The notices on their way.
LEMMA FeedStep == ASSUME TypeOK, [ProofNext]_proofVars PROVE FeedType'
<1> USE DEF TypeOK, FeedType
<1>1. CASE UNCHANGED feed
  BY <1>1
<1>0. mainTurn.unit # NoUnit => mainTurn.unit \in Units
  BY WorkUnitCommitsAssumption DEF TurnType, Units, NoUnit
<1>2. CASE CommandBegins
  <2>1. [kind |-> "started", unit |-> mainTurn.unit, item |-> items + 1] \in Notices
    BY <1>0, <1>2 DEF CommandBegins, Notices, CountType
  <2> QED BY <1>2, <2>1 DEF CommandBegins
<1>3. CASE CommandEnds
  <2>1. PICK k \in mainTurn.running : \E intent \in Intents(k) :
          feed' = Append(feed, [kind |-> "completed", unit |-> mainTurn.unit, item |-> k.item,
                                intent |-> intent, from |-> k.from, made |-> k.made])
    BY <1>3 DEF CommandEnds
  <2>2. k \in Running /\ mainTurn.unit \in Units
    BY <1>0 DEF TurnType
  <2>3. ASSUME NEW intent \in Intents(k)
        PROVE  [kind |-> "completed", unit |-> mainTurn.unit, item |-> k.item, intent |-> intent,
                from |-> k.from, made |-> k.made] \in Notices
    BY <2>2 DEF Running, Notices, Intents
  <2> QED BY <2>1, <2>3
<1>4. CASE TurnEnds
  <2>1. [kind |-> "terminal", unit |-> mainTurn.unit] \in Notices
    BY <1>0, <1>4 DEF TurnEnds, Notices
  <2> QED BY <1>4, <2>1 DEF TurnEnds
<1>5. CASE LoseServer
  BY <1>5 DEF LoseServer
<1>6. CASE TakeStarted \/ TakeCompleted \/ TakeTerminal
  BY <1>6, FeedFacts DEF TakeStarted, TakeCompleted, TakeTerminal, NextNotification
<1> QED BY <1>1, <1>2, <1>3, <1>4, <1>5, <1>6, Frames

\* The start that is under way.
LEMMA BeginStep == ASSUME TypeOK, [ProofNext]_proofVars PROVE BeginType'
<1> USE WorkUnitCommitsAssumption DEF TypeOK, BeginType
<1>1. NotBeginning \in [unit : 0..MaxUnit, gen : Nat, before : Heads,
                        at : {"none", "observed", "inserted"}] /\ NotBeginning.at = "none"
  BY DEF NotBeginning, NoUnit, Unborn, Heads
<1>2. CASE BeginObserve
  BY <1>2 DEF BeginObserve, EraType, RepoType, NoUnit
<1>3. CASE ~BeginObserve
  <2>1. UNCHANGED units
    BY <1>3, Frames
  <2>2. CASE UNCHANGED beginning
    BY <2>1, <2>2
  <2>3. CASE BeginInsert
    BY <1>1, <2>1, <2>3 DEF BeginInsert
  <2>4. CASE StartUnit \/ Abandon
    BY <1>1, <2>1, <2>4 DEF StartUnit, Abandon
  <2> QED BY <1>3, <2>2, <2>3, <2>4, Frames
<1> QED BY <1>2, <1>3

\* The contexts.
LEMMA WorkStep == ASSUME TypeOK, [ProofNext]_proofVars PROVE WorkType'
<1> USE WorkUnitCommitsAssumption DEF TypeOK, WorkType
<1>0. NoContext \in Contexts
  BY DEF NoContext, Contexts, Heads, Unborn
<1>1. CASE UNCHANGED work
  BY <1>1
<1>2. CASE BeginInsert
  <2>1. [NoContext EXCEPT !.gen = beginning.gen, !.before = beginning.before] \in Contexts
    BY <1>0 DEF BeginType, Contexts
  <2> QED BY <1>2, <2>1 DEF BeginInsert
<1>3. CASE Abandon
  BY <1>0, <1>3 DEF Abandon
<1>4. CASE InvalidateGeneration
  BY <1>0, <1>4 DEF InvalidateGeneration, Units
<1>5. CASE InsertCandidate
  <2>1. intake \in Inserting
    BY <1>5, IntakeShape DEF InsertCandidate, IntakeType
  <2>2. [work[intake.unit] EXCEPT !.candidates = @ \union
           {[item |-> intake.item, before |-> intake.before]}] \in Contexts
    BY <2>1 DEF Inserting, Contexts
  <2> QED BY <1>5, <2>1, <2>2 DEF InsertCandidate, Inserting
<1>6. CASE TakeCompleted
  <2> DEFINE n == Head(feed)
             found == IF HasContext(n.unit) THEN CandidateFor(n.unit, n.item) ELSE {}
  <2>1. n.unit \in Units
    BY <1>6, FeedFacts DEF TakeCompleted, NextNotification, FeedType
  <2>2. work' = IF found = {} THEN work ELSE [work EXCEPT ![n.unit].candidates = @ \ found]
    BY <1>6 DEF TakeCompleted
  <2> HIDE DEF n, found
  <2>3. [work[n.unit] EXCEPT !.candidates = @ \ found] \in Contexts
    BY <2>1 DEF Contexts
  <2> QED BY <2>1, <2>2, <2>3
<1>7. CASE PushProof
  <2>1. intake \in Pushing
    BY <1>7, IntakeShape DEF PushProof, IntakeType
  <2>2. Append(work[intake.unit].proofs, intake.sha) \in Seq(Shas)
    BY <2>1 DEF Pushing, Contexts
  <2>3. [work[intake.unit] EXCEPT !.proofs = Append(@, intake.sha)] \in Contexts
    BY <2>1, <2>2 DEF Pushing, Contexts
  <2> QED BY <1>7, <2>1, <2>3 DEF PushProof, Pushing
<1>8. CASE TakeTerminal
  BY <1>0, <1>8 DEF TakeTerminal
<1> QED BY <1>1, <1>2, <1>3, <1>4, <1>5, <1>6, <1>7, <1>8, Frames

\* The generations.
LEMMA EraStep == ASSUME TypeOK, [ProofNext]_proofVars PROVE EraType'
<1> USE DEF TypeOK, EraType
<1>1. workEra' \in Nat \ {0}
  BY Frames DEF LoseServer
<1>2. cutEras' \in SUBSET (Nat \ {0})
  BY Frames DEF InvalidateGeneration
<1> QED BY <1>1, <1>2

\* The candidate that a finished command is matched with.
LEMMA FoundType ==
  ASSUME TypeOK, NEW u \in Units, NEW i, CandidateFor(u, i) # {}
  PROVE  /\ (CHOOSE k \in CandidateFor(u, i) : TRUE) \in work[u].candidates
         /\ (CHOOSE k \in CandidateFor(u, i) : TRUE).before \in Heads
<1>1. CandidateFor(u, i) \subseteq work[u].candidates
  BY DEF CandidateFor
<1>2. (CHOOSE k \in CandidateFor(u, i) : TRUE) \in CandidateFor(u, i)
  OBVIOUS
<1>3. \A k \in work[u].candidates : k.before \in Heads
  BY DEF TypeOK, WorkType, Contexts
<1> QED BY <1>1, <1>2, <1>3

\* What the loop is at.
LEMMA IntakeStep == ASSUME TypeOK, [ProofNext]_proofVars PROVE IntakeType'
<1> USE IntakeCases, IntakeShape DEF TypeOK, IntakeType, Returns
<1>0. repo.head \in Heads
  BY DEF RepoType
<1>1. CASE UNCHANGED intake
  BY <1>1
<1>2. CASE TakeStarted
  <2>1. Head(feed).unit \in Units /\ Head(feed).item \in Nat
    BY <1>2, FeedFacts DEF TakeStarted, NextNotification, FeedType
  <2>2. [at |-> "inspect", unit |-> Head(feed).unit, item |-> Head(feed).item] \in Intakes
    BY <2>1
  <2> QED BY <1>2, <2>2 DEF TakeStarted
<1>3. CASE InspectHead
  <2>1. [at |-> "insert", unit |-> intake.unit, item |-> intake.item, before |-> HeadBefore]
          \in Inserting
    BY <1>0, <1>3 DEF InspectHead, Inserting, HeadBefore
  <2> QED BY <1>3, <2>1 DEF InspectHead
<1>4. CASE InsertCandidate \/ PushProof
  BY <1>4 DEF InsertCandidate, PushProof
<1>5. CASE TakeCompleted
  <2> DEFINE n == Head(feed)
             found == IF HasContext(n.unit) THEN CandidateFor(n.unit, n.item) ELSE {}
             taken == CHOOSE k \in found : TRUE
             next == [at |-> "observe", unit |-> n.unit, before |-> taken.before,
                      intent |-> n.intent, from |-> n.from, made |-> n.made]
  <2>1. n \in [kind : {"completed"}, unit : Units, item : Nat,
               intent : {"none", "head", "exact"}, from : Heads, made : Heads]
    BY <1>5, FeedFacts DEF TakeCompleted, NextNotification, FeedType
  <2>2. intake' = IF found = {} \/ n.intent = "none" THEN IdleIntake ELSE next
    BY <1>5 DEF TakeCompleted
  <2>3. ASSUME found # {} PROVE taken.before \in Heads
    BY <2>1, <2>3, FoundType
  <2>4. ASSUME found # {} PROVE next \in Observing
    BY <2>1, <2>3, <2>4 DEF Observing
  <2> QED BY <2>2, <2>4
<1>6. CASE ObserveHead
  <2>1. ASSUME HasMoved(repo.head)
        PROVE  [at |-> "prove", unit |-> intake.unit, before |-> intake.before,
                sha |-> repo.head] \in Proving
    BY <1>0, <1>6, <2>1, WorkUnitCommitsAssumption
    DEF ObserveHead, Observing, Proving, HasMoved, Heads, Shas, Unborn
  <2> QED BY <1>6, <2>1 DEF ObserveHead
<1>7. CASE ProveCommit
  <2>1. [at |-> "push", unit |-> intake.unit, sha |-> intake.sha] \in Pushing
    BY <1>7 DEF ProveCommit, Proving, Pushing
  <2> QED BY <1>7, <2>1 DEF ProveCommit
<1>8. CASE TakeTerminal
  <2> DEFINE u == Head(feed).unit
  <2>1. u \in Units
    BY <1>8, FeedFacts DEF TakeTerminal, NextNotification, FeedType
  <2>2. ProvenShas(work[u]) \in SUBSET Shas /\ work[u].before \in Heads
    BY <2>1 DEF WorkType, Contexts, ProvenShas
  <2>3. [at |-> "capture", unit |-> u, before |-> work[u].before, todo |-> ProvenShas(work[u])]
          \in Capturing
    BY <2>1, <2>2 DEF Capturing
  <2> QED BY <1>8, <2>3 DEF TakeTerminal
<1>9. CASE CaptureAfter
  <2>1. [at |-> "list", unit |-> intake.unit, before |-> intake.before, after |-> repo.head,
         todo |-> intake.todo] \in Listing
    BY <1>0, <1>9 DEF CaptureAfter, Capturing, Listing
  <2> QED BY <1>9, <2>1 DEF CaptureAfter
<1>10. CASE ListCommits
  <2>1. [at |-> "append", unit |-> intake.unit, all |-> intake.todo, todo |-> intake.todo]
          \in Appending
    BY <1>10 DEF ListCommits, Listing, Appending
  <2> QED BY <1>10, <2>1 DEF ListCommits
<1>11. CASE AppendEvidence
  <2>1. ASSUME NEW c PROVE [intake EXCEPT !.todo = @ \ {c}] \in Appending
    BY <1>11 DEF AppendEvidence, Appending
  <2> QED BY <1>11, <2>1 DEF AppendEvidence
<1>12. CASE AppendWorkUnit
  <2>1. [at |-> "hand", todo |-> intake.all] \in [at : {"hand"}, todo : SUBSET Shas]
    BY <1>12 DEF AppendWorkUnit, Appending
  <2> QED BY <1>12, <2>1 DEF AppendWorkUnit
<1>13. CASE HandOver
  <2>1. ASSUME NEW c PROVE [intake EXCEPT !.todo = @ \ {c}] \in [at : {"hand"}, todo : SUBSET Shas]
    BY <1>13 DEF HandOver
  <2> QED BY <1>13, <2>1 DEF HandOver
<1> QED BY <1>1, <1>2, <1>3, <1>4, <1>5, <1>6, <1>7, <1>8, <1>9, <1>10, <1>11, <1>12, <1>13,
           Frames

\* What is recorded.
LEMMA LedgerStep == ASSUME TypeOK, [ProofNext]_proofVars PROVE LedgerType'
<1> USE DEF TypeOK, LedgerType
<1>1. evidence' \in SUBSET [commit : Shas, unit : Units]
  <2>1. CASE AppendEvidence
    BY <2>1, IntakeShape DEF AppendEvidence, IntakeType, Appending, Oldest
  <2> QED BY <2>1, Frames
<1>2. recorded' \in SUBSET [unit : Units, commits : SUBSET Shas]
  <2>1. CASE AppendWorkUnit
    BY <2>1, IntakeShape DEF AppendWorkUnit, IntakeType, Appending
  <2> QED BY <2>1, Frames
<1>3. handed' \in [Shas -> Nat]
  BY Frames DEF HandOver
<1>4. ended' \in SUBSET Units
  <2>1. CASE TakeTerminal
    BY <2>1, FeedFacts DEF TakeTerminal, NextNotification, FeedType
  <2> QED BY <2>1, Frames
<1> QED BY <1>1, <1>2, <1>3, <1>4

\* The bounds.
LEMMA CountStep == ASSUME TypeOK, [ProofNext]_proofVars PROVE CountType'
BY Frames DEF TypeOK, CountType, CommandBegins, SomeoneMovesHead

\* Every step keeps the types.
LEMMA TypeStep == TypeOK /\ [ProofNext]_proofVars => TypeOK'
BY RepoStep, TurnStep, FeedStep, BeginStep, WorkStep, EraStep, IntakeStep, LedgerStep, CountStep
DEF TypeOK

\* The repository, the turn and its notices, the units and what is recorded of them are
\* always of the kind their names say.
THEOREM TypeCorrect == ProofSpec => []TypeOK
BY TypeInit, TypeStep, PTL DEF ProofSpec

-----------------------------------------------------------------------------
(* The invariants, one after the other.                                    *)

\* A context that is taken away is in nobody's generation.
LEMMA NoContextFacts == NoContext.gen = 0 /\ NoContext.candidates = {} /\ NoContext.proofs = << >>
BY DEF NoContext

\* A step of the loop on a context keeps its generation.
LEMMA LoopKeepsContexts ==
  ASSUME TypeOK, InsertCandidate \/ TakeCompleted \/ PushProof
  PROVE  /\ work' \in [Units -> Contexts]
         /\ \A u \in Units : work'[u].gen = work[u].gen
         /\ \A u \in Units : ~HasContext(u) => work'[u].candidates = work[u].candidates
<1> USE DEF TypeOK, WorkType
<1>0. work' \in [Units -> Contexts]
  <2>1. [ProofNext]_proofVars
    BY DEF ProofNext
  <2> QED BY <2>1, WorkStep
<1>1. CASE InsertCandidate
  BY <1>0, <1>1 DEF InsertCandidate, HasContext, Contexts
<1>2. CASE TakeCompleted
  <2> DEFINE n == Head(feed)
             found == IF HasContext(n.unit) THEN CandidateFor(n.unit, n.item) ELSE {}
  <2>1. work' = IF found = {} THEN work ELSE [work EXCEPT ![n.unit].candidates = @ \ found]
    BY <1>2 DEF TakeCompleted
  <2>2. found # {} => HasContext(n.unit)
    OBVIOUS
  <2> HIDE DEF n, found
  <2> QED BY <1>0, <2>1, <2>2 DEF HasContext, Contexts
<1>3. CASE PushProof
  BY <1>0, <1>3 DEF PushProof, HasContext, Contexts
<1> QED BY <1>1, <1>2, <1>3

\* What the loop leaves of the contexts, what ends one and what makes one.
LEMMA WorkFacts ==
  ASSUME TypeOK, [ProofNext]_proofVars
  PROVE  \/ \A u \in Units : work'[u].gen = work[u].gen
         \/ BeginInsert
         \/ (Abandon \/ TakeTerminal \/ InvalidateGeneration)
              /\ \A u \in Units : work'[u] = work[u] \/ work'[u] = NoContext
<1>1. CASE Abandon
  BY <1>1 DEF Abandon, TypeOK, WorkType
<1>2. CASE TakeTerminal
  BY <1>2 DEF TakeTerminal, TypeOK, WorkType
<1>3. CASE InvalidateGeneration
  BY <1>3 DEF InvalidateGeneration, Units
<1> QED BY <1>1, <1>2, <1>3, LoopKeepsContexts, Frames

\* No context of a generation that is cut comes to be or remains.
LEMMA CutStep == TypeOK /\ CutIsFinal /\ [ProofNext]_proofVars => CutIsFinal'
<1> SUFFICES ASSUME TypeOK, CutIsFinal, [ProofNext]_proofVars, NEW u \in Units
             PROVE  work'[u].gen \notin cutEras'
  BY DEF CutIsFinal, Units
<1> USE NoContextFacts DEF Units
<1>1. work[u].gen \notin cutEras /\ 0 \notin cutEras
  BY DEF CutIsFinal, TypeOK, EraType
<1>2. CASE InvalidateGeneration
  <2>1. PICK g \in 1..(workEra - 1) \ cutEras :
          /\ cutEras' = cutEras \union {g}
          /\ work' = [w \in 1..MaxUnit |-> IF work[w].gen = g THEN NoContext ELSE work[w]]
    BY <1>2 DEF InvalidateGeneration
  <2>2. g # 0
    BY <2>1 DEF TypeOK, EraType
  <2> QED BY <1>1, <2>1, <2>2
<1>3. CASE BeginInsert
  <2>1. UNCHANGED cutEras
    BY <1>3 DEF BeginInsert
  <2>2. CASE IsCut(beginning.gen)
    BY <1>1, <1>3, <2>1, <2>2 DEF BeginInsert
  <2>3. CASE ~IsCut(beginning.gen)
    <3>1. work' = [work EXCEPT ![beginning.unit] =
                     [NoContext EXCEPT !.gen = beginning.gen, !.before = beginning.before]]
      BY <1>3, <2>3 DEF BeginInsert
    <3>2. work'[u].gen \in {work[u].gen, beginning.gen}
      BY <3>1 DEF TypeOK, WorkType, NoContext
    <3> QED BY <1>1, <2>1, <2>3, <3>2 DEF IsCut
  <2> QED BY <2>2, <2>3
<1>4. CASE ~InvalidateGeneration /\ ~BeginInsert
  BY <1>1, <1>4, WorkFacts, Frames
<1> QED BY <1>2, <1>3, <1>4

\* A unit has its context once.
LEMMA UnitsStep == TypeOK /\ UnitsAreNew /\ [ProofNext]_proofVars => UnitsAreNew'
<1> SUFFICES ASSUME TypeOK, UnitsAreNew, [ProofNext]_proofVars PROVE UnitsAreNew'
  OBVIOUS
<1> USE NoContextFacts
<1>0. TypeOK'
  BY TypeStep
<1>1. CASE BeginObserve
  <2>1. /\ beginning'.unit = units + 1 /\ beginning'.at = "observed" /\ units' = units + 1
        /\ UNCHANGED <<work, ended>>
    BY <1>1 DEF BeginObserve, BeginStays, ledgerVars
  <2> QED BY <2>1 DEF UnitsAreNew, HasContext, TypeOK, BeginType, LedgerType, Units
<1>2. CASE BeginInsert
  <2>1. UNCHANGED <<units, ended>> /\ beginning'.at # "observed"
    BY <1>2 DEF BeginInsert, BeginStays, ledgerVars, NotBeginning, TypeOK, BeginType
  <2>2. \A u \in Units : \/ work'[u] = work[u]
                         \/ /\ u = beginning.unit /\ work'[u].candidates = {}
    BY <1>2 DEF BeginInsert, TypeOK, WorkType, NoContext
  <2>3. beginning.unit <= units /\ beginning.unit \notin ended
    BY <1>2 DEF BeginInsert, UnitsAreNew
  <2> QED BY <2>1, <2>2, <2>3 DEF UnitsAreNew, HasContext
<1>3. CASE TakeTerminal
  <2>1. UNCHANGED <<beginning, units>>
    BY <1>3 DEF TakeTerminal, LoopStays
  <2>2. CASE ~HasContext(Head(feed).unit)
    BY <1>3, <2>1, <2>2 DEF TakeTerminal, UnitsAreNew, HasContext
  <2>3. CASE HasContext(Head(feed).unit)
    <3>1. Head(feed).unit \in Units
      BY <1>3, FeedFacts DEF TakeTerminal, NextNotification, TypeOK, FeedType
    <3>2. /\ work' = [work EXCEPT ![Head(feed).unit] = NoContext]
          /\ ended' = ended \union {Head(feed).unit}
      BY <1>3, <2>3 DEF TakeTerminal
    <3> QED BY <2>1, <2>3, <3>1, <3>2 DEF UnitsAreNew, HasContext, TypeOK, WorkType
  <2> QED BY <2>2, <2>3
<1>4. CASE InsertCandidate \/ TakeCompleted \/ PushProof
  <2>1. UNCHANGED <<beginning, units, ended>>
    BY <1>4 DEF InsertCandidate, TakeCompleted, PushProof, LoopStays, ledgerVars
  <2> QED BY <1>4, <2>1, LoopKeepsContexts DEF UnitsAreNew, HasContext
<1>5. CASE StartUnit \/ Abandon
  <2>1. UNCHANGED <<units, ended>> /\ beginning'.at = "none"
    BY <1>5 DEF StartUnit, Abandon, BeginStays, ledgerVars, NotBeginning
  <2>2. \A u \in Units : work'[u] = work[u] \/ work'[u] = NoContext
    BY <1>5 DEF StartUnit, Abandon, TypeOK, WorkType
  <2> QED BY <2>1, <2>2 DEF UnitsAreNew, HasContext
<1>6. CASE InvalidateGeneration
  <2>1. UNCHANGED <<units, ended, beginning>>
    BY <1>6 DEF InvalidateGeneration, BeginStays, ledgerVars
  <2>2. \A u \in Units : work'[u] = work[u] \/ work'[u] = NoContext
    BY <1>6 DEF InvalidateGeneration, Units
  <2> QED BY <2>1, <2>2 DEF UnitsAreNew, HasContext
<1>7. CASE UNCHANGED <<beginning, units, work, ended>>
  BY <1>7 DEF UnitsAreNew, HasContext
<1> QED BY <1>1, <1>2, <1>3, <1>4, <1>5, <1>6, <1>7, Frames

\* HEAD moves under the eyes of the units that have a command under way.
LEMMA SeenStays ==
  ASSUME TypeOK, [ProofNext]_proofVars, NEW u \in Units, NEW b, Seen(u, b), u \in UnderWay
  PROVE  Seen(u, b)'
<1>1. CASE UNCHANGED <<repo, reached>>
  BY <1>1 DEF Seen
<1>2. ASSUME NEW past, NEW c, HeadBecomes(past, c) PROVE <<u, repo'.head>> \in reached'
  BY <1>2 DEF HeadBecomes
<1>3. CASE SomeoneCommits \/ SomeoneMovesHead \/ CommandCommits
  BY <1>2, <1>3 DEF SomeoneCommits, SomeoneMovesHead, CommandCommits, MakesCommit, Seen
<1> QED BY <1>1, <1>3, Frames

\* What has been reached stays reached.
LEMMA ReachedStays == ASSUME [ProofNext]_proofVars PROVE reached \subseteq reached'
BY Frames DEF SomeoneCommits, SomeoneMovesHead, CommandCommits, MakesCommit, HeadBecomes

\* A unit with a candidate has a command under way, and so has the one in hand.
LEMMA UnderWayFacts ==
  ASSUME TypeOK, UnitsAreNew
  PROVE  /\ \A u \in Units : work[u].candidates # {} => u \in UnderWay
         /\ intake.at \in {"insert", "observe"} => intake.unit \in UnderWay /\ intake.unit \in Units
<1>1. \A u \in Units : work[u].candidates # {} => u \in UnderWay
  BY DEF UnitsAreNew, UnderWay, Units
<1>2. intake.at \in {"insert", "observe"} => intake.unit \in UnderWay /\ intake.unit \in Units
  BY IntakeShape DEF UnderWay, TypeOK, IntakeType, Inserting, Observing
<1> QED BY <1>1, <1>2

\* The candidates of a unit have seen what became of HEAD.
LEMMA CandidatesStep ==
  ASSUME TypeOK, UnitsAreNew, ProofsAreReached, [ProofNext]_proofVars,
         NEW u \in Units, NEW k \in work'[u].candidates
  PROVE  Seen(u, k.before)'
<1> USE NoContextFacts DEF TypeOK, WorkType
<1>1. CASE k \in work[u].candidates
  BY <1>1, UnderWayFacts, SeenStays DEF ProofsAreReached
<1>2. CASE InsertCandidate /\ k \notin work[u].candidates
  <2>1. u = intake.unit /\ k = [item |-> intake.item, before |-> intake.before]
    BY <1>2 DEF InsertCandidate, Contexts
  <2>2. Seen(u, intake.before) /\ u \in UnderWay
    BY <1>2, <2>1, UnderWayFacts DEF InsertCandidate, ProofsAreReached
  <2> QED BY <2>1, <2>2, SeenStays
<1>3. CASE ~InsertCandidate
  <2>1. CASE TakeCompleted
    <3> DEFINE n == Head(feed)
               found == IF HasContext(n.unit) THEN CandidateFor(n.unit, n.item) ELSE {}
    <3>1. work' = IF found = {} THEN work ELSE [work EXCEPT ![n.unit].candidates = @ \ found]
      BY <2>1 DEF TakeCompleted
    <3> HIDE DEF n, found
    <3> QED BY <1>1, <3>1 DEF Contexts
  <2>2. CASE PushProof
    BY <1>1, <2>2 DEF PushProof, Contexts
  <2>3. CASE BeginInsert
    BY <1>1, <2>3 DEF BeginInsert, NoContext
  <2>4. CASE Abandon \/ TakeTerminal
    BY <1>1, <2>4 DEF Abandon, TakeTerminal
  <2>5. CASE InvalidateGeneration
    BY <1>1, <2>5 DEF InvalidateGeneration, Units
  <2> QED BY <1>1, <1>3, <2>1, <2>2, <2>3, <2>4, <2>5, Frames
<1> QED BY <1>1, <1>2, <1>3

\* The proofs of a unit are of commits it has reached.
LEMMA ProofListStep ==
  ASSUME TypeOK, ProofsAreReached, [ProofNext]_proofVars,
         NEW u \in Units, NEW i \in DOMAIN work'[u].proofs
  PROVE  <<u, work'[u].proofs[i]>> \in reached'
<1> USE NoContextFacts DEF TypeOK, WorkType
<1>1. CASE work'[u].proofs = work[u].proofs
  BY <1>1, ReachedStays DEF ProofsAreReached
<1>2. CASE work'[u].proofs = << >>
  BY <1>2
<1>3. CASE PushProof
  <2>1. CASE HasContext(intake.unit) /\ u = intake.unit
    <3>1. intake \in Pushing
      BY <1>3, IntakeShape DEF PushProof, IntakeType
    <3>2. work'[u].proofs = Append(work[u].proofs, intake.sha)
      BY <1>3, <2>1 DEF PushProof, Contexts
    <3>3. work[u].proofs \in Seq(Shas) /\ intake.sha \in Shas
      BY <3>1 DEF Contexts, Pushing
    <3>4. i \in DOMAIN work[u].proofs \/ i = Len(work[u].proofs) + 1
      BY <3>2, <3>3
    <3>5. CASE i \in DOMAIN work[u].proofs
      <4>1. work'[u].proofs[i] = work[u].proofs[i]
        BY <3>2, <3>3, <3>5
      <4> QED BY <3>5, <4>1, ReachedStays DEF ProofsAreReached
    <3>6. CASE i = Len(work[u].proofs) + 1
      <4>1. work'[u].proofs[i] = intake.sha
        BY <3>2, <3>3, <3>6
      <4> QED BY <1>3, <2>1, <4>1, ReachedStays DEF ProofsAreReached, PushProof
    <3> QED BY <3>4, <3>5, <3>6
  <2>2. CASE ~(HasContext(intake.unit) /\ u = intake.unit)
    BY <1>1, <1>3, <2>2 DEF PushProof, Contexts
  <2> QED BY <2>1, <2>2
<1>4. CASE TakeCompleted
  <2> DEFINE n == Head(feed)
             found == IF HasContext(n.unit) THEN CandidateFor(n.unit, n.item) ELSE {}
  <2>1. work' = IF found = {} THEN work ELSE [work EXCEPT ![n.unit].candidates = @ \ found]
    BY <1>4 DEF TakeCompleted
  <2> HIDE DEF n, found
  <2> QED BY <1>1, <2>1 DEF Contexts
<1>5. CASE InsertCandidate
  BY <1>1, <1>5 DEF InsertCandidate, Contexts
<1>6. CASE BeginInsert
  BY <1>1, <1>2, <1>6 DEF BeginInsert, NoContext
<1>7. CASE Abandon \/ TakeTerminal
  BY <1>1, <1>2, <1>7 DEF Abandon, TakeTerminal
<1>8. CASE InvalidateGeneration
  BY <1>1, <1>2, <1>8 DEF InvalidateGeneration, Units
<1> QED BY <1>1, <1>3, <1>4, <1>5, <1>6, <1>7, <1>8, Frames

\* What the loop is at has seen what became of HEAD, or has been reached.
LEMMA IntakeReachStep ==
  ASSUME TypeOK, UnitsAreNew, ProofsAreReached, [ProofNext]_proofVars
  PROVE  /\ intake'.at \in {"insert", "observe"} => Seen(intake.unit, intake.before)'
         /\ intake'.at \in {"prove", "push"} => <<intake'.unit, intake'.sha>> \in reached'
         /\ intake'.at \in {"capture", "list", "append"} =>
              \A c \in intake'.todo : <<intake'.unit, c>> \in reached'
<1> USE DEF TypeOK, Returns, IdleIntake
<1>1. CASE UNCHANGED intake
  BY <1>1, UnderWayFacts, SeenStays, ReachedStays DEF ProofsAreReached, Seen
<1>2. CASE ~UNCHANGED intake
  <2>0. UNCHANGED repo /\ reached \subseteq reached'
    BY <1>2, Frames, ReachedStays DEF SomeoneCommits, SomeoneMovesHead, CommandCommits, ServerStays,
       workVars, ledgerVars, proofCounters
  <2>1. CASE TakeStarted \/ InsertCandidate \/ PushProof \/ AppendWorkUnit \/ HandOver
    <3>1. ASSUME HandOver PROVE intake'.at \in {"idle", "hand"}
      BY <3>1, IntakeShape DEF HandOver, IntakeType
    <3>2. intake'.at \in {"idle", "hand", "inspect"}
      BY <2>1, <3>1 DEF TakeStarted, InsertCandidate, PushProof, AppendWorkUnit
    <3> QED BY <3>2
  <2>2. CASE InspectHead
    BY <2>0, <2>2 DEF InspectHead, HeadBefore, Seen
  <2>3. CASE TakeCompleted
    <3> DEFINE n == Head(feed)
               found == IF HasContext(n.unit) THEN CandidateFor(n.unit, n.item) ELSE {}
               taken == CHOOSE k \in found : TRUE
               next == [at |-> "observe", unit |-> n.unit, before |-> taken.before,
                        intent |-> n.intent, from |-> n.from, made |-> n.made]
    <3>1. n.unit \in Units
      BY <2>3, FeedFacts DEF TakeCompleted, NextNotification, FeedType
    <3>2. intake' = IF found = {} \/ n.intent = "none" THEN IdleIntake ELSE next
      BY <2>3 DEF TakeCompleted
    <3>3. ASSUME found # {} PROVE Seen(n.unit, taken.before)
      <4>1. taken \in work[n.unit].candidates
        BY <3>1, <3>3, FoundType
      <4> QED BY <3>1, <4>1 DEF ProofsAreReached
    <3>4. ASSUME found # {} PROVE Seen(next.unit, next.before)
      BY <3>3, <3>4
    <3> HIDE DEF next, found
    <3>5. CASE found = {} \/ n.intent = "none"
      BY <3>2, <3>5
    <3>6. CASE found # {} /\ n.intent # "none"
      <4>1. intake' = next /\ next.at = "observe"
        BY <3>2, <3>6 DEF next
      <4> QED BY <2>0, <3>4, <3>6, <4>1 DEF Seen
    <3> QED BY <3>5, <3>6
  <2>4. CASE ObserveHead
    BY <2>0, <2>4 DEF ObserveHead, HasMoved, ProofsAreReached, Seen
  <2>5. CASE ProveCommit
    BY <2>0, <2>5 DEF ProveCommit, ProofsAreReached
  <2>6. CASE TakeTerminal
    <3>1. Head(feed).unit \in Units
      BY <2>6, FeedFacts DEF TakeTerminal, NextNotification, FeedType
    <3>2. \A c \in ProvenShas(work[Head(feed).unit]) : <<Head(feed).unit, c>> \in reached
      BY <3>1 DEF ProvenShas, ProofsAreReached
    <3> QED BY <2>0, <2>6, <3>2 DEF TakeTerminal
  <2>7. CASE CaptureAfter \/ ListCommits
    BY <2>0, <2>7 DEF CaptureAfter, ListCommits, ProofsAreReached
  <2>8. CASE AppendEvidence
    <3>1. intake \in Appending
      BY <2>8, IntakeShape DEF AppendEvidence, IntakeType
    <3> QED BY <2>0, <2>8, <3>1 DEF AppendEvidence, ProofsAreReached, Appending
  <2> QED BY <1>2, <2>1, <2>2, <2>3, <2>4, <2>5, <2>6, <2>7, <2>8, Frames
<1> QED BY <1>1, <1>2

\* What becomes evidence has been reached.
LEMMA ProofsStep ==
  TypeOK /\ UnitsAreNew /\ ProofsAreReached /\ [ProofNext]_proofVars => ProofsAreReached'
<1> SUFFICES ASSUME TypeOK, UnitsAreNew, ProofsAreReached, [ProofNext]_proofVars
             PROVE  ProofsAreReached'
  OBVIOUS
<1>1. \A u \in Units : \A k \in work'[u].candidates : Seen(u, k.before)'
  BY CandidatesStep
<1>2. \A u \in Units : \A i \in DOMAIN work'[u].proofs : <<u, work'[u].proofs[i]>> \in reached'
  BY ProofListStep
<1>3. AttributedWasReached'
  <2>1. CASE AppendEvidence
    <3>1. PICK c \in intake.todo :
            evidence' \subseteq evidence \union {[commit |-> c, unit |-> intake.unit]}
      BY <2>1 DEF AppendEvidence, Oldest
    <3>2. <<intake.unit, c>> \in reached
      BY <2>1, <3>1 DEF AppendEvidence, ProofsAreReached
    <3>3. \A e \in evidence : <<e.unit, e.commit>> \in reached
      BY DEF ProofsAreReached, AttributedWasReached
    <3>4. ASSUME NEW e \in evidence' PROVE <<e.unit, e.commit>> \in reached'
      <4>1. CASE e \in evidence
        BY <3>3, <4>1, ReachedStays
      <4>2. CASE e = [commit |-> c, unit |-> intake.unit]
        BY <3>2, <4>2, ReachedStays
      <4> QED BY <3>1, <4>1, <4>2
    <3> QED BY <3>4 DEF AttributedWasReached
  <2> QED BY <2>1, Frames, ReachedStays DEF ProofsAreReached, AttributedWasReached
<1> QED BY <1>1, <1>2, <1>3, IntakeReachStep DEF ProofsAreReached

\* The unit in hand is not recorded, and what is handed over is.
LEMMA LedgerOrderStep ==
  TypeOK /\ UnitsAreNew /\ LedgerIsInOrder /\ [ProofNext]_proofVars => LedgerIsInOrder'
<1> SUFFICES ASSUME TypeOK, UnitsAreNew, LedgerIsInOrder, [ProofNext]_proofVars
             PROVE  LedgerIsInOrder'
  OBVIOUS
<1> USE DEF TypeOK, Returns, IdleIntake
<1>1. CASE AppendEvidence
  <2>1. intake \in Appending /\ UNCHANGED <<recorded, handed, ended>>
    BY <1>1, IntakeShape DEF AppendEvidence, IntakeType
  <2>2. CASE UNCHANGED evidence /\ intake' = IdleIntake
    BY <2>1, <2>2 DEF LedgerIsInOrder, OneUnitPerCommit, RecordIsWhole, HandedOnce
  <2>3. ASSUME NEW c \in intake.todo, Belongs(c, intake.unit),
               evidence' = evidence \union {[commit |-> c, unit |-> intake.unit]},
               intake' = [intake EXCEPT !.todo = @ \ {c}]
        PROVE  LedgerIsInOrder'
    <3>1. OneUnitPerCommit'
      BY <2>3 DEF LedgerIsInOrder, OneUnitPerCommit, Belongs
    <3>2. RecordIsWhole' /\ HandedOnce'
      BY <2>1, <2>3 DEF LedgerIsInOrder, RecordIsWhole, HandedOnce
    <3>3. /\ intake'.at = "append" /\ intake'.unit = intake.unit
          /\ intake'.all = intake.all /\ intake'.todo = intake.todo \ {c}
      BY <2>1, <2>3 DEF Appending
    <3>4. \A d \in intake'.all \ intake'.todo : [commit |-> d, unit |-> intake'.unit] \in evidence'
      BY <1>1, <2>3, <3>3 DEF AppendEvidence, LedgerIsInOrder
    <3> QED BY <1>1, <2>1, <3>1, <3>2, <3>3, <3>4 DEF AppendEvidence, LedgerIsInOrder
  <2> QED BY <1>1, <2>2, <2>3 DEF AppendEvidence, Oldest
<1>2. CASE AppendWorkUnit
  <2>1. intake \in Appending /\ intake.todo = {} /\ UNCHANGED <<evidence, handed, ended>>
    BY <1>2, IntakeShape DEF AppendWorkUnit, IntakeType
  <2>2. CASE UNCHANGED recorded /\ intake' = IdleIntake
    BY <2>1, <2>2 DEF LedgerIsInOrder, OneUnitPerCommit, RecordIsWhole, HandedOnce
  <2>3. CASE /\ recorded' = recorded \union {[unit |-> intake.unit, commits |-> intake.all]}
             /\ intake' = [at |-> "hand", todo |-> intake.all]
    <3>1. \A c \in intake.all : [commit |-> c, unit |-> intake.unit] \in evidence
      BY <1>2, <2>1 DEF AppendWorkUnit, LedgerIsInOrder
    <3>2. \A c \in intake.all : handed[c] = 0
      <4>1. SUFFICES ASSUME NEW c \in intake.all, handed[c] # 0 PROVE FALSE
        OBVIOUS
      <4>2. c \in 1..MaxMade /\ handed[c] = 1
        BY <2>1, <4>1 DEF Appending, Shas, LedgerType, LedgerIsInOrder, HandedOnce
      <4>3. PICK r \in recorded : c \in r.commits
        BY <4>2 DEF LedgerIsInOrder, HandedOnce
      <4>4. [commit |-> c, unit |-> r.unit] \in evidence
        BY <4>3 DEF LedgerIsInOrder, RecordIsWhole
      <4>5. r.unit = intake.unit
        BY <3>1, <4>1, <4>4 DEF LedgerIsInOrder, OneUnitPerCommit
      <4> QED BY <1>2, <4>3, <4>5 DEF AppendWorkUnit, LedgerIsInOrder
    <3>3. RecordIsWhole'
      <4>1. ASSUME NEW r \in recorded', NEW c \in r.commits
            PROVE  [commit |-> c, unit |-> r.unit] \in evidence
        <5>1. CASE r \in recorded
          BY <5>1 DEF LedgerIsInOrder, RecordIsWhole
        <5>2. CASE r = [unit |-> intake.unit, commits |-> intake.all]
          BY <3>1, <5>2
        <5> QED BY <2>3, <5>1, <5>2
      <4> QED BY <2>1, <4>1 DEF RecordIsWhole
    <3>4. HandedOnce' /\ OneUnitPerCommit'
      BY <2>1, <2>3 DEF LedgerIsInOrder, HandedOnce, OneUnitPerCommit
    <3>5. \A r \in recorded' : r.unit \in ended'
      BY <1>2, <2>1, <2>3 DEF LedgerIsInOrder, AppendWorkUnit
    <3> QED BY <2>1, <2>3, <3>2, <3>3, <3>4, <3>5 DEF LedgerIsInOrder
  <2> QED BY <1>2, <2>2, <2>3 DEF AppendWorkUnit
<1>3. CASE HandOver
  <2>1. intake \in [at : {"hand"}, todo : SUBSET Shas] /\ UNCHANGED <<evidence, recorded, ended>>
    BY <1>3, IntakeShape DEF HandOver, IntakeType
  <2>2. \A c \in intake.todo : handed[c] = 0 /\ \E r \in recorded : c \in r.commits
    BY <1>3 DEF HandOver, LedgerIsInOrder
  <2>3. CASE UNCHANGED handed /\ intake' = IdleIntake
    BY <2>1, <2>3 DEF LedgerIsInOrder, OneUnitPerCommit, RecordIsWhole, HandedOnce
  <2>4. ASSUME NEW c \in intake.todo, intake' = [intake EXCEPT !.todo = @ \ {c}],
               handed' = [handed EXCEPT ![c] = @ + 1] \/ UNCHANGED handed
        PROVE  LedgerIsInOrder'
    <3>1. intake'.at = "hand" /\ intake'.todo = intake.todo \ {c}
      BY <2>1, <2>4
    <3>2. \A d \in Shas : d # c => handed'[d] = handed[d]
      BY <2>4 DEF LedgerType
    <3>3. handed'[c] \in {0, 1} /\ c \in Shas
      BY <2>1, <2>2, <2>4 DEF LedgerType
    <3>4. HandedOnce'
      BY <2>1, <2>2, <3>2, <3>3 DEF LedgerIsInOrder, HandedOnce, Shas
    <3>5. \A d \in intake'.todo : handed'[d] = 0 /\ \E r \in recorded' : d \in r.commits
      BY <2>1, <2>2, <3>1, <3>2
    <3> QED BY <2>1, <3>1, <3>4, <3>5 DEF LedgerIsInOrder, OneUnitPerCommit, RecordIsWhole
  <2> QED BY <1>3, <2>3, <2>4 DEF HandOver, Oldest
<1>4. CASE TakeTerminal
  <2>1. UNCHANGED <<evidence, recorded, handed>> /\ ended \subseteq ended'
    BY <1>4 DEF TakeTerminal
  <2>2. CASE intake' = IdleIntake
    BY <2>1, <2>2 DEF LedgerIsInOrder, OneUnitPerCommit, RecordIsWhole, HandedOnce
  <2>3. CASE intake' # IdleIntake
    <3>1. /\ Head(feed).unit \in Units /\ HasContext(Head(feed).unit)
          /\ Head(feed).unit \in ended' /\ intake'.at = "capture"
          /\ intake'.unit = Head(feed).unit
      BY <1>4, <2>3, FeedFacts DEF TakeTerminal, NextNotification, FeedType
    <3>2. Head(feed).unit \notin ended
      BY <3>1 DEF UnitsAreNew
    <3> QED BY <2>1, <3>1, <3>2 DEF LedgerIsInOrder, OneUnitPerCommit, RecordIsWhole, HandedOnce
  <2> QED BY <2>2, <2>3
<1>5. CASE CaptureAfter \/ ListCommits
  <2>1. UNCHANGED <<evidence, recorded, handed, ended>>
    BY <1>5 DEF CaptureAfter, ListCommits, ledgerVars
  <2> QED BY <1>5, <2>1
      DEF CaptureAfter, ListCommits, LedgerIsInOrder, OneUnitPerCommit, RecordIsWhole, HandedOnce
<1>6. CASE TakeStarted \/ InspectHead \/ InsertCandidate \/ TakeCompleted \/ ObserveHead
           \/ ProveCommit \/ PushProof
  <2>1. UNCHANGED <<evidence, recorded, handed, ended>>
    BY <1>6 DEF TakeStarted, InspectHead, InsertCandidate, TakeCompleted, ObserveHead, ProveCommit,
       PushProof, ledgerVars
  <2>2. intake'.at \notin {"capture", "list", "append", "hand"}
    BY <1>6 DEF TakeStarted, InspectHead, InsertCandidate, TakeCompleted, ObserveHead, ProveCommit,
       PushProof
  <2> QED BY <2>1, <2>2 DEF LedgerIsInOrder, OneUnitPerCommit, RecordIsWhole, HandedOnce
<1>7. CASE UNCHANGED <<intake, evidence, recorded, handed, ended>>
  BY <1>7 DEF LedgerIsInOrder, OneUnitPerCommit, RecordIsWhole, HandedOnce
<1> QED BY <1>1, <1>2, <1>3, <1>4, <1>5, <1>6, <1>7, Frames

-----------------------------------------------------------------------------
(* The theorems.                                                           *)

\* The invariant holds at the start.
LEMMA InvInit == ProofInit => Inv
<1> SUFFICES ASSUME ProofInit PROVE Inv
  OBVIOUS
<1> USE NoContextFacts DEF ProofInit
<1>1. TypeOK
  BY TypeInit
<1>2. CutIsFinal
  BY DEF CutIsFinal
<1>3. UnitsAreNew
  BY DEF UnitsAreNew, HasContext, NotBeginning, Units
<1>4. ProofsAreReached
  BY DEF ProofsAreReached, AttributedWasReached, IdleIntake, Units
<1>5. LedgerIsInOrder
  BY DEF LedgerIsInOrder, OneUnitPerCommit, RecordIsWhole, HandedOnce, IdleIntake
<1> QED BY <1>1, <1>2, <1>3, <1>4, <1>5 DEF Inv

\* The invariant is inductive.
LEMMA InvStep == Inv /\ [ProofNext]_proofVars => Inv'
BY TypeStep, CutStep, UnitsStep, ProofsStep, LedgerOrderStep DEF Inv

\* Whatever the order in which commits, reports, failures and the loss of the server come, a
\* commit is attributed to one unit, which saw HEAD come to it, is recorded whole, and is
\* handed on once; and no unit of an invalidated generation keeps a context.
THEOREM CommitsAreAttributedHolds == ProofSpec => []CommitsAreAttributed
<1>1. Inv => CommitsAreAttributed
  BY DEF Inv, CommitsAreAttributed, ProofsAreReached, LedgerIsInOrder
<1> QED BY <1>1, InvInit, InvStep, PTL DEF ProofSpec
=============================================================================
