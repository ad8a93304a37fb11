--------------------------- MODULE SupportProofs ---------------------------
(***************************************************************************)
(* Proofs about support runs, commit explanations, remarks, narration and  *)
(* the session of the window. Each part shows that an inductive invariant  *)
(* holds, by a lemma per action or group of actions, and that the          *)
(* properties follow from it.                                              *)
(***************************************************************************)
EXTENDS SupportRun, CommitExplanation, Presence, Narration, UiSession, SequenceTheorems,
        WellFoundedInduction, TLAPS

-----------------------------------------------------------------------------
(* Sequences.                                                              *)

\* A sequence without the element at one place.
LEMMA OneOut ==
  ASSUME NEW S, NEW s \in Seq(S), NEW i \in 1..Len(s)
  PROVE  /\ SubSeq(s, 1, i - 1) \o SubSeq(s, i + 1, Len(s)) \in Seq(S)
         /\ Len(SubSeq(s, 1, i - 1) \o SubSeq(s, i + 1, Len(s))) = Len(s) - 1
         /\ \A j \in 1..(Len(s) - 1) :
              (SubSeq(s, 1, i - 1) \o SubSeq(s, i + 1, Len(s)))[j] = IF j < i THEN s[j] ELSE s[j + 1]
<1> DEFINE a == SubSeq(s, 1, i - 1)
           b == SubSeq(s, i + 1, Len(s))
<1>1. Len(s) \in Nat /\ i \in Nat /\ 1 <= i /\ i <= Len(s) /\ \A j \in 1..Len(s) : s[j] \in S
  BY LenProperties, ElementOfSeq
<1>2. a \in Seq(S) /\ Len(a) = i - 1 /\ \A j \in 1..(i - 1) : a[j] = s[j]
  BY <1>1, SubSeqProperties
<1>3. /\ b \in Seq(S) /\ Len(b) = Len(s) - i
      /\ \A j \in 1..(Len(s) - i) : b[j] = s[i + j]
  <2>1. \A j \in (i + 1)..Len(s) : s[j] \in S
    BY <1>1
  <2>2. /\ b \in Seq(S) /\ Len(b) = IF i + 1 <= Len(s) THEN Len(s) - (i + 1) + 1 ELSE 0
        /\ \A j \in 1..(Len(s) - (i + 1) + 1) : b[j] = s[(i + 1) + j - 1]
    BY <1>1, <2>1, SubSeqProperties
  <2> HIDE DEF b
  <2> QED BY <1>1, <2>2
<1> HIDE DEF a, b
<1>4. /\ a \o b \in Seq(S) /\ Len(a \o b) = Len(s) - 1
      /\ \A j \in 1..(Len(s) - 1) : (a \o b)[j] = IF j <= i - 1 THEN a[j] ELSE b[j - (i - 1)]
  <2>1. Len(a) + Len(b) = Len(s) - 1
    BY <1>1, <1>2, <1>3
  <2>2. /\ a \o b \in Seq(S) /\ Len(a \o b) = Len(a) + Len(b)
        /\ \A j \in 1..(Len(a) + Len(b)) : (a \o b)[j] = IF j <= Len(a) THEN a[j] ELSE b[j - Len(a)]
    BY <1>2, <1>3, ConcatProperties
  <2> DEFINE c == a \o b
  <2> HIDE DEF c
  <2>3. Len(a) = i - 1 /\ c = a \o b
    BY <1>2 DEF c
  <2> QED BY <2>1, <2>2, <2>3
<1>5. ASSUME NEW j \in 1..(Len(s) - 1) PROVE (a \o b)[j] = IF j < i THEN s[j] ELSE s[j + 1]
  <2>1. CASE j < i
    BY <1>1, <1>2, <1>4, <2>1
  <2>2. CASE ~(j < i)
    <3>1. j - (i - 1) \in 1..(Len(s) - i) /\ i + (j - (i - 1)) = j + 1
      BY <1>1, <2>2
    <3> QED BY <1>1, <1>3, <1>4, <2>2, <3>1
  <2> QED BY <2>1, <2>2
<1> QED BY <1>4, <1>5 DEF a, b

RestOf(s, i) == SubSeq(s, 1, i - 1) \o SubSeq(s, i + 1, Len(s))

\* What is left in it, and in which order.
LEMMA OneOutKeeps ==
  ASSUME NEW S, NEW s \in Seq(S), NEW i \in 1..Len(s)
  PROVE  /\ RestOf(s, i) \in Seq(S) /\ Len(RestOf(s, i)) = Len(s) - 1
         /\ DOMAIN RestOf(s, i) = 1..(Len(s) - 1)
         /\ \A j \in DOMAIN s \ {i} : \E k \in DOMAIN RestOf(s, i) : RestOf(s, i)[k] = s[j]
         /\ \A j, k \in DOMAIN RestOf(s, i) : j < k =>
              \E m, l \in DOMAIN s \ {i} :
                m < l /\ RestOf(s, i)[j] = s[m] /\ RestOf(s, i)[k] = s[l]
         /\ \A j \in DOMAIN RestOf(s, i) : \E m \in DOMAIN s \ {i} : RestOf(s, i)[j] = s[m]
<1> DEFINE r == RestOf(s, i)
<1> DEFINE n == Len(s)
<1>1. n \in Nat /\ DOMAIN s = 1..n /\ i \in Int /\ 1 <= i /\ i <= n
  BY LenProperties
<1>2. /\ r \in Seq(S) /\ Len(r) = n - 1 /\ DOMAIN r = 1..(n - 1)
      /\ \A j \in 1..(n - 1) : r[j] = IF j < i THEN s[j] ELSE s[j + 1]
  BY OneOut, LenProperties DEF RestOf
<1> HIDE DEF n, r
<1>3. ASSUME NEW j \in 1..n, j # i PROVE \E k \in 1..(n - 1) : r[k] = s[j]
  <2>1. CASE j < i
    <3>1. j \in 1..(n - 1)
      BY <1>1, <2>1
    <3> QED BY <1>2, <2>1, <3>1
  <2>2. CASE j > i
    <3>1. j - 1 \in 1..(n - 1) /\ ~(j - 1 < i) /\ (j - 1) + 1 = j
      BY <1>1, <2>2
    <3> QED BY <1>2, <3>1
  <2>3. j < i \/ j > i
    BY <1>1, <1>3
  <2> QED BY <2>1, <2>2, <2>3
<1>4. ASSUME NEW j \in 1..(n - 1)
      PROVE  \E m \in 1..n : m # i /\ r[j] = s[m] /\ m = IF j < i THEN j ELSE j + 1
  <2>1. CASE j < i
    <3>1. j \in 1..n /\ j # i
      BY <1>1, <2>1
    <3> QED BY <1>2, <2>1, <3>1
  <2>2. CASE ~(j < i)
    <3>1. j + 1 \in 1..n /\ j + 1 # i
      BY <1>1, <2>2
    <3> QED BY <1>2, <2>2, <3>1
  <2> QED BY <2>1, <2>2
<1>5. ASSUME NEW j \in 1..(n - 1), NEW k \in 1..(n - 1), j < k
      PROVE  \E m, l \in 1..n : m # i /\ l # i /\ m < l /\ r[j] = s[m] /\ r[k] = s[l]
  <2>1. PICK m \in 1..n : m # i /\ r[j] = s[m] /\ m = IF j < i THEN j ELSE j + 1
    BY <1>4
  <2>2. PICK l \in 1..n : l # i /\ r[k] = s[l] /\ l = IF k < i THEN k ELSE k + 1
    BY <1>4
  <2>3. m < l
    BY <1>1, <1>5, <2>1, <2>2
  <2> QED BY <2>1, <2>2, <2>3
<1>6. /\ \A j \in DOMAIN s \ {i} : \E k \in DOMAIN r : r[k] = s[j]
      /\ \A j \in DOMAIN r : \E m \in DOMAIN s \ {i} : r[j] = s[m]
  BY <1>1, <1>2, <1>3, <1>4
<1>7. \A j, k \in DOMAIN r : j < k =>
        \E m, l \in DOMAIN s \ {i} : m < l /\ r[j] = s[m] /\ r[k] = s[l]
  <2> SUFFICES ASSUME NEW j \in DOMAIN r, NEW k \in DOMAIN r, j < k
               PROVE  \E m, l \in DOMAIN s \ {i} : m < l /\ r[j] = s[m] /\ r[k] = s[l]
    OBVIOUS
  <2>1. PICK m \in 1..n, l \in 1..n : m # i /\ l # i /\ m < l /\ r[j] = s[m] /\ r[k] = s[l]
    <3>1. j \in 1..(n - 1) /\ k \in 1..(n - 1)
      BY <1>2
    <3> QED BY <3>1, <1>5
  <2> QED BY <1>1, <2>1
<1>8. r \in Seq(S) /\ Len(r) = Len(s) - 1 /\ DOMAIN r = 1..(Len(s) - 1)
  BY <1>2 DEF n
<1> QED BY <1>6, <1>7, <1>8 DEF r

-----------------------------------------------------------------------------
(* The runs behind commit explanations.                                    *)

RunSteps == {"none", "picked", "context", "construct", "check", "explain", "cleanup", "ended"}
Phases == {"none", "constructing", "running", "terminal", "unconverged"}
Stopping == [at : {"rest", "note", "mark", "stop"}, runs : SUBSET Runs,
             noted : [Runs -> Phases \union {"stopped", "tried"}], ok : BOOLEAN]

RunTypeOK ==
  /\ picked \in Runs \union {0} /\ stopper \in [Stoppers -> Stopping]
  /\ step \in [Runs -> RunSteps] /\ entry \in [Runs -> Phases]
  /\ process \in [Runs -> {"none", "alive", "gone"}]
  /\ outcome \in [Runs -> {"none", "converged", "open"}]
  /\ marked \in [Runs -> BOOLEAN] /\ told \in [Runs -> BOOLEAN]
  /\ refusing \in BOOLEAN /\ quitting \in BOOLEAN /\ stopped \in BOOLEAN

\* The map says where a run is, as long as its process may be there.
EntryIsOfStep(r) ==
  /\ step[r] \in {"none", "picked"} => entry[r] = "none"
  /\ step[r] \in {"context", "construct"} => entry[r] = "constructing"
  /\ step[r] \in {"check", "explain", "cleanup"} => entry[r] = "running"
  /\ step[r] = "ended" => entry[r] \in {"none", "terminal", "unconverged"}
  /\ step[r] \in {"none", "picked", "context"} => process[r] = "none"
  /\ step[r] # "ended" => outcome[r] = "none"
  /\ process[r] = "alive" => entry[r] # "none" /\ outcome[r] # "converged"

\* What a caller noted of a run still holds of it, or has been acted upon.
NoteIsSound(s, r) ==
  LET noted == stopper[s].noted[r] IN
  /\ noted # "none" => step[r] \notin {"none", "picked"}
  /\ noted \notin {"none", "constructing"} => step[r] # "context"
  /\ noted \in {"terminal", "unconverged"} => step[r] = "ended"
  /\ noted = "stopped" => process[r] = "gone"
  /\ noted \in {"stopped", "tried"} => step[r] = "ended" \/ told[r]

\* The run the user cancels is marked, so that one under construction does not explain.
CancelIsMarked ==
  /\ stopper["user"].at # "rest" => \A r \in stopper["user"].runs : marked[r]
  /\ \A r \in Runs : stopper["user"].noted[r] = "constructing" => marked[r] /\ step[r] # "explain"

EndIsFinal ==
  /\ \A r \in Runs : step[r] = "picked" => picked = r
  /\ stopper["quit"].at # "rest" => quitting
  /\ stopped => quitting /\ picked = 0 /\ \A r \in Runs : entry[r] = "none"

RunInv ==
  /\ RunTypeOK /\ CancelIsMarked /\ EndIsFinal
  /\ \A r \in Runs : EntryIsOfStep(r)
  /\ \A s \in Stoppers, r \in Runs : NoteIsSound(s, r)

\* A stopper at rest is one.
LEMMA AtRestIsTyped == AtRest \in Stopping
BY DEF AtRest, Stopping, Phases

\* Before the first run nothing is there to stop.
LEMMA RunBegins == RunInit => RunInv
<1> SUFFICES ASSUME RunInit PROVE RunInv
  OBVIOUS
<1>1. RunTypeOK
  BY AtRestIsTyped DEF RunInit, RunTypeOK, Phases, RunSteps
<1>2. \A s \in Stoppers, r \in Runs : NoteIsSound(s, r)
  BY DEF RunInit, NoteIsSound, AtRest
<1>3. CancelIsMarked /\ EndIsFinal
  BY DEF RunInit, CancelIsMarked, EndIsFinal, AtRest, Stoppers
<1> QED BY <1>1, <1>2, <1>3 DEF RunInit, RunInv, EntryIsOfStep

\* What the invariant says of one run and of one caller.
LEMMA RunFacts ==
  ASSUME RunInv
  PROVE  /\ \A r \in Runs : EntryIsOfStep(r)
         /\ \A s \in Stoppers, r \in Runs : NoteIsSound(s, r)
         /\ RunTypeOK /\ CancelIsMarked /\ EndIsFinal
BY DEF RunInv

\* A step that changes one run, and what the map says of it, leaves the callers alone; it
\* moves on, and neither unmarks the run nor brings a process back.
LEMMA RunMoves ==
  ASSUME RunInv, NEW r \in Runs, RunTypeOK', EntryIsOfStep(r)',
         UNCHANGED <<picked, marked, stopper, refusing, quitting, stopped>>,
         step[r] \notin {"none", "picked", "ended"}, step'[r] \notin {"none", "picked", "context"},
         step[r] # "explain" /\ step'[r] = "explain" => ~marked[r],
         process[r] = "gone" => process'[r] = "gone", told[r] => told'[r],
         \A q \in Runs \ {r} : /\ step'[q] = step[q] /\ entry'[q] = entry[q]
                               /\ process'[q] = process[q] /\ outcome'[q] = outcome[q]
                               /\ told'[q] = told[q]
  PROVE  RunInv'
<1>1. entry[r] # "none" /\ ~stopped
  BY RunFacts DEF EntryIsOfStep, RunTypeOK, RunSteps, EndIsFinal
<1>2. \A q \in Runs : EntryIsOfStep(q)'
  BY RunFacts DEF EntryIsOfStep
<1>3. \A s \in Stoppers, q \in Runs : NoteIsSound(s, q)'
  BY RunFacts DEF NoteIsSound
<1>4. CancelIsMarked' /\ EndIsFinal'
  BY <1>1, RunFacts DEF CancelIsMarked, EndIsFinal, RunTypeOK
<1> QED BY <1>2, <1>3, <1>4 DEF RunInv

\* How a run ends, and how its process is stopped.
LEMMA KillOne ==
  ASSUME RunTypeOK, NEW r \in Runs, NEW ok \in BOOLEAN, Kill(r, ok)
  PROVE  /\ process' \in [Runs -> {"none", "alive", "gone"}]
         /\ \A q \in Runs \ {r} : process'[q] = process[q]
         /\ process'[r] = IF ok THEN "gone" ELSE "alive"
BY DEF Kill, RunTypeOK

\* The end of a run changes what is known of that run only.
LEMMA EndOne ==
  ASSUME RunTypeOK, NEW r \in Runs, NEW cleanup \in BOOLEAN, EndsWith(r, cleanup)
  PROVE  /\ outcome' \in [Runs -> {"none", "converged", "open"}]
         /\ entry' \in [Runs -> Phases] /\ step' \in [Runs -> RunSteps]
         /\ \A q \in Runs \ {r} : /\ outcome'[q] = outcome[q] /\ entry'[q] = entry[q]
                                  /\ step'[q] = step[q]
         /\ step'[r] = "ended" /\ outcome'[r] = IF cleanup THEN "converged" ELSE "open"
         /\ entry'[r] = IF cleanup THEN "terminal" ELSE "unconverged"
BY DEF EndsWith, RunTypeOK, Phases, RunSteps

\* The task of a run keeps the map true to it, from its construction to its end.
LEMMA RunTaskKeeps ==
  ASSUME RunInv, NEW r \in Runs, RunTaskStep(r)
  PROVE  RunInv'
<1>0. RunTypeOK /\ EntryIsOfStep(r)
  BY RunFacts
<1>1. ASSUME NEW ok \in BOOLEAN, Kill(r, ok), EndsWith(r, ok), step[r] \in {"construct", "cleanup"},
             UNCHANGED <<picked, told, marked, stopper, refusing, quitting, stopped>>
      PROVE  RunInv'
  <2>1. RunTypeOK'
    BY <1>0, <1>1, KillOne, EndOne DEF RunTypeOK
  <2>2. EntryIsOfStep(r)'
    BY <1>0, <1>1, KillOne, EndOne DEF EntryIsOfStep
  <2>3. process'[r] = IF ok THEN "gone" ELSE "alive"
    BY <1>0, <1>1, KillOne
  <2>4. process[r] = "gone" => process'[r] = "gone"
    BY <1>1, <2>3 DEF Kill
  <2> QED BY <1>0, <1>1, <2>1, <2>2, <2>4, RunMoves, KillOne, EndOne
<1>2. CASE RunContext(r)
  <2>1. process[r] = "none" /\ step[r] = "context"
    BY <1>0, <1>2 DEF RunContext, EntryIsOfStep
  <2>2. CASE EndsWith(r, TRUE)
    <3>1. step'[r] = "ended"
      BY <1>0, <2>2, EndOne
    <3>2. UNCHANGED <<process, picked, told, marked, stopper, refusing, quitting, stopped>>
      BY <1>2, <3>1 DEF RunContext
    <3>3. RunTypeOK' /\ EntryIsOfStep(r)'
      BY <1>0, <2>1, <2>2, <3>2, EndOne DEF RunTypeOK, EntryIsOfStep
    <3> QED BY <1>0, <2>1, <2>2, <3>1, <3>2, <3>3, RunMoves, EndOne
  <2>3. CASE step' = [step EXCEPT ![r] = "construct"] /\ UNCHANGED <<outcome, entry>>
    <3>1. /\ step'[r] = "construct" /\ process' = [process EXCEPT ![r] = "alive"]
          /\ UNCHANGED <<picked, told, marked, stopper, refusing, quitting, stopped>>
      BY <1>0, <1>2, <2>3 DEF RunContext, RunTypeOK
    <3>2. RunTypeOK'
      BY <1>0, <2>3, <3>1 DEF RunTypeOK, RunSteps
    <3>3. outcome[r] # "converged"
      BY <1>0, <2>1 DEF EntryIsOfStep
    <3>4. EntryIsOfStep(r)'
      BY <1>0, <2>1, <2>3, <3>1, <3>3 DEF RunTypeOK, EntryIsOfStep
    <3> QED BY <1>0, <2>1, <2>3, <3>1, <3>2, <3>4, RunMoves DEF RunTypeOK
  <2> QED BY <1>2, <2>2, <2>3 DEF RunContext
<1>3. CASE Construct(r)
  <2>1. CASE /\ step' = [step EXCEPT ![r] = "check"] /\ entry' = [entry EXCEPT ![r] = "running"]
             /\ UNCHANGED <<process, outcome>>
    <3>1. RunTypeOK' /\ EntryIsOfStep(r)'
      BY <1>0, <1>3, <2>1 DEF Construct, RunTypeOK, EntryIsOfStep, RunSteps, Phases
    <3> QED BY <1>0, <1>3, <2>1, <3>1, RunMoves DEF Construct, RunTypeOK
  <2> QED BY <1>1, <1>3, <2>1 DEF Construct
<1>4. CASE CheckMark(r)
  <2>1. RunTypeOK'
    BY <1>0, <1>4 DEF CheckMark, RunTypeOK, RunSteps
  <2>2. EntryIsOfStep(r)'
    BY <1>0, <1>4 DEF CheckMark, RunTypeOK, EntryIsOfStep
  <2>3. /\ step'[r] = IF marked[r] THEN "cleanup" ELSE "explain"
        /\ told[r] => told'[r]
    BY <1>0, <1>4 DEF CheckMark, RunTypeOK
  <2> QED BY <1>0, <1>4, <2>1, <2>2, <2>3, RunMoves DEF CheckMark, RunTypeOK
<1>5. CASE Explain(r)
  <2>1. RunTypeOK' /\ EntryIsOfStep(r)'
    BY <1>0, <1>5 DEF Explain, RunTypeOK, EntryIsOfStep, RunSteps
  <2> QED BY <1>0, <1>5, <2>1, RunMoves DEF Explain, RunTypeOK
<1>6. CASE RunCleanup(r)
  BY <1>1, <1>6 DEF RunCleanup
<1> QED BY <1>2, <1>3, <1>4, <1>5, <1>6 DEF RunTaskStep

\* The worker.
LEMMA WorkerKeeps ==
  ASSUME RunInv, PickRun \/ RunWorker
  PROVE  RunInv'
<1>0. RunTypeOK /\ CancelIsMarked /\ EndIsFinal
  BY RunFacts
<1>1. CASE PickRun
  <2>1. PICK r \in Runs : step[r] = "none" /\ picked' = r /\ step' = [step EXCEPT ![r] = "picked"]
    BY <1>1 DEF PickRun
  <2>2. /\ UNCHANGED <<entry, process, told, outcome, marked, stopper, refusing, quitting, stopped>>
        /\ picked = 0 /\ ~quitting
    BY <1>1 DEF PickRun
  <2>3. RunTypeOK'
    BY <1>0, <2>1, <2>2 DEF RunTypeOK, RunSteps
  <2>4. \A q \in Runs : EntryIsOfStep(q)'
    BY <1>0, <2>1, <2>2, RunFacts DEF EntryIsOfStep, RunTypeOK
  <2>5. \A s \in Stoppers, q \in Runs : NoteIsSound(s, q)'
    BY <1>0, <2>1, <2>2, RunFacts DEF NoteIsSound, RunTypeOK
  <2>6. CancelIsMarked' /\ EndIsFinal'
    BY <1>0, <2>1, <2>2 DEF CancelIsMarked, EndIsFinal, RunTypeOK, Runs
  <2> QED BY <2>3, <2>4, <2>5, <2>6 DEF RunInv
<1>2. CASE Execute
  <2>1. /\ picked # 0 /\ picked \in Runs /\ step[picked] = "picked" /\ entry[picked] = "none"
        /\ process[picked] = "none" /\ outcome[picked] = "none" /\ ~stopped
        /\ \A s \in Stoppers : stopper[s].noted[picked] = "none"
        /\ UNCHANGED <<process, told, outcome, marked, stopper, refusing, quitting, stopped>>
    BY <1>0, <1>2, RunFacts DEF Execute, RunTypeOK, EntryIsOfStep, NoteIsSound, EndIsFinal
  <2>2. \/ /\ step' = [step EXCEPT ![picked] = "ended"] /\ UNCHANGED entry /\ picked' = 0
        \/ /\ step' = [step EXCEPT ![picked] = "context"] /\ UNCHANGED picked
           /\ entry' = [entry EXCEPT ![picked] = "constructing"]
    BY <1>2 DEF Execute
  <2>3. RunTypeOK'
    BY <1>0, <2>1, <2>2 DEF RunTypeOK, RunSteps, Phases
  <2>4. \A q \in Runs : EntryIsOfStep(q)'
    BY <1>0, <2>1, <2>2, RunFacts DEF EntryIsOfStep, RunTypeOK
  <2>5. \A s \in Stoppers, q \in Runs : NoteIsSound(s, q)'
    <3> SUFFICES ASSUME NEW s \in Stoppers, NEW q \in Runs PROVE NoteIsSound(s, q)'
      OBVIOUS
    <3>1. CASE q = picked
      BY <2>1, <3>1 DEF NoteIsSound
    <3>2. CASE q # picked
      BY <1>0, <2>1, <2>2, <3>2, RunFacts DEF NoteIsSound, RunTypeOK
    <3> QED BY <3>1, <3>2
  <2>6. CancelIsMarked' /\ EndIsFinal'
    BY <1>0, <2>1, <2>2 DEF CancelIsMarked, EndIsFinal, RunTypeOK, Stoppers
  <2> QED BY <2>3, <2>4, <2>5, <2>6 DEF RunInv
<1>3. CASE Return
  <2>1. /\ picked \in Runs /\ step[picked] = "ended" /\ picked' = 0
        /\ UNCHANGED <<runTask, marked, stopper, refusing, quitting, stopped>>
        /\ entry' = entry \/ (outcome[picked] = "converged" /\ entry' = [entry EXCEPT ![picked] = "none"])
    BY <1>0, <1>3 DEF Return, RunTypeOK
  <2>2. RunTypeOK'
    BY <1>0, <2>1 DEF RunTypeOK, runTask, Phases
  <2>3. \A q \in Runs : EntryIsOfStep(q)'
    BY <1>0, <2>1, RunFacts DEF EntryIsOfStep, RunTypeOK, runTask
  <2>4. \A s \in Stoppers, q \in Runs : NoteIsSound(s, q)'
    BY <2>1, RunFacts DEF NoteIsSound, runTask
  <2>5. CancelIsMarked' /\ EndIsFinal'
    BY <1>0, <2>1 DEF CancelIsMarked, EndIsFinal, RunTypeOK, runTask
  <2> QED BY <2>2, <2>3, <2>4, <2>5 DEF RunInv
<1>4. CASE GiveUp
  <2>1. /\ picked \in Runs /\ picked' = 0 /\ step[picked] # "picked"
        /\ UNCHANGED <<entry, runTask, marked, refusing, quitting, stopped>>
        /\ stopper' = [stopper EXCEPT !["timeout"] = [AtRest EXCEPT !.at = "note", !.runs = {picked}]]
    BY <1>0, <1>4 DEF GiveUp, RunTypeOK
  <2>2. [AtRest EXCEPT !.at = "note", !.runs = {picked}] \in Stopping
    BY <2>1, AtRestIsTyped DEF Stopping
  <2>3. RunTypeOK'
    BY <1>0, <2>1, <2>2 DEF RunTypeOK, runTask
  <2>4. /\ stopper'["user"] = stopper["user"] /\ stopper'["quit"] = stopper["quit"]
        /\ \A q \in Runs : stopper'["timeout"].noted[q] = "none"
        /\ \A s \in Stoppers : s # "timeout" => stopper'[s] = stopper[s]
    BY <1>0, <2>1 DEF RunTypeOK, Stoppers, AtRest
  <2>5. \A q \in Runs : EntryIsOfStep(q)'
    BY <2>1, RunFacts DEF EntryIsOfStep, runTask
  <2>6. \A s \in Stoppers, q \in Runs : NoteIsSound(s, q)'
    BY <2>1, <2>4, RunFacts DEF NoteIsSound, runTask
  <2>7. CancelIsMarked' /\ EndIsFinal'
    BY <1>0, <2>1, <2>4 DEF CancelIsMarked, EndIsFinal, RunTypeOK, runTask
  <2> QED BY <2>3, <2>5, <2>6, <2>7 DEF RunInv
<1> QED BY <1>1, <1>2, <1>3, <1>4 DEF RunWorker

\* A step of a caller leaves where the runs are, and what the other callers do, alone; it
\* may stop processes, mark and tell runs, and take entries whose process is gone.
LEMMA CallerMoves ==
  ASSUME RunInv, NEW s \in Stoppers, RunTypeOK', UNCHANGED <<picked, step, outcome>>,
         \A t \in Stoppers \ {s} : stopper'[t] = stopper[t],
         \A r \in Runs : process'[r] \in {process[r], "gone"},
         \A r \in Runs : step[r] \in {"none", "picked", "context"} => process'[r] = process[r],
         \A r \in Runs : /\ entry'[r] \in {entry[r], "none"}
                         /\ entry'[r] # entry[r] => step[r] = "ended" /\ process'[r] # "alive",
         \A r \in Runs : (marked[r] => marked'[r]) /\ (told[r] => told'[r]),
         \A r \in Runs : NoteIsSound(s, r)',
         s = "user" => CancelIsMarked',
         quitting => quitting', s = "quit" => quitting',
         stopped' => quitting' /\ picked = 0 /\ \A r \in Runs : entry[r] = "none"
  PROVE  RunInv'
<1>1. \A r \in Runs : EntryIsOfStep(r)'
  BY RunFacts DEF EntryIsOfStep
<1>2. \A t \in Stoppers, r \in Runs : NoteIsSound(t, r)'
  BY RunFacts DEF NoteIsSound
<1>3. CancelIsMarked'
  <2>1. CASE s = "user"
    BY <2>1
  <2>2. CASE s # "user"
    <3>1. "user" \in Stoppers /\ stopper'["user"] = stopper["user"]
      BY <2>2 DEF Stoppers
    <3>2. stopper["user"].runs \subseteq Runs
      BY <3>1, RunFacts DEF RunTypeOK, Stopping
    <3> QED BY <3>1, <3>2, RunFacts DEF CancelIsMarked
  <2> QED BY <2>1, <2>2
<1>4. EndIsFinal'
  BY RunFacts DEF EndIsFinal, Stoppers
<1> QED BY <1>1, <1>2, <1>3, <1>4 DEF RunInv

\* A stopper notes no more than the map says.
LEMMA NoteKeeps ==
  ASSUME RunInv, NEW s \in Stoppers, Note(s)
  PROVE  RunInv'
<1>0. RunTypeOK /\ CancelIsMarked /\ EndIsFinal /\ stopper[s] \in Stopping
  BY RunFacts DEF RunTypeOK
<1> DEFINE runs == Owned \intersect (IF s = "quit" THEN Runs ELSE stopper[s].runs)
           c == [at |-> "mark", runs |-> runs, ok |-> TRUE,
                 noted |-> [r \in Runs |-> IF r \in runs THEN entry[r] ELSE "none"]]
<1>1. /\ stopper' = [stopper EXCEPT ![s] = c] /\ stopper[s].at = "note"
      /\ UNCHANGED <<picked, entry, step, process, told, outcome, marked, refusing, quitting, stopped>>
  BY DEF Note, runTask
<1>2. runs \subseteq Runs /\ (s # "quit" => runs \subseteq stopper[s].runs)
  BY DEF Owned
<1> HIDE DEF runs
<1>3. /\ c \in Stopping /\ c.runs = runs /\ c.at = "mark"
      /\ \A r \in Runs : c.noted[r] \in {entry[r], "none"}
      /\ \A r \in Runs : c.noted[r] # "none" => r \in runs
  BY <1>0, <1>2 DEF Stopping, RunTypeOK, Phases
<1> HIDE DEF c
<1>4. RunTypeOK'
  BY <1>0, <1>1, <1>3 DEF RunTypeOK
<1>5. stopper'[s] = c /\ \A t \in Stoppers \ {s} : stopper'[t] = stopper[t]
  BY <1>0, <1>1 DEF RunTypeOK
<1>6. \A r \in Runs : NoteIsSound(s, r)'
  BY <1>0, <1>1, <1>3, <1>5, RunFacts DEF NoteIsSound, EntryIsOfStep, RunTypeOK, RunSteps
<1>7. s = "user" => CancelIsMarked'
  BY <1>0, <1>1, <1>2, <1>3, <1>5, RunFacts
     DEF CancelIsMarked, EntryIsOfStep, Stopping, RunTypeOK, RunSteps
<1>8. /\ s = "quit" => quitting
      /\ stopped => quitting /\ picked = 0 /\ \A r \in Runs : entry[r] = "none"
  BY <1>0, <1>1 DEF EndIsFinal
<1> QED BY <1>0, <1>1, <1>4, <1>5, <1>6, <1>7, <1>8, CallerMoves

\* Marking the noted runs tells them of their cancellation.
LEMMA MarkKeeps ==
  ASSUME RunInv, NEW s \in Stoppers, Mark(s)
  PROVE  RunInv'
<1>0. RunTypeOK /\ CancelIsMarked /\ EndIsFinal /\ stopper[s] \in Stopping
  BY RunFacts DEF RunTypeOK
<1>1. /\ stopper[s].at = "mark"
      /\ UNCHANGED <<picked, entry, step, process, told, outcome, refusing, quitting, stopped>>
      /\ marked' = [r \in Runs |-> marked[r] \/ r \in stopper[s].runs]
      /\ stopper' = [stopper EXCEPT ![s].at = "stop"]
  BY DEF Mark, runTask
<1>2. /\ stopper'[s].noted = stopper[s].noted /\ stopper'[s].runs = stopper[s].runs
      /\ stopper'[s] \in Stopping
      /\ \A t \in Stoppers \ {s} : stopper'[t] = stopper[t]
      /\ \A r \in Runs : marked[r] => marked'[r]
  BY <1>0, <1>1 DEF RunTypeOK, Stopping
<1>3. stopper' \in [Stoppers -> Stopping] /\ marked' \in [Runs -> BOOLEAN]
  BY <1>0, <1>1, <1>2 DEF RunTypeOK
<1>4. RunTypeOK'
  BY <1>0, <1>1, <1>3 DEF RunTypeOK
<1>5. \A r \in Runs : NoteIsSound(s, r)'
  BY <1>1, <1>2, RunFacts DEF NoteIsSound
<1>6. s = "user" => CancelIsMarked'
  BY <1>0, <1>1, <1>2 DEF CancelIsMarked, Stopping
<1>7. /\ s = "quit" => quitting
      /\ stopped => quitting /\ picked = 0 /\ \A r \in Runs : entry[r] = "none"
  BY <1>0, <1>1 DEF EndIsFinal
<1> QED BY <1>0, <1>1, <1>2, <1>4, <1>5, <1>6, <1>7, CallerMoves

\* Stopping a noted run kills the process it was noted with.
LEMMA StopNotedKeeps ==
  ASSUME RunInv, NEW s \in Stoppers, NEW r \in Runs, StopNoted(s, r)
  PROVE  RunInv'
<1>0. RunTypeOK /\ CancelIsMarked /\ EndIsFinal /\ stopper[s] \in Stopping /\ NoteIsSound(s, r)
  BY RunFacts DEF RunTypeOK
<1>1. PICK ok \in BOOLEAN :
        Kill(r, ok) /\ stopper' = [stopper EXCEPT ![s].noted[r] = IF ok THEN "stopped" ELSE "tried"]
  BY DEF StopNoted
<1>2. /\ stopper[s].at = "stop" /\ r \in stopper[s].runs
      /\ stopper[s].noted[r] \in {"running", "unconverged"}
      /\ told' = [told EXCEPT ![r] = @ \/ stopper[s].noted[r] = "running"]
      /\ UNCHANGED <<picked, entry, step, outcome, marked, refusing, quitting, stopped>>
  BY DEF StopNoted, Stops
<1>3. /\ process' \in [Runs -> {"none", "alive", "gone"}]
      /\ \A q \in Runs \ {r} : process'[q] = process[q]
      /\ process'[r] = IF ok THEN "gone" ELSE process[r]
  BY <1>0, <1>1, KillOne DEF Kill
<1>4. /\ told' \in [Runs -> BOOLEAN] /\ \A q \in Runs : told[q] => told'[q]
      /\ stopper[s].noted[r] = "running" => told'[r]
  BY <1>0, <1>2 DEF RunTypeOK
<1>5. /\ stopper'[s] \in Stopping /\ stopper'[s].at = "stop" /\ stopper'[s].runs = stopper[s].runs
      /\ stopper'[s].noted[r] = IF ok THEN "stopped" ELSE "tried"
      /\ \A q \in Runs \ {r} : stopper'[s].noted[q] = stopper[s].noted[q]
      /\ \A t \in Stoppers \ {s} : stopper'[t] = stopper[t]
  BY <1>0, <1>1, <1>2 DEF RunTypeOK, Stopping
<1>6. stopper' \in [Stoppers -> Stopping]
  BY <1>0, <1>1, <1>5 DEF RunTypeOK
<1>7. RunTypeOK'
  BY <1>0, <1>2, <1>3, <1>4, <1>6 DEF RunTypeOK
<1>8. step[r] \notin {"none", "picked", "context"} /\ (told'[r] \/ step[r] = "ended")
  BY <1>0, <1>2, <1>4 DEF NoteIsSound
<1>9. \A q \in Runs : NoteIsSound(s, q)'
  <2> SUFFICES ASSUME NEW q \in Runs PROVE NoteIsSound(s, q)'
    OBVIOUS
  <2>1. CASE q = r
    BY <1>2, <1>3, <1>5, <1>8, <2>1 DEF NoteIsSound
  <2>2. CASE q # r
    BY <1>2, <1>3, <1>4, <1>5, <2>2, RunFacts DEF NoteIsSound
  <2> QED BY <2>1, <2>2
<1>10. s = "user" => CancelIsMarked'
  BY <1>0, <1>2, <1>5 DEF CancelIsMarked
<1>11. /\ s = "quit" => quitting
       /\ stopped => quitting /\ picked = 0 /\ \A q \in Runs : entry[q] = "none"
  BY <1>0, <1>2 DEF EndIsFinal
<1> QED BY <1>0, <1>2, <1>3, <1>4, <1>5, <1>7, <1>8, <1>9, <1>10, <1>11, CallerMoves

\* A run that has ended need not be waited for.
LEMMA AwaitKeeps ==
  ASSUME RunInv, NEW s \in Stoppers, NEW r \in Runs, AwaitRun(s, r)
  PROVE  RunInv'
<1>0. RunTypeOK /\ CancelIsMarked /\ EndIsFinal /\ stopper[s] \in Stopping /\ NoteIsSound(s, r)
      /\ EntryIsOfStep(r)
  BY RunFacts DEF RunTypeOK
<1>1. /\ step[r] = "ended" /\ stopper[s].at = "stop" /\ r \in stopper[s].runs
      /\ UNCHANGED <<picked, step, told, outcome, marked, refusing, quitting, stopped>>
  BY DEF AwaitRun, Waits, Stops
<1>2. PICK late \in BOOLEAN, look \in BOOLEAN, ok \in BOOLEAN :
        /\ ok <=> outcome[r] = "converged" \/ stopper[s].noted[r] = "stopped" \/ (look /\ late)
        /\ IF look THEN Kill(r, late) ELSE ~late /\ UNCHANGED process
        /\ entry' = IF ok THEN [entry EXCEPT ![r] = "none"] ELSE entry
        /\ stopper' = [stopper EXCEPT ![s].runs = @ \ {r}, ![s].noted[r] = "none",
                                      ![s].ok = @ /\ ok]
  BY DEF AwaitRun
<1>3. /\ process' \in [Runs -> {"none", "alive", "gone"}]
      /\ \A q \in Runs \ {r} : process'[q] = process[q]
      /\ process'[r] \in {process[r], "gone"} /\ (look /\ late => process'[r] = "gone")
  BY <1>0, <1>2, KillOne DEF Kill, RunTypeOK
<1>4. ok => process'[r] # "alive"
  BY <1>0, <1>2, <1>3 DEF EntryIsOfStep, NoteIsSound
<1>5. /\ entry' \in [Runs -> Phases] /\ \A q \in Runs \ {r} : entry'[q] = entry[q]
      /\ entry'[r] = IF ok THEN "none" ELSE entry[r]
  BY <1>0, <1>2 DEF RunTypeOK, Phases
<1>6. /\ stopper'[s].at = "stop" /\ stopper'[s].runs = stopper[s].runs \ {r}
      /\ stopper'[s].noted[r] = "none" /\ stopper'[s] \in Stopping
      /\ \A q \in Runs \ {r} : stopper'[s].noted[q] = stopper[s].noted[q]
      /\ \A t \in Stoppers \ {s} : stopper'[t] = stopper[t]
  BY <1>0, <1>1, <1>2 DEF RunTypeOK, Stopping, Phases
<1>7. stopper' \in [Stoppers -> Stopping]
  BY <1>0, <1>2, <1>6 DEF RunTypeOK
<1>8. RunTypeOK'
  BY <1>0, <1>1, <1>3, <1>5, <1>7 DEF RunTypeOK
<1>9. \A q \in Runs : NoteIsSound(s, q)'
  <2> SUFFICES ASSUME NEW q \in Runs PROVE NoteIsSound(s, q)'
    OBVIOUS
  <2>1. CASE q = r
    BY <1>6, <2>1 DEF NoteIsSound
  <2>2. CASE q # r
    BY <1>1, <1>3, <1>6, <2>2, RunFacts DEF NoteIsSound
  <2> QED BY <2>1, <2>2
<1>10. s = "user" => CancelIsMarked'
  BY <1>0, <1>1, <1>6 DEF CancelIsMarked
<1>11. /\ s = "quit" => quitting
       /\ stopped => quitting /\ picked = 0 /\ \A q \in Runs : entry[q] = "none"
  BY <1>0, <1>1 DEF EndIsFinal
<1>12. \A q \in Runs : entry'[q] \in {entry[q], "none"}
                         /\ (entry'[q] # entry[q] => step[q] = "ended" /\ process'[q] # "alive")
  BY <1>1, <1>4, <1>5
<1> QED BY <1>0, <1>1, <1>3, <1>6, <1>8, <1>9, <1>10, <1>11, <1>12, CallerMoves

\* The callers come and go.
LEMMA CallersKeep ==
  ASSUME RunInv, UserCancels \/ Quit \/ QuitReports \/ \E s \in Stoppers : StopOver(s)
  PROVE  RunInv'
<1>0. RunTypeOK /\ CancelIsMarked /\ EndIsFinal
  BY RunFacts
<1>1. ASSUME NEW s \in Stoppers, NEW c \in Stopping, \A r \in Runs : c.noted[r] = "none",
             stopper' = [stopper EXCEPT ![s] = c],
             UNCHANGED <<picked, entry, step, process, told, outcome, stopped>>,
             s = "user" => \A r \in c.runs : marked'[r],
             marked' \in [Runs -> BOOLEAN], \A r \in Runs : marked[r] => marked'[r],
             refusing' \in BOOLEAN, quitting' \in BOOLEAN, quitting => quitting',
             s = "quit" => quitting'
      PROVE  RunInv'
  <2>3. stopper'[s] = c /\ \A t \in Stoppers \ {s} : stopper'[t] = stopper[t]
    BY <1>0, <1>1 DEF RunTypeOK
  <2>4. RunTypeOK'
    BY <1>0, <1>1 DEF RunTypeOK
  <2>5. \A r \in Runs : NoteIsSound(s, r)'
    BY <1>1, <2>3 DEF NoteIsSound
  <2>6. s = "user" => CancelIsMarked'
    BY <1>1, <2>3 DEF CancelIsMarked
  <2>7. stopped' => quitting' /\ picked = 0 /\ \A r \in Runs : entry[r] = "none"
    BY <1>0, <1>1 DEF EndIsFinal
  <2> QED BY <1>1, <2>3, <2>4, <2>5, <2>6, <2>7, CallerMoves
<1>2. CASE UserCancels
  <2> DEFINE c == [AtRest EXCEPT !.at = "note", !.runs = {picked}]
  <2>1. /\ picked \in Runs /\ "user" \in Stoppers /\ marked' = [marked EXCEPT ![picked] = TRUE]
        /\ UNCHANGED <<picked, entry, step, process, told, outcome, refusing, quitting, stopped>>
        /\ stopper' = [stopper EXCEPT !["user"] = c]
    BY <1>0, <1>2 DEF UserCancels, RunTypeOK, runTask, Stoppers
  <2>2. /\ marked' \in [Runs -> BOOLEAN] /\ marked'[picked]
        /\ \A r \in Runs : marked[r] => marked'[r]
    BY <1>0, <2>1 DEF RunTypeOK
  <2>3. c \in Stopping /\ c.runs = {picked} /\ \A r \in Runs : c.noted[r] = "none"
    BY <2>1, AtRestIsTyped DEF Stopping, AtRest
  <2> HIDE DEF c
  <2>4. /\ refusing' \in BOOLEAN /\ quitting' \in BOOLEAN /\ (quitting => quitting')
        /\ \A r \in c.runs : marked'[r]
    BY <1>0, <2>1, <2>2, <2>3 DEF RunTypeOK
  <2> QED BY <1>1, <2>1, <2>2, <2>3, <2>4
<1>3. CASE Quit
  <2> DEFINE c == [AtRest EXCEPT !.at = "note"]
  <2>1. /\ marked' = [r \in Runs |-> marked[r] \/ r = picked]
        /\ UNCHANGED <<picked, entry, step, process, told, outcome, stopped>>
        /\ refusing' = TRUE /\ quitting' = TRUE
        /\ stopper' = [stopper EXCEPT !["quit"] = c]
    BY <1>3 DEF Quit, runTask
  <2>2. marked' \in [Runs -> BOOLEAN] /\ \A r \in Runs : marked[r] => marked'[r]
    BY <1>0, <2>1 DEF RunTypeOK
  <2>3. c \in Stopping /\ \A r \in Runs : c.noted[r] = "none"
    BY AtRestIsTyped DEF Stopping, AtRest
  <2>4. "quit" \in Stoppers /\ "quit" # "user" /\ refusing' \in BOOLEAN /\ quitting' \in BOOLEAN
        /\ quitting'
    BY <2>1 DEF Stoppers
  <2> HIDE DEF c
  <2> QED BY <1>0, <1>1, <2>1, <2>2, <2>3, <2>4
<1>4. ASSUME NEW s \in Stoppers, StopOver(s) PROVE RunInv'
  <2>1. /\ s \in {"user", "timeout"} /\ stopper' = [stopper EXCEPT ![s] = AtRest]
        /\ UNCHANGED <<picked, entry, step, process, told, outcome, marked, refusing, quitting, stopped>>
    BY <1>4 DEF StopOver, runTask
  <2>2. AtRest \in Stopping /\ AtRest.runs = {} /\ \A r \in Runs : AtRest.noted[r] = "none"
    BY AtRestIsTyped DEF AtRest
  <2> QED BY <1>0, <1>1, <2>1, <2>2 DEF RunTypeOK
<1>5. CASE QuitReports
  <2>1. /\ UNCHANGED <<picked, entry, step, process, told, outcome, marked, stopper, refusing, quitting>>
        /\ stopped' \in BOOLEAN /\ stopper["quit"].at # "rest" /\ picked = 0
        /\ stopped' => \A r \in Runs : entry[r] = "none"
    BY <1>5 DEF QuitReports, runTask, Over, Owned
  <2>2. quitting
    BY <1>0, <2>1 DEF EndIsFinal
  <2>3. RunTypeOK'
    BY <1>0, <2>1 DEF RunTypeOK
  <2>4. \A r \in Runs : NoteIsSound("user", r)'
    BY <2>1, RunFacts DEF NoteIsSound, Stoppers
  <2>5. CancelIsMarked' /\ "user" \in Stoppers
    BY <1>0, <2>1 DEF CancelIsMarked, Stoppers
  <2> QED BY <2>1, <2>2, <2>3, <2>4, <2>5, CallerMoves
<1> QED BY <1>2, <1>3, <1>4, <1>5

\* Every step keeps the invariant of the runs.
LEMMA RunKept ==
  ASSUME RunInv, [RunNext]_runVars
  PROVE  RunInv'
<1>1. CASE RunNext
  BY <1>1, WorkerKeeps, RunTaskKeeps, NoteKeeps, MarkKeeps, StopNotedKeeps, AwaitKeeps, CallersKeep
     DEF RunNext, StopperStep
<1>2. CASE UNCHANGED runVars
  <2>1. \A r \in Runs : EntryIsOfStep(r)'
    BY <1>2, RunFacts DEF EntryIsOfStep, runVars, runTask
  <2>2. \A s \in Stoppers, r \in Runs : NoteIsSound(s, r)'
    BY <1>2, RunFacts DEF NoteIsSound, runVars, runTask
  <2>3. RunTypeOK' /\ CancelIsMarked' /\ EndIsFinal'
    BY <1>2, RunFacts DEF RunTypeOK, CancelIsMarked, EndIsFinal, runVars, runTask
  <2> QED BY <2>1, <2>2, <2>3 DEF RunInv
<1> QED BY <1>1, <1>2

\* Once a shutdown has reported success no support process is alive, and a run that is
\* waited for because it was canceled has been told, whatever it was doing when the map was
\* read.
THEOREM RunsAreStoppedHolds == RunSpec => []RunsAreStopped
<1>1. ASSUME RunInv PROVE RunsAreStopped
  <2>1. NoProcessAfterQuit
    BY <1>1, RunFacts DEF NoProcessAfterQuit, EndIsFinal, EntryIsOfStep
  <2>2. CancelReachesRun
    <3> SUFFICES ASSUME NEW r \in Runs, Waits("user", r), step[r] = "explain" PROVE told[r]
      BY DEF CancelReachesRun
    <3>1. NoteIsSound("user", r) /\ CancelIsMarked
      BY <1>1, RunFacts DEF Stoppers
    <3> QED BY <3>1 DEF Waits, NoteIsSound, CancelIsMarked
  <2> QED BY <2>1, <2>2 DEF RunsAreStopped
<1> QED BY <1>1, RunBegins, RunKept, PTL DEF RunSpec

-----------------------------------------------------------------------------
(* Commit explanations.                                                    *)

ExplainRequests == [key : ExplanationKey, id : Nat, trigger : Triggers, version : 1..MaxVersion]
ExplainStates ==
  {NoExplanation} \union
  [st : {"queued", "running", "generated"} \union Terminal, id : Nat, trigger : Triggers,
   version : 1..MaxVersion]

WorkTypeOK ==
  /\ states \in [ExplanationKey -> ExplainStates]
  /\ tasks \in Seq(ExplainRequests) /\ cache \in Seq(ExplanationKey)
  /\ active \in {Idle} \union [at : {"run"}, task : ExplainRequests, canceled : BOOLEAN]
  /\ executing \in {"none", "pick", "execute"}
  /\ shutting \in BOOLEAN /\ converged \in BOOLEAN

AdmissionTypeOK ==
  /\ admission \in {NoRequestInside} \union [at : {"scope", "rest"}, q : ExplainRequests]
  /\ asked \in Nat

\* The worker is there while there is something to do, and has a task while it executes.
WorkerIsSound ==
  /\ executing = "execute" <=> active.at = "run"
  /\ tasks # <<>> => executing # "none"

\* A commit is in the cache's order once.
CachedOnce == \A i, j \in DOMAIN cache : cache[i] = cache[j] => i = j

ShutdownIsSound ==
  /\ shutting => tasks = <<>>
  /\ converged => shutting /\ active = Idle /\ executing = "none"

\* What the state of a commit has behind it.
Backed(k) ==
  /\ states[k].st = "queued" => \E i \in DOMAIN tasks : tasks[i].key = k
  /\ states[k].st = "running" => active.at = "run" /\ active.task.key = k
  /\ states[k].st = "generated" => \E i \in DOMAIN cache : cache[i] = k

WorkInv ==
  /\ WorkTypeOK /\ WorkerIsSound /\ CachedOnce /\ ShutdownIsSound
  /\ \A k \in ExplanationKey : Backed(k)
ExplainInv == WorkInv /\ AdmissionTypeOK

\* Before the first request nothing waits and nothing is known.
LEMMA ExplainBegins == ExplainInit => ExplainInv
<1> SUFFICES ASSUME ExplainInit PROVE ExplainInv
  OBVIOUS
<1>1. <<>> \in Seq(ExplainRequests) /\ <<>> \in Seq(ExplanationKey) /\ DOMAIN <<>> = {}
  OBVIOUS
<1>2. Idle.at # "run" /\ NoExplanation.st = "not_generated"
  BY DEF Idle, NoExplanation
<1>3. WorkTypeOK
  BY <1>1 DEF ExplainInit, WorkTypeOK, ExplainStates
<1>4. WorkerIsSound /\ CachedOnce /\ ShutdownIsSound /\ AdmissionTypeOK
  BY <1>1, <1>2
     DEF ExplainInit, WorkerIsSound, CachedOnce, ShutdownIsSound, AdmissionTypeOK
<1>5. \A k \in ExplanationKey : Backed(k)
  BY <1>2 DEF ExplainInit, Backed
<1> QED BY <1>3, <1>4, <1>5 DEF ExplainInv, WorkInv

\* A step that changes the state of one commit, to one that has nothing behind it.
LEMMA Labels ==
  ASSUME NEW q \in ExplainRequests,
         NEW st \in {"queued", "running", "generated"} \union Terminal
  PROVE  StateOf(q, st) \in ExplainStates /\ StateOf(q, st).st = st
BY DEF StateOf, ExplainStates, ExplainRequests

\* A request that is blocked has its answer as its state, and no task.
LEMMA BlockedKeeps ==
  ASSUME WorkInv, NEW q \in ExplainRequests, Blocked(q), UNCHANGED explainEnd
  PROVE  WorkInv'
<1>1. /\ states' = [states EXCEPT ![q.key] = StateOf(q, "unavailable")]
      /\ UNCHANGED <<tasks, active, executing, cache, shutting, converged>> /\ q.key \in ExplanationKey
  BY DEF Blocked, explainWork, explainEnd, ExplainRequests
<1>2. StateOf(q, "unavailable") \in ExplainStates /\ StateOf(q, "unavailable").st = "unavailable"
  BY Labels DEF Terminal
<1>3. WorkTypeOK'
  BY <1>1, <1>2 DEF WorkInv, WorkTypeOK
<1>4. \A k \in ExplanationKey : states'[k] = IF k = q.key THEN StateOf(q, "unavailable") ELSE states[k]
  BY <1>1 DEF WorkInv, WorkTypeOK
<1>5. \A k \in ExplanationKey : Backed(k)'
  BY <1>1, <1>2, <1>4 DEF WorkInv, Backed
<1>6. WorkerIsSound' /\ CachedOnce' /\ ShutdownIsSound'
  BY <1>1 DEF WorkInv, WorkerIsSound, CachedOnce, ShutdownIsSound
<1> QED BY <1>3, <1>5, <1>6 DEF WorkInv

\* A request that is queued has its task, and the worker there to take it.
LEMMA EnqueueKeeps ==
  ASSUME WorkInv, NEW q \in ExplainRequests, Enqueue(q), UNCHANGED explainEnd, ~shutting
  PROVE  WorkInv'
<1>1. /\ states' = [states EXCEPT ![q.key] = StateOf(q, "queued")] /\ tasks' = Append(tasks, q)
      /\ executing' = IF executing = "none" THEN "pick" ELSE executing
      /\ UNCHANGED <<active, cache, shutting, converged>> /\ q.key \in ExplanationKey
  BY DEF Enqueue, explainEnd, ExplainRequests
<1>2. StateOf(q, "queued") \in ExplainStates /\ StateOf(q, "queued").st = "queued"
  BY Labels
<1>3. /\ tasks' \in Seq(ExplainRequests) /\ Len(tasks) \in Nat
      /\ DOMAIN tasks = 1..Len(tasks) /\ DOMAIN tasks' = 1..(Len(tasks) + 1)
      /\ \A i \in 1..Len(tasks) : tasks'[i] = tasks[i]
      /\ tasks'[Len(tasks) + 1] = q
  BY <1>1, AppendProperties, LenProperties DEF WorkInv, WorkTypeOK
<1>4. WorkTypeOK'
  BY <1>1, <1>2, <1>3 DEF WorkInv, WorkTypeOK
<1>5. \A k \in ExplanationKey : states'[k] = IF k = q.key THEN StateOf(q, "queued") ELSE states[k]
  BY <1>1 DEF WorkInv, WorkTypeOK
<1>6. ASSUME NEW k \in ExplanationKey PROVE Backed(k)'
  <2>1. CASE k = q.key
    <3>1. Len(tasks) + 1 \in DOMAIN tasks'
      BY <1>3
    <3> QED BY <1>2, <1>3, <1>5, <2>1, <3>1 DEF Backed
  <2>2. CASE k # q.key
    <3>1. \A i \in DOMAIN tasks : i \in DOMAIN tasks'
      BY <1>3
    <3> QED BY <1>1, <1>3, <1>5, <2>2, <3>1 DEF WorkInv, Backed
  <2> QED BY <2>1, <2>2
<1>7. WorkerIsSound' /\ CachedOnce' /\ ShutdownIsSound'
  BY <1>1 DEF WorkInv, WorkTypeOK, WorkerIsSound, CachedOnce, ShutdownIsSound
<1> QED BY <1>4, <1>6, <1>7 DEF WorkInv

\* A commit keeps its state, and the task that is bound to it keeps the commit.
LEMMA RelabelKeeps ==
  ASSUME WorkInv, NEW q \in ExplainRequests, states[q.key] # NoExplanation,
         states' = [states EXCEPT ![q.key] = StateOf(q, states[q.key].st)],
         tasks' \in Seq(ExplainRequests), DOMAIN tasks' = DOMAIN tasks,
         \A i \in DOMAIN tasks : tasks'[i].key = tasks[i].key,
         active' = active \/ /\ active.at = "run" /\ active.task.key = q.key
                             /\ active' = [active EXCEPT !.task = q],
         UNCHANGED <<executing, cache, explainEnd>>
  PROVE  WorkInv'
<1>1. states[q.key].st \in {"queued", "running", "generated"} \union Terminal /\ q.key \in ExplanationKey
  BY DEF WorkInv, WorkTypeOK, ExplainStates, ExplainRequests
<1>2. /\ StateOf(q, states[q.key].st) \in ExplainStates
      /\ StateOf(q, states[q.key].st).st = states[q.key].st
  BY <1>1, Labels
<1>3. \A k \in ExplanationKey : states'[k].st = states[k].st
  BY <1>1, <1>2 DEF WorkInv, WorkTypeOK
<1>4. /\ active' \in {Idle} \union [at : {"run"}, task : ExplainRequests, canceled : BOOLEAN]
      /\ active'.at = active.at /\ (active.at = "run" => active'.task.key = active.task.key)
      /\ active = Idle => active' = Idle
  <2>1. CASE active' = active
    BY <2>1 DEF WorkInv, WorkTypeOK
  <2>2. CASE active.at = "run" /\ active.task.key = q.key /\ active' = [active EXCEPT !.task = q]
    <3>1. active \in [at : {"run"}, task : ExplainRequests, canceled : BOOLEAN]
      BY <2>2 DEF WorkInv, WorkTypeOK, Idle
    <3>2. Idle.at # "run"
      BY DEF Idle
    <3> QED BY <2>2, <3>1, <3>2
  <2> QED BY <2>1, <2>2
<1>5. WorkTypeOK'
  BY <1>1, <1>2, <1>4 DEF WorkInv, WorkTypeOK, explainEnd
<1>6. \A k \in ExplanationKey : Backed(k)'
  BY <1>3, <1>4 DEF WorkInv, Backed
<1>7. tasks = <<>> <=> tasks' = <<>>
  BY EmptySeq, LenProperties DEF WorkInv, WorkTypeOK
<1>8. WorkerIsSound' /\ CachedOnce' /\ ShutdownIsSound'
  BY <1>4, <1>7 DEF WorkInv, WorkerIsSound, CachedOnce, ShutdownIsSound, explainEnd
<1> QED BY <1>5, <1>6, <1>8 DEF WorkInv

\* A request for what is known keeps what its state has behind it.
LEMMA KnownKeeps ==
  ASSUME WorkInv, NEW q \in ExplainRequests, states[q.key] # NoExplanation, OnKnown(q),
         UNCHANGED explainEnd
  PROVE  WorkInv'
<1>1. CASE UNCHANGED <<states, explainWork>>
  BY <1>1
     DEF WorkInv, WorkTypeOK, WorkerIsSound, CachedOnce, ShutdownIsSound, Backed, explainWork,
         explainEnd
<1>2. CASE /\ states' = [states EXCEPT ![q.key] = StateOf(q, states[q.key].st)]
           /\ Rebind(q)
  <2> DEFINE to(i) == IF tasks[i].key = q.key /\ \A j \in 1..(i - 1) : tasks[j].key # q.key
                      THEN q ELSE tasks[i]
  <2>1. /\ tasks' = [i \in DOMAIN tasks |-> to(i)] /\ UNCHANGED <<active, executing, cache>>
        /\ tasks \in Seq(ExplainRequests) /\ DOMAIN tasks = 1..Len(tasks) /\ Len(tasks) \in Nat
    BY <1>2, LenProperties DEF Rebind, WorkInv, WorkTypeOK
  <2>2. \A i \in 1..Len(tasks) : to(i) \in ExplainRequests /\ to(i).key = tasks[i].key
    BY <2>1, ElementOfSeq
  <2> HIDE DEF to
  <2>3. tasks' \in [1..Len(tasks) -> ExplainRequests]
    BY <2>1, <2>2
  <2>4. tasks' \in Seq(ExplainRequests)
    BY <2>1, <2>3, SeqDef
  <2>5. DOMAIN tasks' = DOMAIN tasks /\ \A i \in DOMAIN tasks : tasks'[i].key = tasks[i].key
    BY <2>1, <2>2
  <2> QED BY <1>2, <2>1, <2>4, <2>5, RelabelKeeps
<1>3. CASE /\ states' = [states EXCEPT ![q.key] = StateOf(q, states[q.key].st)]
           /\ (ActiveOn(q.key) /\ RebindActive(q)) \/ UNCHANGED explainWork
  BY <1>3, RelabelKeeps DEF WorkInv, WorkTypeOK, ActiveOn, RebindActive, explainWork
<1> QED BY <1>1, <1>2, <1>3 DEF OnKnown

\* What a request does under the data lock.
LEMMA ProceedKeeps ==
  ASSUME WorkInv, NEW q \in ExplainRequests, Proceed(q), UNCHANGED explainEnd
  PROVE  WorkInv'
<1>1. CASE UNCHANGED <<states, explainWork>>
  BY <1>1
     DEF WorkInv, WorkTypeOK, WorkerIsSound, CachedOnce, ShutdownIsSound, Backed, explainWork,
         explainEnd
<1> QED BY <1>1, BlockedKeeps, KnownKeeps, EnqueueKeeps DEF Proceed

\* The facts of the work under way, apart.
LEMMA WorkFacts ==
  ASSUME WorkInv
  PROVE  /\ WorkTypeOK /\ WorkerIsSound /\ CachedOnce /\ ShutdownIsSound
         /\ \A k \in ExplanationKey : Backed(k)
         /\ states \in [ExplanationKey -> ExplainStates]
         /\ tasks \in Seq(ExplainRequests) /\ cache \in Seq(ExplanationKey)
         /\ DOMAIN tasks = 1..Len(tasks) /\ Len(tasks) \in Nat
         /\ Idle.at # "run" /\ NoExplanation.st = "not_generated"
         /\ active.at = "run" => /\ active \in [at : {"run"}, task : ExplainRequests, canceled : BOOLEAN]
                                 /\ active.task \in ExplainRequests
                                 /\ active.task.key \in ExplanationKey
<1>1. Idle.at # "run" /\ NoExplanation.st = "not_generated"
  BY DEF Idle, NoExplanation
<1>2. WorkTypeOK /\ DOMAIN tasks = 1..Len(tasks) /\ Len(tasks) \in Nat
  BY LenProperties DEF WorkInv, WorkTypeOK
<1>3. active.at = "run" => /\ active \in [at : {"run"}, task : ExplainRequests, canceled : BOOLEAN]
                           /\ active.task \in ExplainRequests
                           /\ active.task.key \in ExplanationKey
  BY <1>1, <1>2 DEF WorkTypeOK, ExplainRequests
<1> QED BY <1>1, <1>2, <1>3 DEF WorkInv, WorkTypeOK

\* The state of a canceled commit has nothing behind it.
LEMMA CancelLabels ==
  ASSUME WorkInv, NEW k \in ExplanationKey
  PROVE  /\ [states[k] EXCEPT !.st = "canceled"].st = "canceled"
         /\ states[k] # NoExplanation => [states[k] EXCEPT !.st = "canceled"] \in ExplainStates
<1>1. states[k] \in ExplainStates
  BY WorkFacts
<1> QED BY <1>1 DEF ExplainStates, NoExplanation, Terminal

\* Cancelling takes the tasks of a request and the states they backed.
LEMMA CancelKeeps ==
  ASSUME WorkInv, NEW id \in Nat, CancelTask(id)
  PROVE  WorkInv'
<1>0. UNCHANGED <<executing, cache, shutting, converged>>
  BY DEF CancelTask, explainEnd
<1>1. ASSUME NEW key \in ExplanationKey, CancelState(key)
      PROVE  /\ states' \in [ExplanationKey -> ExplainStates]
             /\ \A k \in ExplanationKey : states'[k] = states[k] \/ states'[k].st = "canceled"
             /\ states'[key].st \in {"canceled", "not_generated"}
  <2>1. CASE states[key] = NoExplanation
    BY <1>1, <2>1, WorkFacts DEF CancelState
  <2>2. CASE states[key] # NoExplanation
    <3>1. states' = [states EXCEPT ![key] = [states[key] EXCEPT !.st = "canceled"]]
      BY <1>1, <2>2, WorkFacts DEF CancelState
    <3> QED BY <2>2, <3>1, CancelLabels, WorkFacts
  <2> QED BY <2>1, <2>2
<1>2. CASE /\ active.at = "run" /\ active' = [active EXCEPT !.canceled = TRUE]
           /\ CancelState(active.task.key) /\ UNCHANGED tasks
  <2>1. /\ active' \in [at : {"run"}, task : ExplainRequests, canceled : BOOLEAN]
        /\ active'.at = "run" /\ active'.task = active.task
    BY <1>2, WorkFacts
  <2>2. WorkTypeOK'
    BY <1>0, <1>1, <1>2, <2>1, WorkFacts DEF WorkTypeOK
  <2>3. \A k \in ExplanationKey : Backed(k)'
    BY <1>0, <1>1, <1>2, <2>1, WorkFacts DEF Backed
  <2>4. WorkerIsSound' /\ CachedOnce' /\ ShutdownIsSound'
    BY <1>0, <1>2, <2>1, WorkFacts DEF WorkerIsSound, CachedOnce, ShutdownIsSound
  <2> QED BY <2>2, <2>3, <2>4 DEF WorkInv
<1>3. ASSUME NEW i \in DOMAIN tasks, UNCHANGED active, CancelState(tasks[i].key),
             tasks' = SubSeq(tasks, 1, i - 1) \o SubSeq(tasks, i + 1, Len(tasks))
      PROVE  WorkInv'
  <2>1. /\ tasks' \in Seq(ExplainRequests) /\ tasks # <<>>
        /\ \A j \in DOMAIN tasks \ {i} : \E k \in DOMAIN tasks' : tasks'[k] = tasks[j]
    <3>1. i \in 1..Len(tasks) /\ tasks \in Seq(ExplainRequests) /\ Len(tasks) \in Nat
      BY WorkFacts
    <3>2. tasks # <<>>
      BY <3>1, EmptySeq
    <3>3. tasks' = RestOf(tasks, i)
      BY <1>3 DEF RestOf
    <3> QED BY <3>1, <3>2, <3>3, OneOutKeeps
  <2>2. tasks[i].key \in ExplanationKey
    <3>1. i \in 1..Len(tasks) /\ tasks \in Seq(ExplainRequests)
      BY WorkFacts
    <3>2. tasks[i] \in ExplainRequests
      BY <3>1, ElementOfSeq
    <3> QED BY <3>2 DEF ExplainRequests
  <2>3. WorkTypeOK'
    BY <1>0, <1>1, <1>3, <2>1, <2>2, WorkFacts DEF WorkTypeOK
  <2>4. ASSUME NEW k \in ExplanationKey PROVE Backed(k)'
    <3>1. CASE k = tasks[i].key
      BY <1>1, <1>3, <2>2, <3>1 DEF Backed
    <3>2. CASE k # tasks[i].key
      <4>1. states'[k] = states[k] \/ states'[k].st = "canceled"
        BY <1>1, <1>3, <2>2
      <4>2. states[k].st = "queued" => \E j \in DOMAIN tasks' : tasks'[j].key = k
        BY <2>1, <3>2, WorkFacts DEF Backed
      <4> QED BY <1>0, <1>3, <4>1, <4>2, WorkFacts DEF Backed
    <3> QED BY <3>1, <3>2
  <2>5. ShutdownIsSound'
    BY <1>0, <1>3, <2>1, WorkFacts DEF ShutdownIsSound
  <2>6. WorkerIsSound' /\ CachedOnce'
    BY <1>0, <1>3, <2>1, WorkFacts DEF WorkerIsSound, CachedOnce
  <2> QED BY <2>3, <2>4, <2>5, <2>6 DEF WorkInv
<1> QED BY <1>2, <1>3 DEF CancelTask

\* From the beginning of the shutdown no task waits, and its report comes when the worker is gone.
LEMMA ShutdownKeeps ==
  ASSUME WorkInv, BeginShutdown \/ ReportShutdown
  PROVE  WorkInv'
<1>1. CASE BeginShutdown
  <2>1. /\ shutting' = TRUE /\ tasks' = <<>> /\ UNCHANGED <<executing, cache, converged>>
        /\ states' = [k \in ExplanationKey |->
             IF states[k] # NoExplanation /\ (TasksOn(k) # {} \/ ActiveOn(k))
             THEN [states[k] EXCEPT !.st = "canceled"] ELSE states[k]]
    BY <1>1 DEF BeginShutdown
  <2>2. /\ active' \in {Idle} \union [at : {"run"}, task : ExplainRequests, canceled : BOOLEAN]
        /\ active'.at = active.at /\ (active.at = "run" => active'.task = active.task)
        /\ active = Idle => active' = Idle
    <3>1. CASE active.at = "run"
      BY <1>1, <3>1, WorkFacts DEF BeginShutdown
    <3>2. CASE active.at # "run"
      BY <1>1, <3>2, WorkFacts DEF BeginShutdown, WorkTypeOK
    <3> QED BY <3>1, <3>2
  <2>3. ASSUME NEW k \in ExplanationKey
        PROVE  states'[k] \in ExplainStates /\ Backed(k)'
    <3>1. CASE states[k] # NoExplanation /\ (TasksOn(k) # {} \/ ActiveOn(k))
      BY <2>1, <3>1, CancelLabels DEF Backed
    <3>2. CASE ~(states[k] # NoExplanation /\ (TasksOn(k) # {} \/ ActiveOn(k)))
      <4>1. states'[k] = states[k] /\ states[k] \in ExplainStates
        BY <2>1, <3>2, WorkFacts
      <4>2. states[k].st \notin {"queued", "running"}
        BY <3>2, WorkFacts DEF Backed, TasksOn, ActiveOn
      <4> QED BY <2>1, <4>1, <4>2, WorkFacts DEF Backed
    <3> QED BY <3>1, <3>2
  <2>4. WorkTypeOK'
    BY <2>1, <2>2, <2>3, EmptySeq, WorkFacts DEF WorkTypeOK
  <2>5. WorkerIsSound' /\ CachedOnce' /\ ShutdownIsSound'
    BY <2>1, <2>2, WorkFacts DEF WorkerIsSound, CachedOnce, ShutdownIsSound
  <2> QED BY <2>3, <2>4, <2>5 DEF WorkInv
<1>2. CASE ReportShutdown
  <2>1. /\ shutting /\ executing = "none" /\ UNCHANGED <<states, tasks, active, executing, cache, shutting>>
        /\ converged' \in BOOLEAN /\ (converged' => tasks = <<>> /\ active = Idle)
    BY <1>2 DEF ReportShutdown, explainWork
  <2>2. WorkTypeOK'
    BY <2>1, WorkFacts DEF WorkTypeOK
  <2>3. WorkerIsSound' /\ CachedOnce' /\ ShutdownIsSound'
    BY <2>1, WorkFacts DEF WorkerIsSound, CachedOnce, ShutdownIsSound
  <2>4. \A k \in ExplanationKey : Backed(k)'
    BY <2>1, WorkFacts DEF Backed
  <2> QED BY <2>2, <2>3, <2>4 DEF WorkInv
<1> QED BY <1>1, <1>2

\* The worker takes the first task, and ends only when there is none.
LEMMA PickKeeps ==
  ASSUME WorkInv, PickTask \/ WorkerEnds
  PROVE  WorkInv'
<1>1. CASE PickTask
  <2> DEFINE q == Head(tasks)
  <2>1. /\ executing = "pick" /\ tasks # <<>> /\ tasks' = Tail(tasks)
        /\ UNCHANGED <<cache, shutting, converged>>
        /\ \/ /\ active' = [at |-> "run", task |-> q, canceled |-> FALSE]
              /\ states' = [states EXCEPT ![q.key] = StateOf(q, "running")] /\ executing' = "execute"
           \/ /\ states' = [states EXCEPT ![q.key] = StateOf(q, "unavailable")]
              /\ UNCHANGED <<active, executing>>
    BY <1>1 DEF PickTask, explainEnd
  <2>2. /\ q \in ExplainRequests /\ q.key \in ExplanationKey /\ q = tasks[1]
        /\ tasks' \in Seq(ExplainRequests)
        /\ DOMAIN tasks' = 1..(Len(tasks) - 1) /\ \A i \in 1..(Len(tasks) - 1) : tasks'[i] = tasks[i + 1]
    <3>1. tasks \in Seq(ExplainRequests) /\ tasks # <<>> /\ Len(tasks) \in Nat
      BY <2>1, WorkFacts
    <3>2. /\ q \in ExplainRequests /\ tasks' \in Seq(ExplainRequests)
          /\ Len(tasks') = Len(tasks) - 1 /\ \A i \in 1..Len(tasks') : tasks'[i] = tasks[i + 1]
      BY <2>1, <3>1, HeadTailProperties
    <3>3. DOMAIN tasks' = 1..(Len(tasks) - 1)
      BY <3>2, LenProperties
    <3>4. q = tasks[1]
      BY <3>1
    <3>5. q.key \in ExplanationKey
      BY <3>2 DEF ExplainRequests
    <3> QED BY <3>2, <3>3, <3>4, <3>5
  <2> HIDE DEF q
  <2>3. active.at # "run" /\ ~shutting /\ ~converged
    BY <2>1, WorkFacts DEF WorkerIsSound, ShutdownIsSound
  <2>4. /\ \A k \in ExplanationKey : k # q.key => states'[k] = states[k]
        /\ states' \in [ExplanationKey -> ExplainStates]
        /\ \/ states'[q.key].st = "running" /\ active'.at = "run" /\ active'.task.key = q.key
              /\ executing' = "execute"
              /\ active' \in [at : {"run"}, task : ExplainRequests, canceled : BOOLEAN]
           \/ states'[q.key].st = "unavailable" /\ UNCHANGED <<active, executing>>
    <3>1. ASSUME NEW st \in {"running", "unavailable"},
                 states' = [states EXCEPT ![q.key] = StateOf(q, st)]
          PROVE  /\ states' \in [ExplanationKey -> ExplainStates] /\ states'[q.key].st = st
                 /\ \A k \in ExplanationKey : k # q.key => states'[k] = states[k]
      <4>1. StateOf(q, st) \in ExplainStates /\ StateOf(q, st).st = st
        BY <2>2, Labels DEF Terminal
      <4> QED BY <2>2, <3>1, <4>1, WorkFacts
    <3>2. CASE /\ active' = [at |-> "run", task |-> q, canceled |-> FALSE] /\ executing' = "execute"
               /\ states' = [states EXCEPT ![q.key] = StateOf(q, "running")]
      BY <2>2, <3>1, <3>2
    <3> QED BY <2>1, <3>1, <3>2
  <2>5. ASSUME NEW k \in ExplanationKey, k # q.key, states[k].st = "queued"
        PROVE  \E i \in DOMAIN tasks' : tasks'[i].key = k
    <3>1. PICK i \in 1..Len(tasks) : tasks[i].key = k
      BY <2>5, WorkFacts DEF Backed
    <3>2. i # 1
      BY <2>2, <2>5, <3>1
    <3>3. i - 1 \in 1..(Len(tasks) - 1) /\ (i - 1) + 1 = i
      BY <3>2, WorkFacts
    <3> QED BY <2>2, <3>1, <3>3
  <2>6. \A k \in ExplanationKey : Backed(k)'
    BY <2>1, <2>3, <2>4, <2>5, WorkFacts DEF Backed
  <2>7. WorkTypeOK'
    BY <2>1, <2>2, <2>4, WorkFacts DEF WorkTypeOK
  <2>8. WorkerIsSound' /\ CachedOnce' /\ ShutdownIsSound'
    BY <2>1, <2>3, <2>4, WorkFacts DEF WorkerIsSound, CachedOnce, ShutdownIsSound
  <2> QED BY <2>6, <2>7, <2>8 DEF WorkInv
<1>2. CASE WorkerEnds
  BY <1>2, WorkFacts
     DEF WorkerEnds, WorkInv, WorkTypeOK, WorkerIsSound, CachedOnce, ShutdownIsSound, Backed,
         explainEnd
<1> QED BY <1>1, <1>2

\* The order of the cache without one commit, and without those that are too many.
LEMMA CacheWithout ==
  ASSUME WorkInv, NEW key \in ExplanationKey, NEW w, w = WithoutEntry(key)
  PROVE  /\ w \in Seq(ExplanationKey) /\ DOMAIN w = 1..Len(w) /\ Len(w) \in Nat
         /\ \A i, j \in DOMAIN w : w[i] = w[j] => i = j
         /\ \A i \in DOMAIN w : w[i] # key
         /\ \A k \in ExplanationKey \ {key} :
              (\E i \in DOMAIN cache : cache[i] = k) => \E i \in DOMAIN w : w[i] = k
<1>0. cache \in Seq(ExplanationKey) /\ DOMAIN cache = 1..Len(cache) /\ Len(cache) \in Nat
      /\ \A i, j \in DOMAIN cache : cache[i] = cache[j] => i = j
  BY WorkFacts, LenProperties DEF CachedOnce
<1>1. CASE ~Cached(key)
  <2>1. w = cache
    BY <1>1 DEF WithoutEntry
  <2> QED BY <1>0, <1>1, <2>1 DEF Cached
<1>2. CASE Cached(key)
  <2> DEFINE i == CHOOSE i \in DOMAIN cache : cache[i] = key
  <2>1. i \in DOMAIN cache /\ cache[i] = key
    BY <1>2 DEF Cached
  <2>2. w = RestOf(cache, i)
    BY <1>2 DEF WithoutEntry, RestOf
  <2> HIDE DEF i
  <2>3. i \in 1..Len(cache)
    BY <1>0, <2>1
  <2>4. /\ w \in Seq(ExplanationKey) /\ Len(w) = Len(cache) - 1 /\ DOMAIN w = 1..(Len(cache) - 1)
        /\ \A j \in DOMAIN cache \ {i} : \E k \in DOMAIN w : w[k] = cache[j]
        /\ \A j, k \in DOMAIN w : j < k =>
             \E m, l \in DOMAIN cache \ {i} : m < l /\ w[j] = cache[m] /\ w[k] = cache[l]
        /\ \A j \in DOMAIN w : \E m \in DOMAIN cache \ {i} : w[j] = cache[m]
    <3> DEFINE r == RestOf(cache, i)
    <3>1. cache \in Seq(ExplanationKey) /\ i \in 1..Len(cache)
      BY <1>0, <2>3
    <3>4. /\ r \in Seq(ExplanationKey) /\ Len(r) = Len(cache) - 1 /\ DOMAIN r = 1..(Len(cache) - 1)
          /\ \A j \in DOMAIN r : \E m \in DOMAIN cache \ {i} : r[j] = cache[m]
      BY <3>1, OneOutKeeps
    <3>5. \A j \in DOMAIN cache \ {i} : \E k \in DOMAIN r : r[k] = cache[j]
      BY <3>1, OneOutKeeps
    <3>6. \A j, k \in DOMAIN r : j < k =>
            \E m, l \in DOMAIN cache \ {i} : m < l /\ r[j] = cache[m] /\ r[k] = cache[l]
      BY <3>1, OneOutKeeps
    <3>2. w = r
      BY <2>2
    <3> HIDE DEF r
    <3> QED BY <3>2, <3>4, <3>5, <3>6
  <2>5. ASSUME NEW j \in DOMAIN w, NEW k \in DOMAIN w, w[j] = w[k] PROVE j = k
    <3>1. ASSUME NEW a \in DOMAIN w, NEW b \in DOMAIN w, a < b PROVE w[a] # w[b]
      <4>1. PICK m \in DOMAIN cache, l \in DOMAIN cache : m < l /\ w[a] = cache[m] /\ w[b] = cache[l]
        <5>1. \E m, l \in DOMAIN cache \ {i} : m < l /\ w[a] = cache[m] /\ w[b] = cache[l]
          BY <2>4, <3>1
        <5> QED BY <5>1
      <4>2. m # l
        BY <1>0, <4>1
      <4> QED BY <1>0, <4>1, <4>2
    <3>2. j \in Int /\ k \in Int
      BY <2>4
    <3>3. j < k \/ k < j \/ j = k
      BY <3>2
    <3> QED BY <2>5, <3>1, <3>3
  <2>6. \A j \in DOMAIN w : w[j] # key
    BY <1>0, <2>1, <2>4
  <2>7. ASSUME NEW k \in ExplanationKey \ {key}, NEW j \in DOMAIN cache, cache[j] = k
        PROVE  \E m \in DOMAIN w : w[m] = k
    <3>1. j # i
      BY <2>1, <2>7
    <3> QED BY <2>4, <2>7, <3>1
  <2>8. Len(w) \in Nat /\ DOMAIN w = 1..Len(w)
    BY <2>4, LenProperties
  <2> QED BY <2>4, <2>5, <2>6, <2>7, <2>8
<1> QED BY <1>1, <1>2

\* Making a commit the youngest keeps each commit once in the order of the cache.
LEMMA CacheYounger ==
  ASSUME WorkInv, NEW key \in ExplanationKey, NEW y, y = Younger(key)
  PROVE  /\ y \in Seq(ExplanationKey) /\ DOMAIN y = 1..Len(y) /\ Len(y) \in Nat
         /\ \A i, j \in DOMAIN y : y[i] = y[j] => i = j
         /\ \A i \in DOMAIN y : y[i] # key
         /\ \A k \in ExplanationKey \ {key} :
              (\E i \in DOMAIN cache : cache[i] = k) /\ k \notin Evicted(key) =>
                \E i \in DOMAIN y : y[i] = k
<1> DEFINE w == WithoutEntry(key)
           e == Excess(key)
           n == Len(w)
<1>1. /\ w \in Seq(ExplanationKey) /\ DOMAIN w = 1..n /\ n \in Nat
      /\ \A i, j \in DOMAIN w : w[i] = w[j] => i = j
      /\ \A i \in DOMAIN w : w[i] # key
      /\ \A k \in ExplanationKey \ {key} :
           (\E i \in DOMAIN cache : cache[i] = k) => \E i \in DOMAIN w : w[i] = k
  BY CacheWithout
<1>2. e \in Nat /\ e <= n
  BY <1>1, ExplanationAssumption DEF Excess
<1>3. y = SubSeq(w, e + 1, n)
  BY DEF Younger
<1>4. \A k : k \notin Evicted(key) => \A i \in 1..e : w[i] # k
  BY DEF Evicted
<1> HIDE DEF w, e
<1>5. \A i \in 1..n : w[i] \in ExplanationKey
  BY <1>1, ElementOfSeq
<1> HIDE DEF n
<1>6. \A i \in (e + 1)..n : w[i] \in ExplanationKey
  BY <1>1, <1>2, <1>5
<1>7. /\ y \in Seq(ExplanationKey) /\ Len(y) = IF e + 1 <= n THEN n - (e + 1) + 1 ELSE 0
      /\ \A i \in 1..(n - (e + 1) + 1) : y[i] = w[(e + 1) + i - 1]
  BY <1>1, <1>2, <1>3, <1>6, SubSeqProperties
<1>8. Len(y) = n - e /\ DOMAIN y = 1..(n - e)
  BY <1>1, <1>2, <1>7, LenProperties
<1>9. \A i \in 1..(n - e) : e + i \in DOMAIN w /\ y[i] = w[e + i]
  BY <1>1, <1>2, <1>7
<1>10. ASSUME NEW i \in DOMAIN y, NEW j \in DOMAIN y, y[i] = y[j] PROVE i = j
  <2>1. e + i = e + j
    BY <1>1, <1>8, <1>9, <1>10
  <2> QED BY <1>2, <1>8, <2>1
<1>11. \A i \in DOMAIN y : y[i] # key
  BY <1>1, <1>8, <1>9
<1>12. ASSUME NEW k \in ExplanationKey \ {key}, \E i \in DOMAIN cache : cache[i] = k, k \notin Evicted(key)
       PROVE  \E i \in DOMAIN y : y[i] = k
  <2>1. PICK i \in DOMAIN w : w[i] = k
    BY <1>1, <1>12
  <2>2. i \in 1..n /\ i \notin 1..e
    BY <1>1, <1>4, <1>12, <2>1
  <2>3. i - e \in 1..(n - e) /\ e + (i - e) = i
    BY <1>1, <1>2, <2>2
  <2> QED BY <1>8, <1>9, <2>1, <2>3
<1>13. DOMAIN y = 1..Len(y) /\ Len(y) \in Nat
  BY <1>1, <1>2, <1>8
<1> QED BY <1>7, <1>10, <1>11, <1>12, <1>13

\* The worker is done with its task.
LEMMA FinishKeeps ==
  ASSUME WorkInv, NEW ending \in {"generated"} \union Terminal, FinishTask(ending)
  PROVE  WorkInv'
<1> DEFINE q == active.task
           gone == ending = "generated"
<1>1. /\ executing = "execute" /\ executing' = "pick" /\ active' = Idle
      /\ UNCHANGED <<tasks, shutting, converged>>
  BY DEF FinishTask, explainEnd
<1>2. /\ active.at = "run" /\ q \in ExplainRequests /\ q.key \in ExplanationKey /\ ~converged
      /\ \A k \in ExplanationKey : states[k].st = "running" => k = q.key
  BY <1>1, WorkFacts DEF WorkerIsSound, ShutdownIsSound, Backed
<1>3. \/ states[q.key].st = "canceled" /\ UNCHANGED <<states, cache>>
      \/ gone /\ CacheIn(q)
      \/ /\ ending # "generated" /\ UNCHANGED cache
         /\ states' = [states EXCEPT ![q.key] = StateOf(q, ending)]
      \/ /\ states' = [k \in ExplanationKey |->
              IF k = q.key THEN StateOf(q, "unavailable")
              ELSE IF gone /\ k \in Evicted(q.key) /\ states[k].st = "generated" THEN NoExplanation
              ELSE states[k]]
         /\ cache' = IF gone THEN Younger(q.key) ELSE WithoutEntry(q.key)
  BY DEF FinishTask
<1> HIDE DEF q
<1>4. \A k \in ExplanationKey : states[k] \in ExplainStates /\ NoExplanation \in ExplainStates
  BY WorkFacts DEF ExplainStates
\* What is left of the queue, the cache and the states of the other commits is as before.
<1>5. ASSUME states' \in [ExplanationKey -> ExplainStates],
             cache' \in Seq(ExplanationKey), CachedOnce',
             \A k \in ExplanationKey : k # q.key => states'[k] \in {states[k], NoExplanation},
             states'[q.key].st \notin {"queued", "running"} \/ states'[q.key] = states[q.key],
             states[q.key].st = "running" => states'[q.key].st # "running",
             \A k \in ExplanationKey :
               states'[k].st = "generated" => \E i \in DOMAIN cache' : cache'[i] = k
      PROVE  WorkInv'
  <2>1. WorkTypeOK'
    BY <1>1, <1>5, WorkFacts DEF WorkTypeOK
  <2>2. \A k \in ExplanationKey : Backed(k)'
    BY <1>1, <1>2, <1>5, WorkFacts DEF Backed
  <2>3. WorkerIsSound' /\ ShutdownIsSound'
    BY <1>1, <1>2, WorkFacts DEF WorkerIsSound, ShutdownIsSound
  <2> QED BY <1>5, <2>1, <2>2, <2>3 DEF WorkInv
<1>6. CASE states[q.key].st = "canceled" /\ UNCHANGED <<states, cache>>
  BY <1>5, <1>6, WorkFacts DEF Backed, CachedOnce
<1>7. CASE gone /\ CacheIn(q)
  <2> DEFINE y == Younger(q.key)
  <2>1. /\ y \in Seq(ExplanationKey) /\ DOMAIN y = 1..Len(y) /\ Len(y) \in Nat
        /\ \A i, j \in DOMAIN y : y[i] = y[j] => i = j
        /\ \A i \in DOMAIN y : y[i] # q.key
        /\ \A k \in ExplanationKey \ {q.key} :
             (\E i \in DOMAIN cache : cache[i] = k) /\ k \notin Evicted(q.key) =>
               \E i \in DOMAIN y : y[i] = k
    BY <1>2, CacheYounger
  <2>2. cache' = Append(y, q.key)
    BY <1>7 DEF CacheIn
  <2> HIDE DEF y
  <2>3. /\ cache' \in Seq(ExplanationKey) /\ DOMAIN cache' = 1..(Len(y) + 1)
        /\ \A i \in 1..Len(y) : cache'[i] = y[i]
        /\ cache'[Len(y) + 1] = q.key
    BY <1>2, <2>1, <2>2, AppendProperties, LenProperties
  <2>4. CachedOnce'
    BY <2>1, <2>3 DEF CachedOnce
  <2>5. StateOf(q, "generated") \in ExplainStates /\ StateOf(q, "generated").st = "generated"
    BY <1>2, Labels
  <2>6. states' = [k \in ExplanationKey |->
          IF k = q.key THEN StateOf(q, "generated")
          ELSE IF k \in Evicted(q.key) /\ states[k].st = "generated" THEN NoExplanation
          ELSE states[k]]
    BY <1>7 DEF CacheIn
  <2>7. states' \in [ExplanationKey -> ExplainStates] /\ states'[q.key].st = "generated"
    BY <1>2, <1>4, <2>5, <2>6
  <2>8. ASSUME NEW k \in ExplanationKey, k # q.key
        PROVE  /\ states'[k] \in {states[k], NoExplanation}
               /\ states'[k].st = "generated" => k \notin Evicted(q.key) /\ states[k].st = "generated"
    BY <2>6, <2>8, WorkFacts
  <2>9. ASSUME NEW k \in ExplanationKey, states'[k].st = "generated"
        PROVE  \E i \in DOMAIN cache' : cache'[i] = k
    <3>1. CASE k = q.key
      <4>1. Len(y) + 1 \in 1..(Len(y) + 1)
        BY <2>1
      <4> QED BY <2>3, <3>1, <4>1
    <3>2. CASE k # q.key
      <4>1. \E i \in DOMAIN cache : cache[i] = k
        BY <2>8, <2>9, <3>2, WorkFacts DEF Backed
      <4>2. PICK i \in 1..Len(y) : y[i] = k
        BY <2>1, <2>8, <2>9, <3>2, <4>1
      <4>3. i \in 1..(Len(y) + 1)
        BY <2>1
      <4> QED BY <2>3, <4>2, <4>3
    <3> QED BY <3>1, <3>2
  <2> QED BY <1>5, <2>3, <2>4, <2>7, <2>8, <2>9
<1>8. CASE /\ ending # "generated" /\ UNCHANGED cache
           /\ states' = [states EXCEPT ![q.key] = StateOf(q, ending)]
  <2>1. /\ StateOf(q, ending) \in ExplainStates /\ StateOf(q, ending).st = ending
        /\ ending \notin {"generated", "queued", "running"}
    BY <1>2, <1>8, Labels DEF Terminal
  <2>2. /\ states' \in [ExplanationKey -> ExplainStates]
        /\ \A k \in ExplanationKey :
             states'[k] = IF k = q.key THEN StateOf(q, ending) ELSE states[k]
    BY <1>2, <1>8, <2>1, WorkFacts
  <2> QED BY <1>2, <1>5, <1>8, <2>1, <2>2, WorkFacts DEF Backed, CachedOnce
<1>9. CASE /\ states' = [k \in ExplanationKey |->
                IF k = q.key THEN StateOf(q, "unavailable")
                ELSE IF gone /\ k \in Evicted(q.key) /\ states[k].st = "generated" THEN NoExplanation
                ELSE states[k]]
           /\ cache' = IF gone THEN Younger(q.key) ELSE WithoutEntry(q.key)
  <2>1. StateOf(q, "unavailable") \in ExplainStates /\ StateOf(q, "unavailable").st = "unavailable"
    BY <1>2, Labels DEF Terminal
  <2>2. states' \in [ExplanationKey -> ExplainStates] /\ states'[q.key].st = "unavailable"
    BY <1>2, <1>4, <1>9, <2>1
  <2>3. ASSUME NEW k \in ExplanationKey, k # q.key
        PROVE  /\ states'[k] \in {states[k], NoExplanation}
               /\ states'[k].st = "generated" =>
                    (gone => k \notin Evicted(q.key)) /\ states[k].st = "generated"
    BY <1>9, <2>3, WorkFacts
  <2>4. /\ cache' \in Seq(ExplanationKey)
        /\ \A i, j \in DOMAIN cache' : cache'[i] = cache'[j] => i = j
        /\ \A k \in ExplanationKey \ {q.key} :
             (\E i \in DOMAIN cache : cache[i] = k) /\ (gone => k \notin Evicted(q.key)) =>
               \E i \in DOMAIN cache' : cache'[i] = k
    <3>1. CASE gone
      <4>1. cache' = Younger(q.key)
        BY <1>9, <3>1
      <4> QED BY <1>2, <3>1, <4>1, CacheYounger
    <3>2. CASE ~gone
      <4>1. cache' = WithoutEntry(q.key)
        BY <1>9, <3>2
      <4> QED BY <1>2, <3>2, <4>1, CacheWithout
    <3> QED BY <3>1, <3>2
  <2>5. ASSUME NEW k \in ExplanationKey, states'[k].st = "generated"
        PROVE  \E i \in DOMAIN cache' : cache'[i] = k
    <3>1. k # q.key
      BY <2>2, <2>5
    <3>2. states[k].st = "generated" /\ (gone => k \notin Evicted(q.key))
      BY <2>3, <2>5, <3>1
    <3> QED BY <2>4, <3>1, <3>2, WorkFacts DEF Backed
  <2>6. CachedOnce'
    BY <2>4 DEF CachedOnce
  <2> QED BY <1>5, <2>2, <2>3, <2>4, <2>5, <2>6
<1> QED BY <1>3, <1>6, <1>7, <1>8, <1>9

\* Every step keeps the invariant of the explanations.
LEMMA ExplainKept ==
  ASSUME ExplainInv, [ExplainNext]_explainVars
  PROVE  ExplainInv'
<1>0. WorkInv /\ AdmissionTypeOK
  BY DEF ExplainInv
<1>1. ASSUME NEW q \in Inputs, Request(q) PROVE ExplainInv'
  <2>1. q \in ExplainRequests /\ asked' \in Nat /\ UNCHANGED explainEnd
    BY <1>0, <1>1 DEF Request, Inputs, ExplainRequests, AdmissionTypeOK
  <2>2. CASE Blocked(q) /\ UNCHANGED admission
    BY <1>0, <2>1, <2>2, BlockedKeeps DEF ExplainInv, AdmissionTypeOK
  <2>3. CASE Proceed(q) /\ UNCHANGED admission
    BY <1>0, <2>1, <2>3, ProceedKeeps DEF ExplainInv, AdmissionTypeOK
  <2>4. CASE admission' = [at |-> "scope", q |-> q] /\ UNCHANGED <<states, explainWork>>
    BY <1>0, <2>1, <2>4
       DEF ExplainInv, WorkInv, WorkTypeOK, WorkerIsSound, CachedOnce, ShutdownIsSound, Backed,
           explainWork, explainEnd, AdmissionTypeOK
  <2> QED BY <1>1, <2>2, <2>3, <2>4 DEF Request
<1>2. CASE RequestRest
  <2>1. admission.q \in ExplainRequests /\ admission' = NoRequestInside /\ UNCHANGED <<asked, explainEnd>>
    BY <1>0, <1>2 DEF RequestRest, AdmissionTypeOK, NoRequestInside
  <2> QED BY <1>0, <1>2, <2>1, ProceedKeeps DEF RequestRest, ExplainInv, AdmissionTypeOK
<1>3. CASE RequestScope \/ \E s \in ExplainScope : SetExplainScope(s)
  <2>1. UNCHANGED <<states, explainWork, asked, explainEnd>>
    BY <1>3 DEF RequestScope, SetExplainScope
  <2>2. AdmissionTypeOK'
    BY <1>0, <1>3 DEF RequestScope, SetExplainScope, AdmissionTypeOK, NoRequestInside
  <2> QED BY <1>0, <2>1, <2>2
          DEF ExplainInv, WorkInv, WorkTypeOK, WorkerIsSound, CachedOnce, ShutdownIsSound, Backed,
              explainWork, explainEnd
<1>4. ASSUME UNCHANGED <<admission, asked>>, WorkInv' PROVE ExplainInv'
  BY <1>0, <1>4 DEF ExplainInv, AdmissionTypeOK
<1>5. ASSUME NEW id \in 1..MaxAsked, CancelTask(id) PROVE ExplainInv'
  <2>1. id \in Nat
    BY ExplanationAssumption
  <2> QED BY <1>0, <1>4, <1>5, <2>1, CancelKeeps DEF CancelTask
<1>6. CASE BeginShutdown \/ ReportShutdown
  BY <1>0, <1>4, <1>6, ShutdownKeeps DEF BeginShutdown, ReportShutdown
<1>7. CASE ExplainWorker
  BY <1>0, <1>4, <1>7, PickKeeps, FinishKeeps DEF ExplainWorker, PickTask, WorkerEnds, FinishTask
<1>8. CASE UNCHANGED explainVars
  BY <1>0, <1>8
     DEF ExplainInv, WorkInv, WorkTypeOK, WorkerIsSound, CachedOnce, ShutdownIsSound, Backed,
         AdmissionTypeOK, explainVars, explainScope, explainWork, explainEnd
<1> QED BY <1>1, <1>2, <1>3, <1>5, <1>6, <1>7, <1>8 DEF ExplainNext

\* The state of every commit has behind it what it speaks of, and after a shutdown that has
\* reported success no task waits, runs or starts.
THEOREM ExplanationsAreSoundHolds == ExplainSpec => []ExplanationsAreSound
<1>1. ASSUME ExplainInv PROVE ExplanationsAreSound
  <2>1. WorkInv /\ WorkerIsSound /\ ShutdownIsSound /\ tasks \in Seq(ExplainRequests)
    BY <1>1, WorkFacts DEF ExplainInv
  <2>2. StatesAreBacked
    BY <2>1, WorkFacts DEF StatesAreBacked, Backed, TasksOn, ActiveOn, Cached
  <2>3. QuietAfterShutdown
    BY <2>1 DEF QuietAfterShutdown, WorkerIsSound, ShutdownIsSound
  <2> QED BY <2>2, <2>3 DEF ExplanationsAreSound
<1> QED BY <1>1, ExplainBegins, ExplainKept, PTL DEF ExplainSpec

-----------------------------------------------------------------------------
(* Narration.                                                              *)

SpokenPieces == [request : Requests, piece : Nat, epoch : Nat, in : Nat]
AtJob == {"popped", "claim", "eligible", "settings", "fetch", "fetching", "play", "playing", "finish"}
BeforePlay == {"popped", "claim", "eligible", "settings", "fetch", "fetching", "play"}
MaySpawn == {"settings", "fetch", "fetching", "play"}

NarrationTypeOK ==
  /\ sequences \in [Requests -> Nat] /\ voiceScope \in Nat /\ epoch \in Nat /\ quiet \in Nat
  /\ speakQueue \in Seq(SpokenPieces) /\ voiceHeard \in Seq(SpokenPieces)
  /\ voiceWorker \in AtJob \union {"none", "top", "pop", "parking", "park", "stopped"}
  /\ voiceWorker \in AtJob => job \in SpokenPieces
  /\ speech \in {NoSpeech} \union
       [stage : {"fetch", "play"}, job : SpokenPieces, hit : BOOLEAN]
  /\ holder \in {NobodyInside, [at |-> "interrupt"], [at |-> "interrupted"]} \union
       [at : {"drain", "bump", "kill", "wait"}, op : {"cancel", "settings", "scope", "close"}]
  /\ forcing \in {"no", "bump", "kill", "wait", "done"}
  /\ voiceClosed \in BOOLEAN /\ silent \in BOOLEAN

\* Pieces are numbered by request and scope, in the order in which they are queued.
SameText(j, k) == j.request = k.request /\ j.in = k.in
PieceNumbered(j) ==
  /\ j.epoch <= epoch /\ j.in <= voiceScope
  /\ j.in = voiceScope => j.piece < sequences[j.request]
PiecesAreNumbered ==
  /\ \A i \in DOMAIN speakQueue : PieceNumbered(speakQueue[i])
  /\ \A i \in DOMAIN voiceHeard : PieceNumbered(voiceHeard[i])
  /\ voiceWorker \in AtJob => PieceNumbered(job)

QueueInOrder ==
  \A i, k \in DOMAIN speakQueue : i < k =>
    /\ Priority(speakQueue[i].request) >= Priority(speakQueue[k].request)
    /\ SameText(speakQueue[i], speakQueue[k]) => speakQueue[i].piece < speakQueue[k].piece

\* What was heard comes before the worker's piece, and both before what is queued.
HeardIsBefore ==
  /\ \A i \in DOMAIN voiceHeard, k \in DOMAIN speakQueue :
       SameText(voiceHeard[i], speakQueue[k]) => voiceHeard[i].piece < speakQueue[k].piece
  /\ voiceWorker \in AtJob => \A k \in DOMAIN speakQueue :
       SameText(job, speakQueue[k]) => job.piece < speakQueue[k].piece
  /\ voiceWorker \in BeforePlay => \A i \in DOMAIN voiceHeard :
       SameText(voiceHeard[i], job) => voiceHeard[i].piece < job.piece
  /\ PiecesInOrder

\* From the moment a command has raised the epoch until it answers, nothing can start; what
\* was running is hit before it waits.
SilenceIsKept ==
  /\ holder.at \in {"bump", "kill", "wait"} => speakQueue = <<>>
  /\ holder.at \in {"kill", "wait"} /\ voiceWorker \in AtJob => job.epoch < epoch
  /\ holder.at = "wait" \/ forcing = "wait" => speech = NoSpeech \/ speech.hit
  /\ quiet <= epoch
  /\ speech # NoSpeech => speech.job.epoch >= quiet

\* After a shutdown has raised the epoch no piece that may still be spoken is a current one:
\* a later one is given up before that, as the service is closed.
Sealed ==
  \/ forcing \in {"kill", "wait", "done"} \/ silent
  \/ holder.at \in {"kill", "wait"} /\ holder.op = "close"
EndIsKept ==
  /\ forcing # "no" \/ silent => voiceClosed
  /\ holder.at \in {"drain", "bump", "kill", "wait"} /\ holder.op = "close" => voiceClosed
  /\ Sealed /\ voiceWorker \in MaySpawn => job.epoch < epoch
  /\ silent => speech = NoSpeech

NarrationInv ==
  /\ NarrationTypeOK /\ PiecesAreNumbered /\ QueueInOrder /\ HeardIsBefore
  /\ SilenceIsKept /\ EndIsKept

\* The actions, by what they touch.
LEMMA HitsOne ==
  ASSUME NarrationTypeOK, Hits
  PROVE  /\ speech = NoSpeech => speech' = NoSpeech
         /\ speech # NoSpeech => speech' # NoSpeech /\ speech'.hit /\ speech'.job = speech.job
         /\ speech' \in {NoSpeech} \union
              [stage : {"fetch", "play"}, job : SpokenPieces, hit : BOOLEAN]
<1>1. CASE speech = NoSpeech
  BY <1>1 DEF Hits, NoSpeech
<1>2. CASE speech # NoSpeech
  <2> DEFINE d == [speech EXCEPT !.hit = TRUE]
  <2>1. speech \in [stage : {"fetch", "play"}, job : SpokenPieces, hit : BOOLEAN]
    BY <1>2 DEF NarrationTypeOK
  <2>2. speech' = d
    BY <1>2 DEF Hits
  <2>3. d \in [stage : {"fetch", "play"}, job : SpokenPieces, hit : BOOLEAN]
    BY <2>1
  <2>4. d.hit = TRUE /\ d.job = speech.job /\ d.stage = speech.stage
    BY <2>1
  <2> HIDE DEF d
  <2>5. d # NoSpeech
    BY <2>1, <2>4 DEF NoSpeech
  <2> QED BY <1>2, <2>2, <2>3, <2>4, <2>5
<1> QED BY <1>1, <1>2

\* What changes no text keeps the order of it, also when the queue is emptied, the worker is
\* done with its piece, or the scope changes.
LEMMA TextKeeps ==
  ASSUME NarrationInv, voiceHeard' = voiceHeard, speakQueue' = speakQueue \/ speakQueue' = <<>>,
         \/ sequences' = sequences /\ voiceScope' = voiceScope
         \/ voiceScope' = voiceScope + 1,
         epoch' \in Nat, epoch <= epoch',
         voiceWorker' \in AtJob => voiceWorker \in AtJob /\ job' = job,
         voiceWorker' \in BeforePlay => voiceWorker \in BeforePlay
  PROVE  PiecesAreNumbered' /\ QueueInOrder' /\ HeardIsBefore'
<1>1. NarrationTypeOK /\ PiecesAreNumbered /\ QueueInOrder /\ HeardIsBefore
  BY DEF NarrationInv
<1>2. ASSUME NEW j \in SpokenPieces, PieceNumbered(j) PROVE PieceNumbered(j)'
  <2>1. /\ j.in \in Nat /\ j.epoch \in Nat /\ epoch \in Nat /\ voiceScope \in Nat
        /\ j.in <= voiceScope /\ j.epoch <= epoch
        /\ j.in = voiceScope => j.piece < sequences[j.request]
    BY <1>1, <1>2 DEF PieceNumbered, NarrationTypeOK, SpokenPieces
  <2>2. j.epoch <= epoch'
    BY <2>1
  <2>3. CASE sequences' = sequences /\ voiceScope' = voiceScope
    BY <2>1, <2>2, <2>3 DEF PieceNumbered
  <2>4. CASE voiceScope' = voiceScope + 1
    BY <2>1, <2>2, <2>4 DEF PieceNumbered
  <2> QED BY <2>3, <2>4
<1>3. /\ \A i \in DOMAIN speakQueue : speakQueue[i] \in SpokenPieces
      /\ \A i \in DOMAIN voiceHeard : voiceHeard[i] \in SpokenPieces
      /\ voiceWorker \in AtJob => job \in SpokenPieces
  <2>1. speakQueue \in Seq(SpokenPieces) /\ voiceHeard \in Seq(SpokenPieces)
    BY <1>1 DEF NarrationTypeOK
  <2> QED BY <1>1, <2>1, ElementOfSeq, LenProperties DEF NarrationTypeOK
<1>4. DOMAIN <<>> = {}
  OBVIOUS
<1>5. (DOMAIN speakQueue' = DOMAIN speakQueue /\ speakQueue' = speakQueue) \/ DOMAIN speakQueue' = {}
  BY <1>4
<1>6. PiecesAreNumbered'
  <2>1. \A i \in DOMAIN speakQueue' : PieceNumbered(speakQueue[i])' /\ speakQueue' = speakQueue
    BY <1>1, <1>2, <1>3, <1>5 DEF PiecesAreNumbered
  <2>2. \A i \in DOMAIN voiceHeard : PieceNumbered(voiceHeard[i])'
    BY <1>1, <1>2, <1>3 DEF PiecesAreNumbered
  <2>3. voiceWorker' \in AtJob => PieceNumbered(job)'
    BY <1>1, <1>2, <1>3 DEF PiecesAreNumbered
  <2> QED BY <2>1, <2>2, <2>3 DEF PiecesAreNumbered
<1>7. QueueInOrder'
  BY <1>1, <1>5 DEF QueueInOrder
<1>8. HeardIsBefore'
  <2>1. BeforePlay \subseteq AtJob
    BY DEF BeforePlay, AtJob
  <2>2. \A i \in DOMAIN voiceHeard, k \in DOMAIN speakQueue' :
          SameText(voiceHeard[i], speakQueue[k])' => voiceHeard[i].piece < (speakQueue[k].piece)'
    BY <1>1, <1>5 DEF HeardIsBefore, SameText
  <2>3. voiceWorker' \in AtJob => \A k \in DOMAIN speakQueue' :
          SameText(job, speakQueue[k])' => (job.piece < speakQueue[k].piece)'
    BY <1>1, <1>5 DEF HeardIsBefore, SameText
  <2>4. voiceWorker' \in BeforePlay => \A i \in DOMAIN voiceHeard :
          SameText(voiceHeard[i], job)' => (voiceHeard[i].piece < job.piece)'
    BY <1>1, <2>1 DEF HeardIsBefore, SameText
  <2>5. PiecesInOrder'
    BY <1>1 DEF HeardIsBefore, PiecesInOrder
  <2> QED BY <2>2, <2>3, <2>4, <2>5 DEF HeardIsBefore
<1> QED BY <1>6, <1>7, <1>8

\* Before the first speech nothing is queued, spoken or silenced.
LEMMA NarrationBegins == NarrationInit => NarrationInv
<1> SUFFICES ASSUME NarrationInit PROVE NarrationInv
  OBVIOUS
<1>1. /\ voiceWorker \notin AtJob /\ voiceWorker \notin BeforePlay /\ voiceWorker \notin MaySpawn
      /\ speakQueue = <<>> /\ voiceHeard = <<>> /\ DOMAIN speakQueue = {} /\ DOMAIN voiceHeard = {}
  BY DEF NarrationInit, AtJob, BeforePlay, MaySpawn
<1>2. NarrationTypeOK
  <2>1. sequences \in [Requests -> Nat]
    BY DEF NarrationInit
  <2>2. speakQueue \in Seq(SpokenPieces) /\ voiceHeard \in Seq(SpokenPieces)
    BY <1>1
  <2> QED BY <1>1, <2>1, <2>2 DEF NarrationInit, NarrationTypeOK
<1>3. PiecesAreNumbered /\ QueueInOrder /\ HeardIsBefore
  BY <1>1 DEF PiecesAreNumbered, QueueInOrder, HeardIsBefore, PiecesInOrder
<1>4. holder.at = "free"
  BY DEF NarrationInit, NobodyInside
<1>5. SilenceIsKept /\ EndIsKept
  BY <1>1, <1>4 DEF NarrationInit, SilenceIsKept, EndIsKept, Sealed
<1> QED BY <1>2, <1>3, <1>5 DEF NarrationInv

\* A shutdown says that it is closed before anything else.
LEMMA SealedIsClosed ==
  ASSUME NarrationInv, Sealed
  PROVE  voiceClosed
BY DEF NarrationInv, EndIsKept, Sealed

\* The worker goes on, without a new piece and without a new process.
LEMMA WorkerMoves ==
  ASSUME NarrationInv,
         UNCHANGED <<sequences, voiceScope, epoch, quiet, speakQueue, voiceHeard, holder, forcing,
                     voiceClosed, silent>>,
         speech' = speech \/ speech' = NoSpeech,
         voiceWorker' \in AtJob \union {"none", "top", "pop", "parking", "park", "stopped"},
         voiceWorker' \in AtJob => voiceWorker \in AtJob /\ job' = job,
         voiceWorker' \in BeforePlay => voiceWorker \in BeforePlay,
         voiceWorker' \in MaySpawn => voiceWorker \in MaySpawn \/ ~voiceClosed
  PROVE  NarrationInv'
<1>1. NarrationTypeOK /\ SilenceIsKept /\ EndIsKept
  BY DEF NarrationInv
<1>2. NarrationTypeOK'
  BY <1>1 DEF NarrationTypeOK
<1>3. PiecesAreNumbered' /\ QueueInOrder' /\ HeardIsBefore'
  <2>1. epoch' = epoch /\ epoch \in Nat
    BY <1>1 DEF NarrationTypeOK
  <2> QED BY <2>1, TextKeeps
<1>4. SilenceIsKept'
  BY <1>1 DEF SilenceIsKept
<1>5. EndIsKept'
  <2>1. MaySpawn \subseteq AtJob
    BY DEF MaySpawn, AtJob
  <2>2. Sealed' = Sealed
    BY DEF Sealed
  <2>3. Sealed' /\ voiceWorker' \in MaySpawn => (job.epoch < epoch)'
    BY <1>1, <2>1, <2>2, SealedIsClosed DEF EndIsKept
  <2> QED BY <1>1, <2>3 DEF EndIsKept
<1> QED BY <1>2, <1>3, <1>4, <1>5 DEF NarrationInv

\* The steps of the worker between the queue and the processes keep the invariant.
LEMMA VoiceWorkerKeeps ==
  ASSUME NarrationInv,
         WorkerTop \/ Park \/ Wake \/ CheckJob \/ SetActive \/ ReadSettings \/ SpeechEnds
           \/ FinishJob \/ Eligible
  PROVE  NarrationInv'
<1> USE DEF AtJob, BeforePlay, MaySpawn, WorkerAt, voicePolicy, voiceProcess, voicePast, voiceWork
<1>1. CASE WorkerTop
  <2>1. voiceWorker' \in {"stopped", "pop"}
    BY <1>1 DEF WorkerTop
  <2> QED BY <1>1, <2>1, WorkerMoves DEF WorkerTop
<1>2. CASE Park
  BY <1>2, WorkerMoves DEF Park
<1>3. CASE Wake
  BY <1>3, WorkerMoves DEF Wake
<1>4. CASE CheckJob
  <2>1. voiceWorker = "popped" /\ voiceWorker' \in {"claim", "top"}
    BY <1>4 DEF CheckJob
  <2> QED BY <1>4, <2>1, WorkerMoves DEF CheckJob
<1>5. CASE SetActive
  BY <1>5, WorkerMoves DEF SetActive
<1>6. CASE ReadSettings
  BY <1>6, WorkerMoves DEF ReadSettings
<1>7. CASE SpeechEnds
  BY <1>7, WorkerMoves DEF SpeechEnds
<1>8. CASE FinishJob
  BY <1>8, WorkerMoves DEF FinishJob
<1>9. CASE Eligible
  <2>1. \/ voiceWorker = "eligible" /\ voiceWorker' = "finish"
        \/ voiceWorker = "eligible" /\ voiceWorker' = "settings" /\ ~voiceClosed
        \/ voiceWorker = "eligible" /\ voiceWorker' = "eligible"
    BY <1>9 DEF Eligible, GivesUp
  <2> QED BY <1>9, <2>1, WorkerMoves DEF Eligible
<1> QED BY <1>1, <1>2, <1>3, <1>4, <1>5, <1>6, <1>7, <1>8, <1>9

\* What leaves the worker and what it plays alone: enough is the rest of the invariant.
LEMMA CommandKeeps ==
  ASSUME NarrationInv, voiceHeard' = voiceHeard, voiceWork' = voiceWork,
         speakQueue' = speakQueue \/ speakQueue' = <<>>,
         \/ sequences' = sequences /\ voiceScope' = voiceScope
         \/ /\ voiceScope' = voiceScope + 1
            /\ sequences' = [r \in Requests |-> 0],
         epoch' = epoch \/ epoch' = epoch + 1,
         quiet' \in {quiet, epoch},
         speech' \in {NoSpeech} \union
           [stage : {"fetch", "play"}, job : SpokenPieces, hit : BOOLEAN],
         \/ holder' \in {NobodyInside, [at |-> "interrupt"], [at |-> "interrupted"]}
         \/ holder' \in
              [at : {"drain", "bump", "kill", "wait"}, op : {"cancel", "settings", "scope", "close"}],
         forcing' \in {"no", "bump", "kill", "wait", "done"},
         voiceClosed' \in BOOLEAN, silent' \in BOOLEAN,
         SilenceIsKept', EndIsKept'
  PROVE  NarrationInv'
<1>1. NarrationTypeOK
  BY DEF NarrationInv
<1>2. /\ epoch' \in Nat /\ epoch <= epoch' /\ quiet' \in Nat /\ voiceScope' \in Nat
      /\ sequences' \in [Requests -> Nat]
  BY <1>1 DEF NarrationTypeOK
<1>3. voiceWorker' = voiceWorker /\ job' = job
  BY DEF voiceWork
<1>4. PiecesAreNumbered' /\ QueueInOrder' /\ HeardIsBefore'
  BY <1>2, <1>3, TextKeeps
<1>5. speakQueue' \in Seq(SpokenPieces)
  <2>1. speakQueue \in Seq(SpokenPieces) /\ <<>> \in Seq(SpokenPieces)
    BY <1>1 DEF NarrationTypeOK
  <2> QED BY <2>1
<1>6. NarrationTypeOK'
  BY <1>1, <1>2, <1>3, <1>5 DEF NarrationTypeOK
<1> QED BY <1>4, <1>6 DEF NarrationInv

\* The places of a command.
LEMMA HolderFacts ==
  ASSUME NarrationInv
  PROVE  /\ NobodyInside.at = "free"
         /\ holder.at \in {"drain", "bump", "kill", "wait"} =>
              /\ holder \in [at : {"drain", "bump", "kill", "wait"},
                             op : {"cancel", "settings", "scope", "close"}]
              /\ \A to \in {"drain", "bump", "kill", "wait"} :
                   /\ [holder EXCEPT !.at = to] \in
                        [at : {"drain", "bump", "kill", "wait"},
                         op : {"cancel", "settings", "scope", "close"}]
                   /\ [holder EXCEPT !.at = to].at = to
                   /\ [holder EXCEPT !.at = to].op = holder.op
<1>1. NobodyInside.at = "free"
  BY DEF NobodyInside
<1>2. ASSUME holder.at \in {"drain", "bump", "kill", "wait"}
      PROVE  holder \in [at : {"drain", "bump", "kill", "wait"},
                         op : {"cancel", "settings", "scope", "close"}]
  BY <1>1, <1>2 DEF NarrationInv, NarrationTypeOK
<1>3. ASSUME holder.at \in {"drain", "bump", "kill", "wait"},
             NEW to \in {"drain", "bump", "kill", "wait"}
      PROVE  /\ [holder EXCEPT !.at = to] \in
                  [at : {"drain", "bump", "kill", "wait"},
                   op : {"cancel", "settings", "scope", "close"}]
             /\ [holder EXCEPT !.at = to].at = to
             /\ [holder EXCEPT !.at = to].op = holder.op
  BY <1>2, <1>3
<1> QED BY <1>1, <1>2, <1>3

\* A command enters, or the settings are put on.
LEMMA EntersKeeps ==
  ASSUME NarrationInv,
         Cancel \/ CloseEnters \/ SetVoiceScope \/ (\E on \in BOOLEAN : SetVoice(on))
  PROVE  NarrationInv'
<1> USE DEF voicePolicy, voiceProcess, voicePast
<1>1. NarrationTypeOK /\ SilenceIsKept /\ EndIsKept
  BY DEF NarrationInv
<1>2. ASSUME NEW op \in {"cancel", "settings", "scope", "close"},
             holder = NobodyInside, holder' = [at |-> "drain", op |-> op],
             op = "close" => voiceClosed,
             \/ sequences' = sequences /\ voiceScope' = voiceScope
             \/ /\ voiceScope' = voiceScope + 1
                /\ sequences' = [r \in Requests |-> 0],
             UNCHANGED <<speakQueue, voiceProcess, voiceWork, forcing, voiceClosed, voicePast>>
      PROVE  NarrationInv'
  <2>1. /\ holder.at = "free" /\ holder'.at = "drain" /\ holder'.op = op
        /\ holder' \in [at : {"drain", "bump", "kill", "wait"},
                        op : {"cancel", "settings", "scope", "close"}]
    BY <1>2, HolderFacts
  <2>2. voiceWorker' = voiceWorker /\ job' = job
    BY <1>2 DEF voiceWork
  <2>3. SilenceIsKept'
    BY <1>1, <1>2, <2>1, <2>2 DEF SilenceIsKept
  <2>4. EndIsKept'
    BY <1>1, <1>2, <2>1, <2>2 DEF EndIsKept, Sealed
  <2>5. speech' \in {NoSpeech} \union [stage : {"fetch", "play"}, job : SpokenPieces, hit : BOOLEAN]
    BY <1>1, <1>2 DEF NarrationTypeOK
  <2>6. forcing' \in {"no", "bump", "kill", "wait", "done"} /\ voiceClosed' \in BOOLEAN
        /\ silent' \in BOOLEAN
    BY <1>1, <1>2 DEF NarrationTypeOK
  <2> QED BY <1>2, <2>1, <2>3, <2>4, <2>5, <2>6, CommandKeeps
<1>3. CASE Cancel
  BY <1>2, <1>3 DEF Cancel, Enters
<1>4. CASE CloseEnters
  BY <1>2, <1>4 DEF CloseEnters, Enters
<1>5. CASE SetVoiceScope
  BY <1>2, <1>5 DEF SetVoiceScope, Enters
<1>6. ASSUME NEW on \in BOOLEAN, SetVoice(on) PROVE NarrationInv'
  <2>1. CASE on
    <3>1. /\ holder' = holder
          /\ UNCHANGED <<sequences, voiceScope, epoch, quiet, speakQueue, voiceHeard, holder,
                         forcing, voiceClosed, silent, speech, voiceWorker, job>>
      BY <1>6, <2>1 DEF SetVoice, voiceWork
    <3>2. voiceWorker \in AtJob \union {"none", "top", "pop", "parking", "park", "stopped"}
      BY <1>1 DEF NarrationTypeOK
    <3> QED BY <3>1, <3>2, WorkerMoves
  <2>2. CASE ~on
    BY <1>2, <1>6, <2>2 DEF SetVoice, Enters
  <2> QED BY <2>1, <2>2
<1> QED BY <1>3, <1>4, <1>5, <1>6

\* The steps of a command that silences keep the invariant.
LEMMA SilencingKeeps ==
  ASSUME NarrationInv, Silencing
  PROVE  NarrationInv'
<1> USE DEF voicePolicy, voiceProcess, voicePast
<1>1. NarrationTypeOK /\ SilenceIsKept /\ EndIsKept /\ PiecesAreNumbered
  BY DEF NarrationInv
<1>2. /\ speech \in {NoSpeech} \union [stage : {"fetch", "play"}, job : SpokenPieces, hit : BOOLEAN]
      /\ forcing \in {"no", "bump", "kill", "wait", "done"}
      /\ voiceClosed \in BOOLEAN /\ silent \in BOOLEAN /\ epoch \in Nat /\ quiet \in Nat
  BY <1>1 DEF NarrationTypeOK
<1>3. voiceWorker \in AtJob => job.epoch \in Nat /\ job.epoch <= epoch
  BY <1>1 DEF NarrationTypeOK, PiecesAreNumbered, PieceNumbered, SpokenPieces
<1>4. voiceWork' = voiceWork => voiceWorker' = voiceWorker /\ job' = job
  BY DEF voiceWork
<1>5. MaySpawn \subseteq AtJob
  BY DEF MaySpawn, AtJob
<1>6. CASE Drain
  <2> DEFINE h == [holder EXCEPT !.at = "bump"]
  <2>1. /\ h.at = "bump" /\ h.op = holder.op
        /\ h \in [at : {"drain", "bump", "kill", "wait"}, op : {"cancel", "settings", "scope", "close"}]
    BY <1>6, HolderFacts DEF Drain
  <2>2. holder' = h /\ holder.at = "drain"
    BY <1>6 DEF Drain
  <2> HIDE DEF h
  <2>3. SilenceIsKept'
    BY <1>1, <1>4, <1>6, <2>1, <2>2 DEF Drain, SilenceIsKept
  <2>4. EndIsKept'
    BY <1>1, <1>4, <1>6, <2>1, <2>2 DEF Drain, EndIsKept, Sealed
  <2> QED BY <1>2, <1>6, <2>1, <2>2, <2>3, <2>4, CommandKeeps DEF Drain
<1>7. CASE Bump
  <2> DEFINE h == [holder EXCEPT !.at = "kill"]
  <2>1. /\ h.at = "kill" /\ h.op = holder.op
        /\ h \in [at : {"drain", "bump", "kill", "wait"}, op : {"cancel", "settings", "scope", "close"}]
    BY <1>7, HolderFacts DEF Bump
  <2>2. holder' = h /\ holder.at = "bump" /\ epoch' = epoch + 1
    BY <1>7 DEF Bump
  <2> HIDE DEF h
  <2>3. SilenceIsKept'
    BY <1>1, <1>2, <1>3, <1>4, <1>7, <2>1, <2>2 DEF Bump, SilenceIsKept
  <2>4. EndIsKept'
    BY <1>1, <1>2, <1>3, <1>4, <1>5, <1>7, <2>1, <2>2 DEF Bump, EndIsKept, Sealed
  <2> QED BY <1>2, <1>7, <2>1, <2>2, <2>3, <2>4, CommandKeeps DEF Bump
<1>8. CASE KillActive
  <2> DEFINE h == [holder EXCEPT !.at = "wait"]
  <2>1. /\ h.at = "wait" /\ h.op = holder.op
        /\ h \in [at : {"drain", "bump", "kill", "wait"}, op : {"cancel", "settings", "scope", "close"}]
    BY <1>8, HolderFacts DEF KillActive
  <2>2. holder' = h /\ holder.at = "kill"
    BY <1>8 DEF KillActive
  <2> HIDE DEF h
  <2>3. /\ speech = NoSpeech => speech' = NoSpeech
        /\ speech # NoSpeech => speech' # NoSpeech /\ speech'.hit /\ speech'.job = speech.job
        /\ speech' \in {NoSpeech} \union
             [stage : {"fetch", "play"}, job : SpokenPieces, hit : BOOLEAN]
    BY <1>1, <1>8, HitsOne DEF KillActive
  <2>4. SilenceIsKept'
    BY <1>1, <1>2, <1>3, <1>4, <1>8, <2>1, <2>2, <2>3 DEF KillActive, SilenceIsKept
  <2>5. EndIsKept'
    BY <1>1, <1>2, <1>3, <1>4, <1>8, <2>1, <2>2, <2>3 DEF KillActive, EndIsKept, Sealed
  <2> QED BY <1>2, <1>8, <2>1, <2>2, <2>3, <2>4, <2>5, CommandKeeps DEF KillActive
<1>9. CASE CancelEnds
  <2>1. holder.at = "wait" /\ holder' = NobodyInside /\ holder'.at = "free"
    BY <1>9, HolderFacts DEF CancelEnds
  <2>2. \/ speech = NoSpeech /\ quiet' = epoch /\ silent' = (silent \/ holder.op = "close")
        \/ quiet' = quiet /\ silent' = silent
    BY <1>1, <1>9, <2>1 DEF CancelEnds, Gone, SilenceIsKept
  <2>3. silent' \in BOOLEAN /\ quiet' \in {quiet, epoch} /\ (silent' => speech = NoSpeech)
    <3>1. silent => speech = NoSpeech
      BY <1>1 DEF EndIsKept
    <3>2. CASE speech = NoSpeech /\ quiet' = epoch /\ silent' = (silent \/ holder.op = "close")
      BY <3>2
    <3>3. CASE quiet' = quiet /\ silent' = silent
      BY <1>2, <3>1, <3>3, Zenon
    <3> QED BY <2>2, <3>2, <3>3
  <2>4. SilenceIsKept'
    BY <1>1, <1>2, <1>3, <1>4, <1>9, <2>1, <2>2 DEF CancelEnds, SilenceIsKept
  <2>5. Sealed' => Sealed
    BY <1>9, <2>1, <2>2 DEF CancelEnds, Sealed
  <2>6. silent' => voiceClosed
    BY <1>1, <2>1, <2>2 DEF EndIsKept
  <2>7. EndIsKept'
    BY <1>1, <1>2, <1>3, <1>4, <1>9, <2>1, <2>3, <2>5, <2>6 DEF CancelEnds, EndIsKept
  <2> QED BY <1>2, <1>9, <2>1, <2>3, <2>4, <2>7, CommandKeeps DEF CancelEnds
<1>10. CASE Interrupt
  <2>1. holder' = [at |-> "interrupted"] /\ holder.at = "interrupt"
    BY <1>10 DEF Interrupt
  <2>2. holder'.at = "interrupted"
    BY <2>1
  <2>3. /\ speech = NoSpeech => speech' = NoSpeech
        /\ speech # NoSpeech => speech' # NoSpeech /\ speech'.hit /\ speech'.job = speech.job
        /\ speech' \in {NoSpeech} \union
             [stage : {"fetch", "play"}, job : SpokenPieces, hit : BOOLEAN]
    BY <1>1, <1>10, HitsOne DEF Interrupt
  <2>4. SilenceIsKept'
    BY <1>1, <1>2, <1>3, <1>4, <1>10, <2>1, <2>2, <2>3 DEF Interrupt, SilenceIsKept
  <2>5. EndIsKept'
    BY <1>1, <1>2, <1>3, <1>4, <1>10, <2>1, <2>2, <2>3 DEF Interrupt, EndIsKept, Sealed
  <2> QED BY <1>2, <1>10, <2>1, <2>3, <2>4, <2>5, CommandKeeps DEF Interrupt
<1>11. CASE Interrupted
  <2>1. holder' = NobodyInside /\ holder.at = "interrupted" /\ holder'.at = "free"
    BY <1>11, HolderFacts DEF Interrupted
  <2>2. SilenceIsKept'
    BY <1>1, <1>2, <1>3, <1>4, <1>11, <2>1 DEF Interrupted, SilenceIsKept
  <2>3. EndIsKept'
    BY <1>1, <1>2, <1>3, <1>4, <1>11, <2>1 DEF Interrupted, EndIsKept, Sealed
  <2> QED BY <1>2, <1>11, <2>1, <2>2, <2>3, CommandKeeps DEF Interrupted
<1> QED BY <1>6, <1>7, <1>8, <1>9, <1>10, <1>11 DEF Silencing

\* The steps of a close, and of the forced one, keep the invariant.
LEMMA ClosingKeeps ==
  ASSUME NarrationInv, CloseVoice \/ ForceCloses \/ ForceBumps \/ ForceKills \/ ForceEnds
  PROVE  NarrationInv'
<1> USE DEF voicePolicy, voiceProcess, voicePast
<1>1. NarrationTypeOK /\ SilenceIsKept /\ EndIsKept /\ PiecesAreNumbered
  BY DEF NarrationInv
<1>2. /\ speech \in {NoSpeech} \union [stage : {"fetch", "play"}, job : SpokenPieces, hit : BOOLEAN]
      /\ forcing \in {"no", "bump", "kill", "wait", "done"}
      /\ voiceClosed \in BOOLEAN /\ silent \in BOOLEAN /\ epoch \in Nat /\ quiet \in Nat
      /\ voiceWorker \in AtJob \union {"none", "top", "pop", "parking", "park", "stopped"}
      /\ \/ holder \in {NobodyInside, [at |-> "interrupt"], [at |-> "interrupted"]}
         \/ holder \in
              [at : {"drain", "bump", "kill", "wait"}, op : {"cancel", "settings", "scope", "close"}]
  BY <1>1 DEF NarrationTypeOK
<1>3. voiceWorker \in AtJob => job.epoch \in Nat /\ job.epoch <= epoch
  BY <1>1 DEF NarrationTypeOK, PiecesAreNumbered, PieceNumbered, SpokenPieces
<1>4. voiceWork' = voiceWork => voiceWorker' = voiceWorker /\ job' = job
  BY DEF voiceWork
<1>5. MaySpawn \subseteq AtJob
  BY DEF MaySpawn, AtJob
<1>6. CASE CloseVoice
  <2>1. SilenceIsKept'
    BY <1>1, <1>4, <1>6 DEF CloseVoice, SilenceIsKept
  <2>2. EndIsKept'
    BY <1>1, <1>4, <1>6 DEF CloseVoice, EndIsKept, Sealed
  <2>3. voiceClosed' \in BOOLEAN
    BY <1>6 DEF CloseVoice
  <2> QED BY <1>2, <1>6, <2>1, <2>2, <2>3, CommandKeeps DEF CloseVoice
<1>7. CASE ForceCloses
  <2>1. /\ forcing' = "bump" /\ forcing = "no" /\ voiceClosed' = TRUE /\ speakQueue' = <<>>
        /\ UNCHANGED <<sequences, voiceScope, epoch, quiet, voiceHeard, holder, silent, speech, job>>
    BY <1>7 DEF ForceCloses
  <2>0. voiceWorker' = voiceWorker \/ (voiceWorker = "park" /\ voiceWorker' = "top")
    BY <1>7 DEF ForceCloses
  <2>2. "top" \notin AtJob /\ "top" \notin BeforePlay /\ "top" \notin MaySpawn
    BY DEF AtJob, BeforePlay, MaySpawn
  <2>3. PiecesAreNumbered' /\ QueueInOrder' /\ HeardIsBefore'
    BY <1>2, <2>0, <2>1, <2>2, TextKeeps
  <2>4. NarrationTypeOK'
    <3>1. <<>> \in Seq(SpokenPieces)
      OBVIOUS
    <3> QED BY <1>1, <2>0, <2>1, <2>2, <3>1 DEF NarrationTypeOK
  <2>5. SilenceIsKept'
    BY <1>1, <2>0, <2>1, <2>2 DEF SilenceIsKept
  <2>6. EndIsKept'
    BY <1>1, <2>0, <2>1, <2>2 DEF EndIsKept, Sealed
  <2> QED BY <2>3, <2>4, <2>5, <2>6 DEF NarrationInv
<1>8. CASE ForceBumps
  <2>1. SilenceIsKept'
    BY <1>1, <1>2, <1>3, <1>4, <1>8 DEF ForceBumps, SilenceIsKept
  <2>2. EndIsKept'
    BY <1>1, <1>2, <1>3, <1>4, <1>5, <1>8 DEF ForceBumps, EndIsKept, Sealed
  <2> QED BY <1>2, <1>8, <2>1, <2>2, CommandKeeps DEF ForceBumps
<1>9. CASE ForceKills
  <2>1. /\ speech = NoSpeech => speech' = NoSpeech
        /\ speech # NoSpeech => speech' # NoSpeech /\ speech'.hit /\ speech'.job = speech.job
        /\ speech' \in {NoSpeech} \union
             [stage : {"fetch", "play"}, job : SpokenPieces, hit : BOOLEAN]
    BY <1>1, <1>9, HitsOne DEF ForceKills
  <2>2. SilenceIsKept'
    BY <1>1, <1>2, <1>3, <1>4, <1>9, <2>1 DEF ForceKills, SilenceIsKept
  <2>3. EndIsKept'
    BY <1>1, <1>2, <1>3, <1>4, <1>9, <2>1 DEF ForceKills, EndIsKept, Sealed
  <2> QED BY <1>2, <1>9, <2>1, <2>2, <2>3, CommandKeeps DEF ForceKills
<1>10. CASE ForceEnds
  <2>1. silent' \in BOOLEAN /\ (silent' => silent \/ speech = NoSpeech)
    <3>1. forcing = "wait" /\ silent' \in {silent, silent \/ Gone}
      BY <1>10 DEF ForceEnds
    <3>2. speech = NoSpeech \/ speech.hit
      BY <1>1, <3>1 DEF SilenceIsKept
    <3>3. CASE silent' = silent
      BY <1>2, <3>3, Zenon
    <3>4. CASE silent' = (silent \/ Gone)
      BY <3>2, <3>4 DEF Gone
    <3> QED BY <3>1, <3>3, <3>4
  <2>2. silent' => speech = NoSpeech
    BY <1>1, <2>1 DEF EndIsKept
  <2>3. SilenceIsKept'
    BY <1>1, <1>2, <1>3, <1>4, <1>10 DEF ForceEnds, SilenceIsKept
  <2>4. EndIsKept'
    <3>1. forcing = "wait" /\ forcing' = "done" /\ Sealed
      BY <1>10 DEF ForceEnds, Sealed
    <3> QED BY <1>1, <1>2, <1>3, <1>4, <1>10, <2>2, <3>1 DEF ForceEnds, EndIsKept
  <2> QED BY <1>2, <1>10, <2>1, <2>3, <2>4, CommandKeeps DEF ForceEnds
<1> QED BY <1>6, <1>7, <1>8, <1>9, <1>10

\* The job that is taken follows what was heard and precedes what is queued.
LEMMA PopKeeps ==
  ASSUME NarrationInv, PopJob
  PROVE  NarrationInv'
<1> USE DEF voicePolicy, voiceProcess, voicePast
<1>1. /\ NarrationTypeOK /\ PiecesAreNumbered /\ QueueInOrder /\ HeardIsBefore /\ SilenceIsKept
      /\ EndIsKept
  BY DEF NarrationInv
<1>2. CASE speakQueue = <<>>
  <2>1. voiceWorker = "pop" /\ voiceWorker' = "parking" /\ UNCHANGED <<job, speakQueue>>
    BY <1>2 DEF PopJob, WorkerAt
  <2>2. "parking" \notin AtJob /\ "parking" \notin BeforePlay /\ "parking" \notin MaySpawn
    BY DEF AtJob, BeforePlay, MaySpawn
  <2> QED BY <2>1, <2>2, WorkerMoves DEF PopJob
<1>3. CASE speakQueue # <<>>
  <2>1. /\ voiceWorker = "pop" /\ voiceWorker' = "popped"
        /\ job' = Head(speakQueue) /\ speakQueue' = Tail(speakQueue)
        /\ UNCHANGED <<sequences, voiceScope, epoch, quiet, voiceHeard, holder, forcing,
                       voiceClosed, silent, speech>>
    BY <1>3 DEF PopJob, WorkerAt
  <2>2. /\ voiceWorker \notin AtJob /\ voiceWorker' \in AtJob /\ voiceWorker' \in BeforePlay
        /\ voiceWorker' \notin MaySpawn
    BY <2>1 DEF AtJob, BeforePlay, MaySpawn
  <2>3. speakQueue \in Seq(SpokenPieces)
    BY <1>1 DEF NarrationTypeOK
  <2>4. /\ Len(speakQueue) \in Nat /\ Len(speakQueue) >= 1 /\ DOMAIN speakQueue = 1..Len(speakQueue)
        /\ \A i \in DOMAIN speakQueue : speakQueue[i] \in SpokenPieces
    BY <1>3, <2>3, LenProperties, ElementOfSeq, EmptySeq
  <2>5. /\ job' = speakQueue[1] /\ speakQueue' \in Seq(SpokenPieces)
        /\ Len(speakQueue') = Len(speakQueue) - 1
        /\ \A k \in 1..Len(speakQueue') : speakQueue'[k] = speakQueue[k + 1]
    BY <1>3, <2>1, <2>3, HeadTailProperties
  <2>6. DOMAIN speakQueue' = 1..Len(speakQueue')
    BY <2>5, LenProperties
  <2>7. /\ 1 \in DOMAIN speakQueue /\ job' \in SpokenPieces
        /\ \A k \in DOMAIN speakQueue' : /\ k + 1 \in DOMAIN speakQueue /\ 1 < k + 1
                                         /\ speakQueue'[k] = speakQueue[k + 1]
    BY <2>4, <2>5, <2>6
  <2>8. NarrationTypeOK'
    BY <1>1, <2>1, <2>2, <2>5, <2>7 DEF NarrationTypeOK
  <2>9. \A j : PieceNumbered(j)' <=> PieceNumbered(j)
    BY <2>1 DEF PieceNumbered
  <2>10. PiecesAreNumbered'
    BY <1>1, <2>1, <2>5, <2>7, <2>9 DEF PiecesAreNumbered
  <2>11. QueueInOrder'
    <3> SUFFICES ASSUME NEW i \in DOMAIN speakQueue', NEW k \in DOMAIN speakQueue', i < k
                 PROVE  /\ Priority(speakQueue'[i].request) >= Priority(speakQueue'[k].request)
                        /\ SameText(speakQueue'[i], speakQueue'[k]) =>
                             speakQueue'[i].piece < speakQueue'[k].piece
      BY DEF QueueInOrder, SameText, Priority
    <3>1. i + 1 < k + 1
      BY <2>5, <2>6
    <3> QED BY <1>1, <2>7, <3>1 DEF QueueInOrder
  <2>12. HeardIsBefore'
    <3>1. \A k \in DOMAIN speakQueue' : SameText(speakQueue[1], speakQueue'[k]) =>
            speakQueue[1].piece < speakQueue'[k].piece
      BY <1>1, <2>7 DEF QueueInOrder
    <3>2. \A i \in DOMAIN voiceHeard, k \in DOMAIN speakQueue' :
            SameText(voiceHeard[i], speakQueue'[k]) => voiceHeard[i].piece < speakQueue'[k].piece
      BY <1>1, <2>7 DEF HeardIsBefore
    <3>3. \A i \in DOMAIN voiceHeard : SameText(voiceHeard[i], speakQueue[1]) =>
            voiceHeard[i].piece < speakQueue[1].piece
      BY <1>1, <2>7 DEF HeardIsBefore
    <3>4. PiecesInOrder'
      BY <1>1, <2>1 DEF HeardIsBefore, PiecesInOrder
    <3> QED BY <2>1, <2>5, <3>1, <3>2, <3>3, <3>4 DEF HeardIsBefore, SameText
  <2>13. SilenceIsKept'
    BY <1>1, <1>3, <2>1 DEF SilenceIsKept
  <2>14. EndIsKept'
    BY <1>1, <2>1, <2>2 DEF EndIsKept, Sealed
  <2> QED BY <2>8, <2>10, <2>11, <2>12, <2>13, <2>14 DEF NarrationInv
<1> QED BY <1>2, <1>3

\* A voice is fetched only in the epoch of its job.
LEMMA SpawnFetchKeeps ==
  ASSUME NarrationInv, SpawnFetch
  PROVE  NarrationInv'
<1> USE DEF voicePolicy, voiceProcess, voicePast
<1>1. NarrationTypeOK /\ PiecesAreNumbered /\ SilenceIsKept /\ EndIsKept
  BY DEF NarrationInv
<1>2. CASE WorkerAt("fetch", "finish") /\ UNCHANGED speech
  BY <1>2, WorkerMoves DEF SpawnFetch, WorkerAt, AtJob, BeforePlay, MaySpawn
<1>3. CASE WorkerAt("fetch", "fetching") /\ Spawns("fetch")
  <2> DEFINE p == [stage |-> "fetch", job |-> job, hit |-> FALSE]
  <2>1. /\ voiceWorker = "fetch" /\ voiceWorker' = "fetching" /\ job.epoch = epoch /\ speech' = p
        /\ UNCHANGED <<sequences, voiceScope, epoch, quiet, speakQueue, voiceHeard, holder, forcing,
                       voiceClosed, silent, job>>
    BY <1>3 DEF SpawnFetch, WorkerAt, Spawns, Current
  <2>2. voiceWorker \in AtJob /\ voiceWorker' \in AtJob /\ voiceWorker \in BeforePlay
        /\ voiceWorker \in MaySpawn
    BY <2>1 DEF AtJob, BeforePlay, MaySpawn
  <2>3. job \in SpokenPieces /\ epoch \in Nat
    BY <1>1, <2>2 DEF NarrationTypeOK
  <2>4. /\ p \in [stage : {"fetch", "play"}, job : SpokenPieces, hit : BOOLEAN]
        /\ p.job = job
    BY <2>3
  <2> HIDE DEF p
  <2>5. ~Sealed /\ holder.at \notin {"kill", "wait"}
    BY <1>1, <2>1, <2>2, <2>3 DEF EndIsKept, SilenceIsKept
  <2>6. NarrationTypeOK'
    BY <1>1, <2>1, <2>2, <2>3, <2>4 DEF NarrationTypeOK
  <2>7. PiecesAreNumbered' /\ QueueInOrder' /\ HeardIsBefore'
    BY <2>1, <2>2, <2>3, TextKeeps
  <2>8. SilenceIsKept'
    BY <1>1, <2>1, <2>3, <2>4, <2>5 DEF SilenceIsKept, Sealed
  <2>9. EndIsKept'
    BY <1>1, <2>1, <2>5 DEF EndIsKept, Sealed
  <2> QED BY <2>6, <2>7, <2>8, <2>9 DEF NarrationInv
<1> QED BY <1>2, <1>3 DEF SpawnFetch

\* A piece is played only in the epoch of its job, after the pieces before it.
LEMMA SpawnPlayKeeps ==
  ASSUME NarrationInv, SpawnPlay
  PROVE  NarrationInv'
<1> USE DEF voicePolicy, voiceProcess, voicePast
<1>1. /\ NarrationTypeOK /\ PiecesAreNumbered /\ QueueInOrder /\ HeardIsBefore /\ SilenceIsKept
      /\ EndIsKept
  BY DEF NarrationInv
<1>2. CASE WorkerAt("play", "finish") /\ UNCHANGED <<speech, voiceHeard>>
  BY <1>2, WorkerMoves DEF SpawnPlay, WorkerAt, AtJob, BeforePlay, MaySpawn
<1>3. CASE /\ WorkerAt("play", "playing") /\ Spawns("play")
           /\ voiceHeard' = Append(voiceHeard, [job EXCEPT !.epoch = 0])
  <2> DEFINE p == [stage |-> "play", job |-> job, hit |-> FALSE]
             j == [job EXCEPT !.epoch = 0]
             n == Len(voiceHeard)
  <2>1. /\ voiceWorker = "play" /\ voiceWorker' = "playing" /\ job.epoch = epoch /\ speech' = p
        /\ voiceHeard' = Append(voiceHeard, j)
        /\ UNCHANGED <<sequences, voiceScope, epoch, quiet, speakQueue, holder, forcing,
                       voiceClosed, silent, job>>
    BY <1>3 DEF SpawnPlay, WorkerAt, Spawns, Current
  <2>2. /\ voiceWorker \in AtJob /\ voiceWorker' \in AtJob /\ voiceWorker \in BeforePlay
        /\ voiceWorker \in MaySpawn /\ voiceWorker' \notin BeforePlay /\ voiceWorker' \notin MaySpawn
    BY <2>1 DEF AtJob, BeforePlay, MaySpawn
  <2>3. job \in SpokenPieces /\ epoch \in Nat
    BY <1>1, <2>2 DEF NarrationTypeOK
  <2>4. /\ p \in [stage : {"fetch", "play"}, job : SpokenPieces, hit : BOOLEAN]
        /\ p.job = job
    BY <2>3
  <2>5. /\ j \in SpokenPieces /\ j.epoch = 0 /\ j.request = job.request /\ j.in = job.in
        /\ j.piece = job.piece
    BY <2>3 DEF SpokenPieces
  <2> HIDE DEF p, j
  <2>6. ~Sealed /\ holder.at \notin {"kill", "wait"}
    BY <1>1, <2>1, <2>2, <2>3 DEF EndIsKept, SilenceIsKept
  <2>7. voiceHeard \in Seq(SpokenPieces)
    BY <1>1 DEF NarrationTypeOK
  <2>8. n \in Nat /\ DOMAIN voiceHeard = 1..n
    BY <2>7, LenProperties
  <2>9. /\ voiceHeard' \in Seq(SpokenPieces) /\ Len(voiceHeard') = n + 1
        /\ DOMAIN voiceHeard' = 1..(n + 1)
        /\ voiceHeard'[n + 1] = j /\ \A i \in DOMAIN voiceHeard : voiceHeard'[i] = voiceHeard[i]
    BY <2>1, <2>5, <2>7, <2>8, AppendProperties, LenProperties
  <2>10. \A i \in DOMAIN voiceHeard' : i = n + 1 \/ i \in DOMAIN voiceHeard
    BY <2>8, <2>9
  <2>11. NarrationTypeOK'
    BY <1>1, <2>1, <2>2, <2>3, <2>4, <2>9 DEF NarrationTypeOK
  <2>12. \A k : PieceNumbered(k)' <=> PieceNumbered(k)
    BY <2>1 DEF PieceNumbered
  <2>13. PieceNumbered(j) /\ PieceNumbered(job)
    <3>1. PieceNumbered(job)
      BY <1>1, <2>2 DEF PiecesAreNumbered
    <3> QED BY <2>3, <2>5, <3>1 DEF PieceNumbered
  <2>14. PiecesAreNumbered'
    <3>1. \A i \in DOMAIN voiceHeard' : PieceNumbered(voiceHeard'[i])
      BY <1>1, <2>9, <2>10, <2>13 DEF PiecesAreNumbered
    <3> QED BY <1>1, <2>1, <2>12, <2>13, <3>1 DEF PiecesAreNumbered
  <2>15. QueueInOrder'
    BY <1>1, <2>1 DEF QueueInOrder
  <2>16. \A k : SameText(j, k) <=> SameText(job, k)
    BY <2>5 DEF SameText
  <2>17. \A k : SameText(k, j) <=> SameText(k, job)
    BY <2>5 DEF SameText
  <2>18. HeardIsBefore'
    <3>1. \A i \in DOMAIN voiceHeard', k \in DOMAIN speakQueue :
            SameText(voiceHeard'[i], speakQueue[k]) => voiceHeard'[i].piece < speakQueue[k].piece
      BY <1>1, <2>2, <2>5, <2>9, <2>10, <2>16 DEF HeardIsBefore
    <3>2. PiecesInOrder'
      <4>0. \A i \in DOMAIN voiceHeard : SameText(voiceHeard[i], job) =>
              voiceHeard[i].piece < job.piece
        BY <1>1, <2>2 DEF HeardIsBefore
      <4> SUFFICES ASSUME NEW i \in DOMAIN voiceHeard', NEW k \in DOMAIN voiceHeard', i < k,
                          SameText(voiceHeard'[i], voiceHeard'[k])
                   PROVE  voiceHeard'[i].piece < voiceHeard'[k].piece
        BY DEF PiecesInOrder, SameText
      <4>1. CASE k = n + 1
        <5>1. i \in DOMAIN voiceHeard
          BY <2>8, <2>9, <4>1
        <5> QED BY <2>5, <2>9, <2>17, <4>0, <4>1, <5>1
      <4>2. CASE k \in DOMAIN voiceHeard
        <5>1. i \in DOMAIN voiceHeard
          BY <2>8, <2>9, <4>2
        <5> QED BY <1>1, <2>9, <4>2, <5>1 DEF HeardIsBefore, PiecesInOrder, SameText
      <4> QED BY <2>10, <4>1, <4>2
    <3>3. \A k \in DOMAIN speakQueue : SameText(job, speakQueue[k]) =>
            job.piece < speakQueue[k].piece
      BY <1>1, <2>2 DEF HeardIsBefore
    <3> QED BY <2>1, <2>2, <3>1, <3>2, <3>3 DEF HeardIsBefore, SameText
  <2>19. SilenceIsKept'
    BY <1>1, <2>1, <2>3, <2>4, <2>6 DEF SilenceIsKept, Sealed
  <2>20. EndIsKept'
    BY <1>1, <2>1, <2>2, <2>6 DEF EndIsKept, Sealed
  <2> QED BY <2>11, <2>14, <2>15, <2>18, <2>19, <2>20 DEF NarrationInv
<1> QED BY <1>2, <1>3 DEF SpawnPlay

\* A sequence with one more element, at a place.
OneMore(s, e, p) == SubSeq(s, 1, p - 1) \o <<e>> \o SubSeq(s, p, Len(s))

\* A sequence with one element more: where the element is, and where the others are.
LEMMA OneIn ==
  ASSUME NEW S, NEW s \in Seq(S), NEW e \in S, NEW p \in 1..(Len(s) + 1)
  PROVE  /\ OneMore(s, e, p) \in Seq(S) /\ DOMAIN OneMore(s, e, p) = 1..(Len(s) + 1)
         /\ \A i \in 1..(Len(s) + 1) :
              OneMore(s, e, p)[i] = IF i < p THEN s[i] ELSE IF i = p THEN e ELSE s[i - 1]
<1> DEFINE a == SubSeq(s, 1, p - 1)
           m == <<e>>
           b == SubSeq(s, p, Len(s))
           c == a \o m
           n == Len(s)
<1>1. n \in Nat /\ p \in Nat /\ 1 <= p /\ p <= n + 1 /\ \A i \in 1..n : s[i] \in S
  BY LenProperties, ElementOfSeq
<1>2. a \in Seq(S) /\ Len(a) = p - 1 /\ \A i \in 1..(p - 1) : a[i] = s[i]
  BY <1>1, SubSeqProperties
<1>3. b \in Seq(S) /\ Len(b) = n - p + 1 /\ \A i \in 1..(n - p + 1) : b[i] = s[p + i - 1]
  <2>1. \A i \in p..n : s[i] \in S
    BY <1>1
  <2>2. /\ b \in Seq(S) /\ Len(b) = IF p <= n THEN n - p + 1 ELSE 0
        /\ \A i \in 1..(n - p + 1) : b[i] = s[p + i - 1]
    BY <1>1, <2>1, SubSeqProperties
  <2> HIDE DEF b
  <2> QED BY <1>1, <2>2
<1>4. m \in Seq(S) /\ Len(m) = 1 /\ m[1] = e
  OBVIOUS
<1> HIDE DEF a, b, m
<1>5. /\ c \in Seq(S) /\ Len(c) = p
      /\ \A i \in 1..p : c[i] = IF i < p THEN s[i] ELSE e
  <2>1. /\ c \in Seq(S) /\ Len(c) = Len(a) + Len(m)
        /\ \A i \in 1..(Len(a) + Len(m)) : c[i] = IF i <= Len(a) THEN a[i] ELSE m[i - Len(a)]
    BY <1>2, <1>4, ConcatProperties
  <2> HIDE DEF c
  <2>2. Len(a) + Len(m) = p
    BY <1>1, <1>2, <1>4
  <2>3. ASSUME NEW i \in 1..p PROVE c[i] = IF i < p THEN s[i] ELSE e
    <3>1. CASE i < p
      <4>1. i <= Len(a) /\ i \in 1..(p - 1)
        BY <1>1, <1>2, <3>1
      <4>2. c[i] = a[i] /\ a[i] = s[i]
        BY <1>2, <2>1, <2>2, <4>1
      <4> QED BY <3>1, <4>2
    <3>2. CASE i = p
      <4>1. ~(i <= Len(a)) /\ i - Len(a) = 1
        BY <1>1, <1>2, <3>2
      <4> QED BY <1>1, <1>4, <2>1, <2>2, <3>2, <4>1
    <3> QED BY <1>1, <3>1, <3>2
  <2> QED BY <2>1, <2>2, <2>3
<1> HIDE DEF c
<1> DEFINE t == c \o b
<1>6. /\ t \in Seq(S) /\ Len(t) = Len(c) + Len(b)
      /\ \A i \in 1..(Len(c) + Len(b)) : t[i] = IF i <= Len(c) THEN c[i] ELSE b[i - Len(c)]
  BY <1>3, <1>5, ConcatProperties
<1> HIDE DEF t
<1>7. Len(c) + Len(b) = n + 1
  BY <1>1, <1>3, <1>5
<1>8. DOMAIN t = 1..(n + 1)
  BY <1>6, <1>7, LenProperties
<1>9. ASSUME NEW i \in 1..(n + 1)
      PROVE  t[i] = IF i < p THEN s[i] ELSE IF i = p THEN e ELSE s[i - 1]
  <2>1. CASE i <= p
    BY <1>1, <1>5, <1>6, <1>7, <2>1
  <2>2. CASE ~(i <= p)
    <3>1. i - p \in 1..(n - p + 1) /\ p + (i - p) - 1 = i - 1
      BY <1>1, <2>2
    <3>2. t[i] = b[i - p]
      BY <1>5, <1>6, <1>7, <2>2
    <3>3. b[i - p] = s[i - 1]
      BY <1>3, <3>1
    <3> QED BY <1>1, <2>2, <3>2, <3>3
  <2> QED BY <2>1, <2>2
<1> QED BY <1>6, <1>8, <1>9 DEF t, c, a, b, m, OneMore

\* A set of numbers has a least one.
LEMMA LeastOne ==
  ASSUME NEW T, T \subseteq Nat, T # {}
  PROVE  \E n \in T : \A k \in T : n <= k
<1> DEFINE R == {ss \in Nat \X Nat : ss[1] < ss[2]}
<1>1. IsWellFoundedOn(R, Nat)
  BY NatLessThanWellFounded DEF OpToRel
<1>2. \A m, n \in Nat : m < n => <<m, n>> \in R
  OBVIOUS
<1> HIDE DEF R
<1>3. PICK n \in T : \A k \in T : ~(<<k, n>> \in R)
  BY <1>1, WFMin
<1>4. ASSUME NEW k \in T PROVE n <= k
  <2>1. k \in Nat /\ n \in Nat
    OBVIOUS
  <2>2. ~(<<k, n>> \in R)
    BY <1>3
  <2>3. ~(k < n)
    BY <1>2, <2>1, <2>2, Zenon
  <2> QED BY <2>1, <2>3
<1> QED BY <1>4

ByPriority(queue) ==
  \A i, k \in DOMAIN queue : i < k => Priority(queue[i].request) >= Priority(queue[k].request)
ByNumber(queue) ==
  \A i, k \in DOMAIN queue :
    i < k /\ SameText(queue[i], queue[k]) => queue[i].piece < queue[k].piece

\* The place of a new piece has behind it all that is of lower priority, and only that.
LEMMA InsertPlace ==
  ASSUME NEW queue \in Seq(SpokenPieces), ByPriority(queue), NEW j
  PROVE  /\ InsertAt(queue, j) \in 1..(Len(queue) + 1)
         /\ \A i \in DOMAIN queue :
              /\ i < InsertAt(queue, j) => Priority(queue[i].request) >= Priority(j.request)
              /\ i >= InsertAt(queue, j) => Priority(queue[i].request) < Priority(j.request)
<1> DEFINE later == {i \in DOMAIN queue : Priority(queue[i].request) < Priority(j.request)}
<1>1. Len(queue) \in Nat /\ DOMAIN queue = 1..Len(queue)
  BY LenProperties
<1>2. \A r : Priority(r) \in Nat
  BY DEF Priority
<1>3. CASE later = {}
  <2>1. InsertAt(queue, j) = Len(queue) + 1
    BY <1>3 DEF InsertAt
  <2>2. \A i \in DOMAIN queue : ~(Priority(queue[i].request) < Priority(j.request))
    BY <1>3
  <2> QED BY <1>1, <1>2, <2>1, <2>2
<1>4. CASE later # {}
  <2> DEFINE p == CHOOSE i \in later : \A k \in later : i <= k
  <2>1. later \subseteq Nat
    BY <1>1
  <2>2. InsertAt(queue, j) = p
    BY <1>4 DEF InsertAt
  <2>3. p \in later /\ \A k \in later : p <= k
    <3> HIDE DEF later
    <3>1. \E n \in later : \A k \in later : n <= k
      BY <1>4, <2>1, LeastOne
    <3> QED BY <3>1
  <2> HIDE DEF p
  <2>4. p \in DOMAIN queue /\ Priority(queue[p].request) < Priority(j.request) /\ p \in 1..Len(queue)
    BY <1>1, <2>3
  <2>5. ASSUME NEW i \in DOMAIN queue, i < p
        PROVE  Priority(queue[i].request) >= Priority(j.request)
    <3>1. i \notin later
      BY <1>1, <2>3, <2>4, <2>5
    <3>2. ~(Priority(queue[i].request) < Priority(j.request))
      BY <3>1
    <3> QED BY <1>2, <3>2
  <2>6. ASSUME NEW i \in DOMAIN queue, i >= p
        PROVE  Priority(queue[i].request) < Priority(j.request)
    <3>1. CASE i = p
      BY <2>4, <3>1
    <3>2. CASE p < i
      <4>1. Priority(queue[p].request) >= Priority(queue[i].request)
        BY <2>4, <3>2 DEF ByPriority
      <4> QED BY <1>2, <2>4, <4>1
    <3> QED BY <1>1, <2>4, <2>6, <3>1, <3>2
  <2> QED BY <1>1, <2>2, <2>4, <2>5, <2>6
<1> QED BY <1>3, <1>4

\* The queue in which there is room holds pieces of the queue, in its order.
LEMMA RoomKeeps ==
  ASSUME NarrationInv, NEW queue \in RoomFor
  PROVE  /\ queue \in Seq(SpokenPieces) /\ ByPriority(queue) /\ ByNumber(queue)
         /\ \A i \in DOMAIN queue : \E k \in DOMAIN speakQueue : queue[i] = speakQueue[k]
<1>1. speakQueue \in Seq(SpokenPieces) /\ QueueInOrder
  BY DEF NarrationInv, NarrationTypeOK
<1>2. ByPriority(speakQueue) /\ ByNumber(speakQueue)
  BY <1>1 DEF QueueInOrder, ByPriority, ByNumber
<1>3. CASE queue = speakQueue
  BY <1>1, <1>2, <1>3
<1>4. ASSUME NEW i \in FirstLow, queue = Without(speakQueue, i)
      PROVE  /\ queue \in Seq(SpokenPieces) /\ ByPriority(queue) /\ ByNumber(queue)
             /\ \A l \in DOMAIN queue : \E k \in DOMAIN speakQueue : queue[l] = speakQueue[k]
  <2>1. i \in 1..Len(speakQueue)
    BY <1>1, LenProperties DEF FirstLow
  <2>2. queue = RestOf(speakQueue, i)
    BY <1>4 DEF Without, RestOf
  <2>3. queue \in Seq(SpokenPieces)
    BY <1>1, <2>1, <2>2, OneOutKeeps
  <2>4. \A l \in DOMAIN queue : \E k \in DOMAIN speakQueue : queue[l] = speakQueue[k]
    <3>1. \A l \in DOMAIN RestOf(speakQueue, i) : \E k \in DOMAIN speakQueue \ {i} :
            RestOf(speakQueue, i)[l] = speakQueue[k]
      BY <1>1, <2>1, OneOutKeeps
    <3> QED BY <2>2, <3>1
  <2>5. \A j, k \in DOMAIN queue : j < k =>
          \E m, l \in DOMAIN speakQueue : m < l /\ queue[j] = speakQueue[m] /\ queue[k] = speakQueue[l]
    <3>1. \A j, k \in DOMAIN RestOf(speakQueue, i) : j < k =>
              \E m, l \in DOMAIN speakQueue \ {i} :
                /\ m < l /\ RestOf(speakQueue, i)[j] = speakQueue[m]
                /\ RestOf(speakQueue, i)[k] = speakQueue[l]
      BY <1>1, <2>1, OneOutKeeps
    <3> QED BY <2>2, <3>1
  <2>6. ByPriority(queue)
    BY <1>2, <2>5 DEF ByPriority
  <2>7. ByNumber(queue)
    BY <1>2, <2>5 DEF ByNumber
  <2> QED BY <2>3, <2>4, <2>6, <2>7
<1>5. queue = speakQueue \/ \E i \in FirstLow : queue = Without(speakQueue, i)
  BY DEF RoomFor
<1> QED BY <1>3, <1>4, <1>5

\* A piece with the next number of its request keeps the order of the queue.
LEMMA InsertKeeps ==
  ASSUME NEW queue \in Seq(SpokenPieces), ByPriority(queue), ByNumber(queue),
         NEW j \in SpokenPieces,
         \A i \in DOMAIN queue : SameText(queue[i], j) => queue[i].piece < j.piece
  PROVE  /\ Inserted(queue, j) \in Seq(SpokenPieces)
         /\ ByPriority(Inserted(queue, j)) /\ ByNumber(Inserted(queue, j))
         /\ \A i \in DOMAIN Inserted(queue, j) :
              Inserted(queue, j)[i] = j \/ \E k \in DOMAIN queue : Inserted(queue, j)[i] = queue[k]
<1> DEFINE p == InsertAt(queue, j)
           n == Len(queue)
           t == Inserted(queue, j)
<1>1. n \in Nat /\ DOMAIN queue = 1..n /\ \A r : Priority(r) \in Nat
  BY LenProperties DEF Priority
<1>2. /\ p \in 1..(n + 1)
      /\ \A i \in DOMAIN queue : /\ i < p => Priority(queue[i].request) >= Priority(j.request)
                                 /\ i >= p => Priority(queue[i].request) < Priority(j.request)
  BY InsertPlace
<1>3. /\ t \in Seq(SpokenPieces) /\ DOMAIN t = 1..(n + 1)
      /\ \A i \in 1..(n + 1) : t[i] = IF i < p THEN queue[i] ELSE IF i = p THEN j ELSE queue[i - 1]
  <2>1. t = OneMore(queue, j, p)
    BY DEF Inserted, OneMore
  <2> HIDE DEF p, t
  <2>2. /\ OneMore(queue, j, p) \in Seq(SpokenPieces) /\ DOMAIN OneMore(queue, j, p) = 1..(Len(queue) + 1)
        /\ \A i \in 1..(Len(queue) + 1) :
             OneMore(queue, j, p)[i] = IF i < p THEN queue[i] ELSE IF i = p THEN j ELSE queue[i - 1]
    BY <1>2, OneIn
  <2> QED BY <2>1, <2>2
<1> HIDE DEF p, n, t
<1>4. ASSUME NEW i \in 1..(n + 1)
      PROVE  \/ i < p /\ i \in DOMAIN queue /\ t[i] = queue[i]
             \/ i = p /\ t[i] = j
             \/ i > p /\ i - 1 \in DOMAIN queue /\ i - 1 >= p /\ t[i] = queue[i - 1]
  BY <1>1, <1>2, <1>3
<1>5. ASSUME NEW i \in 1..(n + 1), NEW k \in 1..(n + 1), i < k
      PROVE  /\ Priority(t[i].request) >= Priority(t[k].request)
             /\ SameText(t[i], t[k]) => t[i].piece < t[k].piece
  <2>1. CASE i < p /\ k = p
    BY <1>2, <1>4, <2>1
  <2>2. CASE i = p
    <3>1. k > p /\ k - 1 \in DOMAIN queue /\ k - 1 >= p /\ t[k] = queue[k - 1] /\ t[i] = j
      BY <1>1, <1>2, <1>4, <1>5, <2>2
    <3>2. Priority(t[k].request) < Priority(t[i].request)
      BY <1>2, <3>1
    <3>3. ~SameText(t[i], t[k])
      BY <1>1, <3>2 DEF SameText
    <3> QED BY <1>1, <3>2, <3>3
  <2>3. CASE i # p /\ k # p
    <3>1. \E m, l \in DOMAIN queue : m < l /\ t[i] = queue[m] /\ t[k] = queue[l]
      <4>1. CASE i < p /\ k < p
        <5>1. i \in DOMAIN queue /\ t[i] = queue[i]
          BY <1>1, <1>2, <1>4, <4>1
        <5>2. k \in DOMAIN queue /\ t[k] = queue[k]
          BY <1>1, <1>2, <1>4, <4>1
        <5> QED BY <1>5, <5>1, <5>2
      <4>2. CASE i < p /\ k > p
        <5>1. i < k - 1
          BY <1>2, <1>1, <4>2
        <5>2. i \in DOMAIN queue /\ t[i] = queue[i]
          BY <1>1, <1>2, <1>4, <4>2
        <5>3. k - 1 \in DOMAIN queue /\ t[k] = queue[k - 1]
          BY <1>1, <1>2, <1>4, <4>2
        <5> QED BY <5>1, <5>2, <5>3
      <4>3. CASE i > p /\ k > p
        <5>1. i - 1 < k - 1
          BY <1>5, <1>1
        <5>2. i - 1 \in DOMAIN queue /\ t[i] = queue[i - 1]
          BY <1>1, <1>2, <1>4, <4>3
        <5>3. k - 1 \in DOMAIN queue /\ t[k] = queue[k - 1]
          BY <1>1, <1>2, <1>4, <4>3
        <5> QED BY <5>1, <5>2, <5>3
      <4> QED BY <1>1, <1>2, <1>5, <2>3, <4>1, <4>2, <4>3
    <3> QED BY <3>1 DEF ByPriority, ByNumber
  <2> QED BY <1>1, <1>2, <1>5, <2>1, <2>2, <2>3
<1>6. ByPriority(t) /\ ByNumber(t)
  BY <1>3, <1>5 DEF ByPriority, ByNumber
<1>7. \A i \in DOMAIN t : t[i] = j \/ \E k \in DOMAIN queue : t[i] = queue[k]
  BY <1>3, <1>4
<1> QED BY <1>3, <1>6, <1>7 DEF t

\* A piece is queued behind the earlier pieces of its request.
LEMMA SpeakKeeps ==
  ASSUME NarrationInv, NEW r \in Requests, Speak(r)
  PROVE  NarrationInv'
<1> USE DEF voicePolicy, voiceProcess, voicePast
<1>1. /\ NarrationTypeOK /\ PiecesAreNumbered /\ QueueInOrder /\ HeardIsBefore /\ SilenceIsKept
      /\ EndIsKept
  BY DEF NarrationInv
<1>2. /\ holder = NobodyInside
      /\ voiceWorker' = (IF voiceWorker = "none" THEN "top" ELSE voiceWorker)
      /\ sequences' = [sequences EXCEPT ![r] = @ + 1]
      /\ holder' = (IF Interrupts(r) THEN [at |-> "interrupt"] ELSE NobodyInside)
      /\ UNCHANGED <<voiceScope, epoch, quiet, voiceHeard, forcing, voiceClosed, silent, speech, job>>
  BY DEF Speak, StartsWorker, Validates
<1>3. /\ sequences \in [Requests -> Nat] /\ epoch \in Nat /\ voiceScope \in Nat
      /\ speakQueue \in Seq(SpokenPieces) /\ voiceHeard \in Seq(SpokenPieces)
  BY <1>1 DEF NarrationTypeOK
<1>4. PICK j \in SpokenPieces :
        /\ j = [request |-> r, piece |-> sequences[r], epoch |-> epoch, in |-> voiceScope]
        /\ j.request = r /\ j.piece = sequences[r] /\ j.epoch = epoch
        /\ j.in = voiceScope /\ sequences[r] \in Nat
  <2> DEFINE n == [request |-> r, piece |-> sequences[r], epoch |-> epoch, in |-> voiceScope]
  <2>1. sequences[r] \in Nat
    BY <1>3
  <2>2. n \in SpokenPieces
    BY <1>3, <2>1 DEF SpokenPieces
  <2> QED BY <2>1, <2>2
<1>5. PICK queue \in RoomFor : speakQueue' = Inserted(queue, j)
  BY <1>4 DEF Speak
<1>6. /\ queue \in Seq(SpokenPieces) /\ ByPriority(queue) /\ ByNumber(queue)
      /\ \A i \in DOMAIN queue : \E k \in DOMAIN speakQueue : queue[i] = speakQueue[k]
  BY RoomKeeps
\* What has a number has a lower one than the new piece.
<1>7. ASSUME NEW k, PieceNumbered(k), SameText(k, j) PROVE k.piece < j.piece
  BY <1>4, <1>7 DEF PieceNumbered, SameText
<1>8. \A i \in DOMAIN queue : PieceNumbered(queue[i])
  BY <1>1, <1>6 DEF PiecesAreNumbered
<1>9. /\ speakQueue' \in Seq(SpokenPieces) /\ ByPriority(speakQueue') /\ ByNumber(speakQueue')
      /\ \A i \in DOMAIN speakQueue' :
           speakQueue'[i] = j \/ \E k \in DOMAIN queue : speakQueue'[i] = queue[k]
  <2>1. \A i \in DOMAIN queue : SameText(queue[i], j) => queue[i].piece < j.piece
    BY <1>7, <1>8
  <2>2. /\ Inserted(queue, j) \in Seq(SpokenPieces)
        /\ ByPriority(Inserted(queue, j)) /\ ByNumber(Inserted(queue, j))
        /\ \A i \in DOMAIN Inserted(queue, j) :
             Inserted(queue, j)[i] = j \/ \E k \in DOMAIN queue : Inserted(queue, j)[i] = queue[k]
    BY <1>4, <1>6, <2>1, InsertKeeps
  <2> QED BY <1>5, <2>2
<1>10. \A i \in DOMAIN speakQueue' :
         speakQueue'[i] = j \/ \E k \in DOMAIN speakQueue : speakQueue'[i] = speakQueue[k]
  BY <1>6, <1>9
<1>11. /\ "top" \notin AtJob /\ "top" \notin BeforePlay /\ "top" \notin MaySpawn
       /\ "none" \notin AtJob /\ "none" \notin BeforePlay /\ "none" \notin MaySpawn
  BY DEF AtJob, BeforePlay, MaySpawn
<1>12. /\ voiceWorker' \in AtJob => voiceWorker \in AtJob
       /\ voiceWorker' \in BeforePlay => voiceWorker \in BeforePlay
       /\ voiceWorker' \in MaySpawn => voiceWorker \in MaySpawn
  BY <1>2, <1>11
<1>13. holder.at = "free" /\ holder'.at \in {"free", "interrupt"}
  BY <1>2, HolderFacts
<1>14. NarrationTypeOK'
  <2>1. sequences' \in [Requests -> Nat]
    BY <1>2, <1>3
  <2>2. voiceWorker' \in AtJob \union {"none", "top", "pop", "parking", "park", "stopped"}
    BY <1>1, <1>2 DEF NarrationTypeOK
  <2>3. holder' \in {NobodyInside, [at |-> "interrupt"], [at |-> "interrupted"]}
    BY <1>2
  <2> QED BY <1>1, <1>2, <1>9, <1>12, <2>1, <2>2, <2>3 DEF NarrationTypeOK
<1>15. PiecesAreNumbered'
  <2>1. ASSUME NEW k \in SpokenPieces, PieceNumbered(k) PROVE PieceNumbered(k)'
    <3>1. k.request \in Requests
      BY DEF SpokenPieces
    <3>2. k.in = voiceScope => k.piece < sequences'[k.request]
      <4>1. CASE k.request = r
        <5>1. sequences'[r] = sequences[r] + 1 /\ k.piece \in Nat
          BY <1>2, <1>3 DEF SpokenPieces
        <5> QED BY <1>4, <2>1, <4>1, <5>1 DEF PieceNumbered
      <4>2. CASE k.request # r
        BY <1>2, <1>3, <2>1, <3>1, <4>2 DEF PieceNumbered
      <4> QED BY <4>1, <4>2
    <3> QED BY <1>2, <2>1, <3>2 DEF PieceNumbered
  <2>2. PieceNumbered(j)'
    BY <1>2, <1>3, <1>4 DEF PieceNumbered
  <2>3. /\ \A i \in DOMAIN speakQueue : speakQueue[i] \in SpokenPieces
        /\ \A i \in DOMAIN voiceHeard : voiceHeard[i] \in SpokenPieces
        /\ voiceWorker \in AtJob => job \in SpokenPieces
    BY <1>1, <1>3, ElementOfSeq, LenProperties DEF NarrationTypeOK
  <2>4. \A i \in DOMAIN speakQueue : PieceNumbered(speakQueue[i])
    BY <1>1 DEF PiecesAreNumbered
  <2>5. ASSUME NEW i \in DOMAIN speakQueue' PROVE PieceNumbered(speakQueue[i])'
    <3>1. CASE speakQueue'[i] = j
      BY <2>2, <3>1 DEF PieceNumbered
    <3>2. CASE \E k \in DOMAIN speakQueue : speakQueue'[i] = speakQueue[k]
      <4>1. PICK m : m \in SpokenPieces /\ PieceNumbered(m) /\ speakQueue'[i] = m
        BY <2>3, <2>4, <3>2
      <4>2. PieceNumbered(m)'
        BY <2>1, <4>1
      <4> QED BY <4>1, <4>2 DEF PieceNumbered
    <3> QED BY <1>10, <3>1, <3>2
  <2>6. \A i \in DOMAIN voiceHeard : PieceNumbered(voiceHeard[i])'
    BY <1>1, <1>2, <2>1, <2>3 DEF PiecesAreNumbered
  <2>7. voiceWorker' \in AtJob => PieceNumbered(job)'
    BY <1>1, <1>2, <1>12, <2>1, <2>3 DEF PiecesAreNumbered
  <2> QED BY <1>2, <2>5, <2>6, <2>7 DEF PiecesAreNumbered
<1>16. QueueInOrder'
  BY <1>9 DEF ByPriority, ByNumber, QueueInOrder, SameText, Priority
<1>17. HeardIsBefore'
  <2>1. ASSUME NEW m, PieceNumbered(m), NEW k \in DOMAIN speakQueue',
               \A l \in DOMAIN speakQueue : SameText(m, speakQueue[l]) => m.piece < speakQueue[l].piece,
               SameText(m, speakQueue'[k])
        PROVE  m.piece < speakQueue'[k].piece
    <3>1. CASE speakQueue'[k] = j
      BY <1>7, <2>1, <3>1
    <3>2. CASE \E l \in DOMAIN speakQueue : speakQueue'[k] = speakQueue[l]
      BY <2>1, <3>2
    <3> QED BY <1>10, <3>1, <3>2
  <2>2. \A i \in DOMAIN voiceHeard, k \in DOMAIN speakQueue' :
          SameText(voiceHeard[i], speakQueue'[k]) => voiceHeard[i].piece < speakQueue'[k].piece
    BY <1>1, <2>1 DEF PiecesAreNumbered, HeardIsBefore
  <2>3. voiceWorker \in AtJob => \A k \in DOMAIN speakQueue' :
          SameText(job, speakQueue'[k]) => job.piece < speakQueue'[k].piece
    BY <1>1, <2>1 DEF PiecesAreNumbered, HeardIsBefore
  <2>4. voiceWorker' \in BeforePlay => \A i \in DOMAIN voiceHeard :
          SameText(voiceHeard[i], job) => voiceHeard[i].piece < job.piece
    BY <1>1, <1>12 DEF HeardIsBefore
  <2>5. PiecesInOrder'
    BY <1>1, <1>2 DEF HeardIsBefore, PiecesInOrder
  <2> QED BY <1>2, <1>12, <2>2, <2>3, <2>4, <2>5 DEF HeardIsBefore, SameText
<1>18. SilenceIsKept'
  BY <1>1, <1>2, <1>13 DEF SilenceIsKept
<1>19. EndIsKept'
  <2>1. Sealed' => Sealed
    BY <1>2, <1>13 DEF Sealed
  <2> QED BY <1>1, <1>2, <1>12, <1>13, <2>1 DEF EndIsKept
<1> QED BY <1>14, <1>15, <1>16, <1>17, <1>18, <1>19 DEF NarrationInv

\* Every step keeps the invariant of the narration.
LEMMA NarrationKept ==
  ASSUME NarrationInv, [NarrationNext]_narrationVars
  PROVE  NarrationInv'
<1>1. CASE \E r \in Requests : Speak(r)
  BY <1>1, SpeakKeeps
<1>2. CASE Silencing
  BY <1>2, SilencingKeeps
<1>3. CASE Cancel \/ CloseEnters \/ SetVoiceScope \/ (\E on \in BOOLEAN : SetVoice(on))
  BY <1>3, EntersKeeps
<1>4. CASE CloseVoice \/ ForceCloses \/ ForceBumps \/ ForceKills \/ ForceEnds
  BY <1>4, ClosingKeeps
<1>5. CASE Worker \/ Eligible
  BY <1>5, VoiceWorkerKeeps, PopKeeps, SpawnFetchKeeps, SpawnPlayKeeps DEF Worker
<1>6. CASE UNCHANGED narrationVars
  <2>1. UNCHANGED <<sequences, voiceScope, epoch, quiet, speakQueue, voiceHeard, holder, forcing,
                    voiceClosed, silent, speech, voiceWorker, job>>
    BY <1>6 DEF narrationVars, voicePolicy, voiceProcess, voiceWork, voicePast
  <2>2. voiceWorker \in AtJob \union {"none", "top", "pop", "parking", "park", "stopped"}
    BY DEF NarrationInv, NarrationTypeOK
  <2> QED BY <2>1, <2>2, WorkerMoves
<1> QED BY <1>1, <1>2, <1>3, <1>4, <1>5, <1>6 DEF NarrationNext

\* Once silence was promised nothing of before is spoken, after a shutdown nothing at all, and
\* the pieces of a request are heard in order, each once.
THEOREM NarrationIsSoundHolds == NarrationSpec => []NarrationIsSound
<1>1. ASSUME NarrationInv PROVE NarrationIsSound
  BY <1>1 DEF NarrationInv, SilenceIsKept, EndIsKept, HeardIsBefore, NarrationIsSound,
              CanceledIsSilent, ClosedIsSilent
<1> QED BY <1>1, NarrationBegins, NarrationKept, PTL DEF NarrationSpec

-----------------------------------------------------------------------------
(* The session of the window.                                              *)

UiEvents == [kind : {"running", "ended", "card", "resolved", "lost"}, ws : Views, gen : Nat,
             about : Nat, n : Nat]
UiOpenings == [token : Nat, ws : Views, at : {"connect", "asked", "opened", "busy", "down"},
               gen : Nat, auto : BOOLEAN]
UiCards == [ws : Views, turn : UiTurns, open : BOOLEAN]
UiStarts == [at : {"sent", "ok", "refused", "down", "interrupt"}, token : Nat, ws : Views,
             gen : Nat, turn : UiTurns \union {0}]
TurnRecords == [st : {"none", "running", "ended", "gone"}, ws : Views \union {NoView}, gen : Nat]

ViewPhases == {"idle", "connecting", "failed", "ready", "running", "waiting", "stopping",
               "completed", "blocked"}
SessionStates == {"idle", "running", "ended"}

\* A recovery is of a workspace.
RecoveryOK ==
  /\ recovery \in [target : Views \union {NoView}, timer : BOOLEAN, running : BOOLEAN]
  /\ recovery.timer => recovery.target \in Views

UiTypeOK ==
  /\ native \in [gen : Nat, up : BOOLEAN, ws : Views \union {NoView}, turn : UiTurns \union {0}]
  /\ turnLog \in [UiTurns -> TurnRecords] /\ numbers \in [Views -> Nat]
  /\ events \in Seq(UiEvents) /\ aside \subseteq UiEvents /\ cardLog \in Seq(UiCards)
  /\ view \in [ws : Views \union {NoView}, phase : ViewPhases, connected : BOOLEAN, gen : Nat,
               thread : Views \union {NoView}, turn : UiTurns \union {0}, cards : SUBSET Nat]
  /\ session \in [gen : Nat, last : Nat, st : SessionStates, turn : UiTurns \union {0}, cards : SUBSET Nat]
  /\ activation \in Nat /\ openings \subseteq UiOpenings
  /\ start = NoTurnStart \/ start \in UiStarts
  /\ \A a \in answers : a.card \in DOMAIN cardLog
  /\ RecoveryOK
  /\ acceptedTurns \subseteq UiTurns /\ observed \subseteq UiTurns /\ notified \subseteq UiTurns
  /\ reports \in [UiTurns -> {0, 1}]

\* The supervisor's active turn is the one that runs, of the workspace and the generation it has.
TurnsAreTrue ==
  /\ native.turn # 0 => /\ turnLog[native.turn].st = "running" /\ native.ws \in Views
                        /\ turnLog[native.turn].ws = native.ws
                        /\ turnLog[native.turn].gen = native.gen /\ native.up
  /\ \A t \in UiTurns : turnLog[t].st = "running" => native.turn = t

\* What is on its way says what is so, for good.
TurnIs(t, w, g) == t \in UiTurns /\ turnLog[t].st # "none" /\ turnLog[t].ws = w /\ turnLog[t].gen = g
CardIs(c, w, g) == /\ c \in DOMAIN cardLog /\ cardLog[c].ws = w
                   /\ turnLog[cardLog[c].turn].st # "none" /\ turnLog[cardLog[c].turn].gen = g
EventIsTrue(e) ==
  /\ e.kind \in {"running", "ended"} => TurnIs(e.about, e.ws, e.gen)
  /\ e.kind = "ended" => turnLog[e.about].st = "ended"
  /\ e.kind = "card" => CardIs(e.about, e.ws, e.gen)
SentIsTrue ==
  /\ \A i \in DOMAIN events : EventIsTrue(events[i])
  /\ \A e \in aside : e.kind = "resolved"
  /\ start.at = "ok" => TurnIs(start.turn, start.ws, start.gen)

\* What the stores hold is of one workspace and one generation; until its thread is there,
\* they are empty.
ViewIsTrue ==
  /\ view.thread \in {NoView, view.ws}
  /\ view.thread = NoView =>
       view.turn = 0 /\ view.gen = 0 /\ session.turn = 0 /\ session.cards = {}
  /\ view.turn # 0 => TurnIs(view.turn, view.ws, view.gen)
  /\ session.turn # 0 => TurnIs(session.turn, view.ws, view.gen) /\ session.gen = view.gen
  /\ session.cards # {} => session.gen = view.gen
  /\ \A c \in session.cards : CardIs(c, view.ws, view.gen)

\* The latest activation is of the workspace that is shown, whose thread is not there yet.
OpeningIsLatest ==
  /\ \A o \in openings :
       /\ o.token <= activation
       /\ o.token = activation => view.ws = o.ws /\ view.thread = NoView
  /\ \A o, p \in openings : o.token = p.token => o = p

\* A turn is reported when it was accepted and its end was observed, and then once; its end is
\* on its way or was observed, and its acceptance as well.
EndIsComing(t) == \E i \in DOMAIN events : events[i].kind = "ended" /\ events[i].about = t
AnswerIsComing(t) == start.at = "ok" /\ start.turn = t
ReportsAreTrue ==
  \A t \in UiTurns :
    /\ reports[t] = 1 <=> t \in notified
    /\ t \in observed \union notified => turnLog[t].st = "ended"
    /\ turnLog[t].st = "ended" => EndIsComing(t) \/ t \in observed \/ t \in notified
    /\ turnLog[t].st # "none" => AnswerIsComing(t) \/ t \in acceptedTurns \/ t \in notified
    /\ ~(t \in acceptedTurns /\ t \in observed /\ t \notin notified)

UiInv ==
  /\ UiTypeOK /\ TurnsAreTrue /\ SentIsTrue /\ ViewIsTrue /\ OpeningIsLatest /\ ReportsAreTrue

\* What the invariant says of the types of channels and logs.
LEMMA UiFacts ==
  ASSUME UiInv
  PROVE  /\ 0 \notin UiTurns /\ UiTurns \subseteq Nat /\ NoView \notin Views
         /\ Len(events) \in Nat /\ DOMAIN events = 1..Len(events)
         /\ \A i \in DOMAIN events : events[i] \in UiEvents
         /\ Len(cardLog) \in Nat /\ DOMAIN cardLog = 1..Len(cardLog)
         /\ \A c \in DOMAIN cardLog : cardLog[c] \in UiCards
         /\ \A t \in UiTurns : turnLog[t] \in TurnRecords
<1>1. events \in Seq(UiEvents) /\ cardLog \in Seq(UiCards) /\ turnLog \in [UiTurns -> TurnRecords]
  BY DEF UiInv, UiTypeOK
<1>2. 0 \notin UiTurns /\ UiTurns \subseteq Nat /\ NoView \notin Views
  BY UiAssumption DEF UiTurns
<1> QED BY <1>1, <1>2, LenProperties, ElementOfSeq

\* Turns and cards that are there stay what they are.
TruthGrows ==
  /\ \A t \in UiTurns : turnLog[t].st # "none" =>
       /\ turnLog'[t].st # "none" /\ turnLog'[t].ws = turnLog[t].ws
       /\ turnLog'[t].gen = turnLog[t].gen
       /\ turnLog[t].st = "ended" => turnLog'[t].st = "ended"
  /\ \A c \in DOMAIN cardLog : /\ c \in DOMAIN cardLog' /\ cardLog'[c].ws = cardLog[c].ws
                               /\ cardLog'[c].turn = cardLog[c].turn

\* What is true of a turn or a card for good remains so.
LEMMA TruthIsKept ==
  ASSUME UiInv, TruthGrows
  PROVE  /\ \A t, w, g : TurnIs(t, w, g) => TurnIs(t, w, g)'
         /\ \A c, w, g : CardIs(c, w, g) => CardIs(c, w, g)'
<1>1. ASSUME NEW t, NEW w, NEW g, TurnIs(t, w, g) PROVE TurnIs(t, w, g)'
  BY <1>1 DEF TruthGrows, TurnIs
<1>2. ASSUME NEW c, NEW w, NEW g, CardIs(c, w, g) PROVE CardIs(c, w, g)'
  <2>1. c \in DOMAIN cardLog /\ cardLog[c] \in UiCards
    BY <1>2, UiFacts DEF CardIs
  <2>2. cardLog[c].turn \in UiTurns
    BY <2>1 DEF UiCards
  <2> QED BY <1>2, <2>1, <2>2 DEF TruthGrows, CardIs
<1> QED BY <1>1, <1>2

\* A view that does not change stays true.
LEMMA ViewIsKept ==
  ASSUME UiInv, TruthGrows, UNCHANGED <<view, session>>
  PROVE  ViewIsTrue'
<1>1. ViewIsTrue
  BY DEF UiInv
<1>2. /\ \A t, w, g : TurnIs(t, w, g) => TurnIs(t, w, g)'
      /\ \A c, w, g : CardIs(c, w, g) => CardIs(c, w, g)'
  BY TruthIsKept
<1>3. view.turn # 0 => TurnIs(view.turn, view.ws, view.gen)'
  BY <1>1, <1>2 DEF ViewIsTrue
<1>4. session.turn # 0 => TurnIs(session.turn, view.ws, view.gen)' /\ session.gen = view.gen
  BY <1>1, <1>2 DEF ViewIsTrue
<1>5. \A c \in session.cards : CardIs(c, view.ws, view.gen)'
  BY <1>1, <1>2 DEF ViewIsTrue
<1> QED BY <1>1, <1>3, <1>4, <1>5 DEF ViewIsTrue

\* One more event at the end.
LEMMA AppendGrows ==
  ASSUME NEW S, NEW s \in Seq(S), NEW e \in S
  PROVE  /\ Append(s, e) \in Seq(S) /\ s \o <<e>> = Append(s, e)
         /\ \A i \in DOMAIN s : i \in DOMAIN Append(s, e) /\ Append(s, e)[i] = s[i]
         /\ \A i \in DOMAIN Append(s, e) :
              Append(s, e)[i] = e \/ (i \in DOMAIN s /\ Append(s, e)[i] = s[i])
         /\ \E i \in DOMAIN Append(s, e) : Append(s, e)[i] = e
<1>1. Len(s) \in Nat /\ DOMAIN s = 1..Len(s)
  BY LenProperties
<1>2. /\ Append(s, e) \in Seq(S) /\ DOMAIN Append(s, e) = 1..(Len(s) + 1)
      /\ \A i \in 1..Len(s) : Append(s, e)[i] = s[i]
      /\ Append(s, e)[Len(s) + 1] = e
  BY AppendProperties, LenProperties
<1>3. s \o <<e>> = Append(s, e)
  BY AppendIsConcat
<1>4. \A i \in 1..(Len(s) + 1) : i = Len(s) + 1 \/ i \in 1..Len(s)
  BY <1>1
<1>5. Len(s) + 1 \in DOMAIN Append(s, e)
  BY <1>1, <1>2
<1>6. \A i \in 1..Len(s) : i \in 1..(Len(s) + 1)
  BY <1>1
<1> QED BY <1>1, <1>2, <1>3, <1>4, <1>5, <1>6

\* Cards that are closed stay what they are.
LEMMA CardsStay ==
  ASSUME UiInv, NEW cards
  PROVE  /\ Closed(cards) \in Seq(UiCards) /\ DOMAIN Closed(cards) = DOMAIN cardLog
         /\ \A c \in DOMAIN cardLog : /\ Closed(cards)[c].ws = cardLog[c].ws
                                      /\ Closed(cards)[c].turn = cardLog[c].turn
<1>1. /\ Len(cardLog) \in Nat /\ DOMAIN cardLog = 1..Len(cardLog)
      /\ \A c \in DOMAIN cardLog : cardLog[c] \in UiCards
  BY UiFacts
<1>2. ASSUME NEW c \in DOMAIN cardLog
      PROVE  /\ Closed(cards)[c] \in UiCards
             /\ Closed(cards)[c].ws = cardLog[c].ws /\ Closed(cards)[c].turn = cardLog[c].turn
  <2>1. cardLog[c] \in UiCards
    BY <1>1
  <2>2. Closed(cards)[c] = [cardLog[c] EXCEPT !.open = @ /\ c \notin cards]
    BY DEF Closed
  <2> QED BY <2>1, <2>2 DEF UiCards
<1>3. Closed(cards) \in [1..Len(cardLog) -> UiCards]
  BY <1>1, <1>2 DEF Closed
<1> QED BY <1>1, <1>2, <1>3

\* An event on its way stays true.
LEMMA EventStays ==
  ASSUME UiInv, TruthGrows
  PROVE  \A e : EventIsTrue(e) => EventIsTrue(e)'
<1>1. ASSUME NEW e, EventIsTrue(e) PROVE EventIsTrue(e)'
  <2>1. e.kind \in {"running", "ended"} => TurnIs(e.about, e.ws, e.gen)'
    BY <1>1, TruthIsKept DEF EventIsTrue
  <2>2. e.kind = "ended" => turnLog'[e.about].st = "ended"
    BY <1>1 DEF EventIsTrue, TurnIs, TruthGrows
  <2>3. e.kind = "card" => CardIs(e.about, e.ws, e.gen)'
    BY <1>1, TruthIsKept DEF EventIsTrue
  <2> QED BY <2>1, <2>2, <2>3 DEF EventIsTrue
<1> QED BY <1>1

\* What is on its way stays true, when what is added is.
LEMMA SentIsKept ==
  ASSUME UiInv, TruthGrows,
         \A i \in DOMAIN events' :
           (\E k \in DOMAIN events : events'[i] = events[k]) \/ EventIsTrue(events[i])',
         \A e \in aside' : e.kind = "resolved",
         start' = start \/ start'.at # "ok"
  PROVE  SentIsTrue'
<1>1. SentIsTrue
  BY DEF UiInv
<1>2. ASSUME NEW i \in DOMAIN events' PROVE EventIsTrue(events[i])'
  <2>1. CASE \E k \in DOMAIN events : events'[i] = events[k]
    <3>1. PICK e : EventIsTrue(e) /\ events'[i] = e
      BY <1>1, <2>1 DEF SentIsTrue
    <3>2. EventIsTrue(e)'
      BY <3>1, EventStays
    <3> QED BY <3>1, <3>2 DEF EventIsTrue
  <2> QED BY <2>1
<1>3. start'.at = "ok" => TurnIs(start.turn, start.ws, start.gen)'
  <2>1. CASE start' = start
    <3>1. start.at = "ok" => TurnIs(start.turn, start.ws, start.gen)
      BY <1>1 DEF SentIsTrue
    <3> QED BY <2>1, <3>1, TruthIsKept DEF TurnIs, TruthGrows
  <2> QED BY <2>1
<1> QED BY <1>2, <1>3 DEF SentIsTrue

\* The reports, when nothing is reported.
LEMMA ReportsAreKept ==
  ASSUME UiInv, UNCHANGED books,
         \A t \in UiTurns :
           /\ turnLog[t].st = "ended" => turnLog'[t].st = "ended" /\ (EndIsComing(t) => EndIsComing(t)')
           /\ turnLog'[t].st = "ended" => EndIsComing(t)' \/ turnLog[t].st = "ended"
           /\ turnLog'[t].st # "none" =>
                AnswerIsComing(t)' \/ (turnLog[t].st # "none" /\ ~AnswerIsComing(t))
  PROVE  ReportsAreTrue'
<1>1. ReportsAreTrue
  BY DEF UiInv
<1>2. UNCHANGED <<acceptedTurns, observed, notified, reports>>
  BY DEF books
<1> SUFFICES ASSUME NEW t \in UiTurns
             PROVE  /\ reports'[t] = 1 <=> t \in notified'
                    /\ t \in observed' \union notified' => turnLog'[t].st = "ended"
                    /\ turnLog'[t].st = "ended" =>
                         EndIsComing(t)' \/ t \in observed' \/ t \in notified'
                    /\ turnLog'[t].st # "none" =>
                         AnswerIsComing(t)' \/ t \in acceptedTurns' \/ t \in notified'
                    /\ ~(t \in acceptedTurns' /\ t \in observed' /\ t \notin notified')
  BY DEF ReportsAreTrue, EndIsComing, AnswerIsComing
<1> QED BY <1>1, <1>2 DEF ReportsAreTrue

\* The supervisor's steps that touch no turn, and no card but to close it.
LEMMA NothingNew ==
  ASSUME UiInv, turnLog' = turnLog, UNCHANGED cardLog
  PROVE  TruthGrows
BY DEF TruthGrows

\* The supervisor opens the thread of a workspace.
LEMMA NativeOpensKeeps ==
  ASSUME UiInv, NEW o, NativeOpens(o)
  PROVE  UiInv'
<1> USE DEF nativeVars, channel, stores, responses, opening
<1>1. UiTypeOK /\ TurnsAreTrue /\ SentIsTrue /\ ViewIsTrue /\ OpeningIsLatest /\ ReportsAreTrue
  BY DEF UiInv
<1>2. /\ o \in openings
      /\ UNCHANGED <<turnLog, numbers, cardLog, events, aside, view, session, claim, answers,
                     activation, diagnosed, start, stopping, recovery, stale, acceptedTurns,
                     observed, notified, reports, books>>
  BY DEF NativeOpens, books
<1>3. o \in UiOpenings
  BY <1>1, <1>2 DEF UiTypeOK, RecoveryOK
<1>4. PICK p \in UiOpenings : /\ openings' = (openings \ {o}) \union {p}
                              /\ p.token = o.token /\ p.ws = o.ws
  <2>1. CASE native.up /\ (native.turn = 0 \/ native.ws = o.ws)
    <3> DEFINE p == [o EXCEPT !.at = "opened", !.gen = native.gen]
    <3>1. native.gen \in Nat
      BY <1>1 DEF UiTypeOK, RecoveryOK
    <3>2. p \in UiOpenings /\ p.token = o.token /\ p.ws = o.ws
      BY <1>3, <3>1 DEF UiOpenings
    <3>3. openings' = (openings \ {o}) \union {p}
      BY <2>1 DEF NativeOpens
    <3> QED BY <3>2, <3>3
  <2>2. CASE ~(native.up /\ (native.turn = 0 \/ native.ws = o.ws))
    <3> DEFINE p == [o EXCEPT !.at = IF native.up THEN "busy" ELSE "down"]
    <3>1. p \in UiOpenings /\ p.token = o.token /\ p.ws = o.ws
      BY <1>3 DEF UiOpenings
    <3>2. openings' = (openings \ {o}) \union {p}
      BY <2>2 DEF NativeOpens
    <3> QED BY <3>1, <3>2
  <2> QED BY <2>1, <2>2
<1>5. /\ native' \in [gen : Nat, up : BOOLEAN, ws : Views \union {NoView}, turn : UiTurns \union {0}]
      /\ native'.turn = native.turn /\ native'.gen = native.gen /\ native'.up = native.up
      /\ native'.turn # 0 => native'.ws = native.ws
  <2>1. native \in [gen : Nat, up : BOOLEAN, ws : Views \union {NoView}, turn : UiTurns \union {0}]
    BY <1>1 DEF UiTypeOK, RecoveryOK
  <2>2. o.ws \in Views
    BY <1>3 DEF UiOpenings
  <2>3. CASE native' = [native EXCEPT !.ws = o.ws] /\ (native.turn = 0 \/ native.ws = o.ws)
    BY <2>1, <2>2, <2>3
  <2>4. CASE native' = native
    BY <2>1, <2>4
  <2> QED BY <2>3, <2>4 DEF NativeOpens
<1>6. UiTypeOK'
  BY <1>1, <1>2, <1>4, <1>5 DEF UiTypeOK, RecoveryOK
<1>7. TurnsAreTrue'
  BY <1>1, <1>2, <1>5 DEF TurnsAreTrue
<1>8. TruthGrows
  BY <1>2, NothingNew
<1>9. SentIsTrue'
  BY <1>1, <1>2, <1>8, SentIsKept DEF SentIsTrue
<1>10. ViewIsTrue'
  BY <1>2, <1>8, ViewIsKept
<1>11. OpeningIsLatest'
  BY <1>1, <1>2, <1>4 DEF OpeningIsLatest
<1>12. ReportsAreTrue'
  BY <1>1, <1>2 DEF ReportsAreTrue, EndIsComing, AnswerIsComing
<1> QED BY <1>6, <1>7, <1>9, <1>10, <1>11, <1>12 DEF UiInv

\* What an event says.
LEMMA EventFacts ==
  ASSUME UiInv, NEW kind \in {"running", "ended", "card", "resolved", "lost"}, NEW w \in Views,
         NEW about \in Nat
  PROVE  /\ Event(kind, w, about) \in UiEvents /\ Event(kind, w, about).kind = kind
         /\ Event(kind, w, about).ws = w /\ Event(kind, w, about).gen = native.gen
         /\ Event(kind, w, about).about = about
<1>1. native.gen \in Nat /\ numbers[w] + 1 \in Nat
  BY DEF UiInv, UiTypeOK
<1> QED BY <1>1 DEF Event, UiEvents

\* Counting the events of a workspace keeps its counter.
LEMMA NumberedKeeps ==
  ASSUME UiInv, NEW w \in Views, Numbered(w)
  PROVE  numbers' \in [Views -> Nat]
<1>1. numbers \in [Views -> Nat]
  BY DEF UiInv, UiTypeOK
<1> QED BY <1>1 DEF Numbered

\* The supervisor starts a turn, and tells its caller and the window.
LEMMA NativeStartsKeeps ==
  ASSUME UiInv, NativeStarts
  PROVE  UiInv'
<1> USE DEF nativeVars, channel, stores, responses, opening
<1>1. UiTypeOK /\ TurnsAreTrue /\ SentIsTrue /\ ViewIsTrue /\ OpeningIsLatest /\ ReportsAreTrue
  BY DEF UiInv
<1>2. /\ start.at = "sent"
      /\ UNCHANGED <<cardLog, aside, view, session, claim, answers, activation, openings, diagnosed,
                     stopping, recovery, stale, acceptedTurns, observed, notified, reports, books>>
  BY DEF NativeStarts, books
<1>3. start \in UiStarts
  BY <1>1, <1>2 DEF UiTypeOK, RecoveryOK, NoTurnStart
<1>4. CASE /\ start' = [start EXCEPT !.at = IF native.up /\ native.gen = start.gen
                                            THEN "refused" ELSE "down"]
           /\ UNCHANGED <<native, turnLog, numbers, events>>
  <2>1. start' \in UiStarts /\ start'.at \in {"refused", "down"}
    BY <1>3, <1>4 DEF UiStarts
  <2>2. UiTypeOK'
    BY <1>1, <1>2, <1>4, <2>1 DEF UiTypeOK, RecoveryOK
  <2>3. TruthGrows
    BY <1>2, <1>4, NothingNew
  <2>4. TurnsAreTrue'
    BY <1>1, <1>4 DEF TurnsAreTrue
  <2>5. SentIsTrue'
    BY <1>1, <1>2, <1>4, <2>1, <2>3, SentIsKept DEF SentIsTrue
  <2>6. ViewIsTrue'
    BY <1>2, <2>3, ViewIsKept
  <2>7. OpeningIsLatest'
    BY <1>1, <1>2 DEF OpeningIsLatest
  <2>8. ReportsAreTrue'
    BY <1>1, <1>2, <1>4, <2>1 DEF ReportsAreTrue, EndIsComing, AnswerIsComing
  <2> QED BY <2>2, <2>4, <2>5, <2>6, <2>7, <2>8 DEF UiInv
<1>5. ASSUME NEW t \in UiTurns,
             native.up, native.gen = start.gen, native.ws = start.ws, native.turn = 0,
             IsNextTurn(t), native' = [native EXCEPT !.turn = t],
             turnLog' = [turnLog EXCEPT ![t] =
               [st |-> "running", ws |-> start.ws, gen |-> start.gen]],
             Emits("running", start.ws, t), start' = [start EXCEPT !.at = "ok", !.turn = t]
      PROVE  UiInv'
  <2>1. start.ws \in Views /\ start.gen \in Nat /\ t \in Nat /\ t # 0
    BY <1>3, UiFacts DEF UiStarts
  <2>2. turnLog[t].st = "none"
    BY <1>5 DEF IsNextTurn
  <2>3. /\ turnLog' \in [UiTurns -> TurnRecords]
        /\ turnLog'[t].st = "running" /\ turnLog'[t].ws = start.ws /\ turnLog'[t].gen = start.gen
        /\ \A u \in UiTurns \ {t} : turnLog'[u] = turnLog[u]
    <3> DEFINE r == [st |-> "running", ws |-> start.ws, gen |-> start.gen]
    <3>1. r \in TurnRecords
      BY <2>1 DEF TurnRecords
    <3>2. turnLog \in [UiTurns -> TurnRecords]
      BY <1>1 DEF UiTypeOK, RecoveryOK
    <3>3. turnLog'[t] = r /\ turnLog' \in [UiTurns -> TurnRecords]
          /\ \A u \in UiTurns \ {t} : turnLog'[u] = turnLog[u]
      BY <1>5, <3>1, <3>2
    <3> QED BY <3>3
  <2>4. /\ native' \in [gen : Nat, up : BOOLEAN, ws : Views \union {NoView}, turn : UiTurns \union {0}]
        /\ native'.turn = t /\ native'.gen = native.gen /\ native'.ws = native.ws
        /\ native'.up = native.up
    BY <1>1, <1>5 DEF UiTypeOK, RecoveryOK
  <2>5. start' \in UiStarts /\ start'.at = "ok" /\ start'.turn = t /\ start'.ws = start.ws
        /\ start'.gen = start.gen
    BY <1>3, <1>5 DEF UiStarts
  <2>6. PICK e \in UiEvents : /\ e.kind = "running" /\ e.ws = start.ws /\ e.gen = native.gen
                              /\ e.about = t /\ events' = Append(events, e)
    <3>1. events' = Append(events, Event("running", start.ws, t))
      BY <1>5 DEF Emits
    <3> QED BY <2>1, <3>1, EventFacts
  <2>7. numbers' \in [Views -> Nat]
    BY <1>5, <2>1, NumberedKeeps DEF Emits
  <2>8. /\ events' \in Seq(UiEvents)
        /\ \A i \in DOMAIN events : i \in DOMAIN events' /\ events'[i] = events[i]
        /\ \A i \in DOMAIN events' : events'[i] = e \/ (i \in DOMAIN events /\ events'[i] = events[i])
    <3>1. events \in Seq(UiEvents)
      BY <1>1 DEF UiTypeOK, RecoveryOK
    <3> QED BY <2>6, <3>1, AppendGrows
  <2>9. TruthGrows
    BY <1>2, <2>2, <2>3 DEF TruthGrows
  <2>10. UiTypeOK'
    BY <1>1, <1>2, <2>3, <2>4, <2>5, <2>7, <2>8 DEF UiTypeOK, RecoveryOK
  <2>11. TurnsAreTrue'
    BY <1>1, <1>5, <2>1, <2>3, <2>4, UiFacts DEF TurnsAreTrue
  <2>12. EventIsTrue(e)'
    <3>1. TurnIs(t, start.ws, native.gen)'
      BY <1>5, <2>3, <2>4, <2>5 DEF TurnIs
    <3>2. TurnIs(e.about, e.ws, e.gen)'
      BY <1>5, <2>3, <2>6 DEF TurnIs
    <3> QED BY <2>6, <3>2 DEF EventIsTrue
  <2>13. SentIsTrue'
    <3>1. ASSUME NEW i \in DOMAIN events' PROVE EventIsTrue(events[i])'
      <4>1. CASE events'[i] = e
        BY <2>12, <4>1 DEF EventIsTrue
      <4>2. CASE i \in DOMAIN events /\ events'[i] = events[i]
        <5>1. PICK f : EventIsTrue(f) /\ events'[i] = f
          BY <1>1, <4>2 DEF SentIsTrue
        <5>2. EventIsTrue(f)'
          BY <2>9, <5>1, EventStays
        <5> QED BY <5>1, <5>2 DEF EventIsTrue
      <4> QED BY <2>8, <4>1, <4>2
    <3>2. TurnIs(start.turn, start.ws, start.gen)'
      BY <2>3, <2>5 DEF TurnIs
    <3> QED BY <1>1, <1>2, <3>1, <3>2 DEF SentIsTrue
  <2>14. ViewIsTrue'
    BY <1>2, <2>9, ViewIsKept
  <2>15. OpeningIsLatest'
    BY <1>1, <1>2 DEF OpeningIsLatest
  <2>16. ReportsAreTrue'
    <3>1. ASSUME NEW u \in UiTurns
          PROVE  /\ turnLog[u].st = "ended" =>
                      turnLog'[u].st = "ended" /\ (EndIsComing(u) => EndIsComing(u)')
                 /\ turnLog'[u].st = "ended" => EndIsComing(u)' \/ turnLog[u].st = "ended"
                 /\ turnLog'[u].st # "none" =>
                      AnswerIsComing(u)' \/ (turnLog[u].st # "none" /\ ~AnswerIsComing(u))
      <4>1. EndIsComing(u) => EndIsComing(u)'
        BY <2>8 DEF EndIsComing
      <4>2. ~AnswerIsComing(u)
        BY <1>2 DEF AnswerIsComing
      <4>3. AnswerIsComing(t)'
        BY <2>5 DEF AnswerIsComing
      <4> QED BY <2>2, <2>3, <4>1, <4>2, <4>3
    <3> QED BY <1>2, <3>1, ReportsAreKept
  <2> QED BY <2>10, <2>11, <2>13, <2>14, <2>15, <2>16 DEF UiInv
<1> QED BY <1>4, <1>5 DEF NativeStarts

\* The server asks, and a card is on its way.
LEMMA NativeAsksKeeps ==
  ASSUME UiInv, NativeAsks
  PROVE  UiInv'
<1> USE DEF nativeVars, channel, stores, responses, opening
<1>1. UiTypeOK /\ TurnsAreTrue /\ SentIsTrue /\ ViewIsTrue /\ OpeningIsLatest /\ ReportsAreTrue
  BY DEF UiInv
<1>2. /\ native.turn # 0 /\ Emits("card", native.ws, Len(cardLog) + 1)
      /\ cardLog' = Append(cardLog, [ws |-> native.ws, turn |-> native.turn, open |-> TRUE])
      /\ UNCHANGED <<native, turnLog, aside, view, session, claim, answers, activation, openings,
                     diagnosed, start, stopping, recovery, stale, acceptedTurns, observed, notified,
                     reports, books>>
  BY DEF NativeAsks, books
<1>3. /\ native.turn \in UiTurns /\ native.ws \in Views /\ Len(cardLog) + 1 \in Nat
      /\ turnLog[native.turn].st = "running" /\ turnLog[native.turn].gen = native.gen
  BY <1>1, <1>2, UiFacts DEF TurnsAreTrue, UiTypeOK
<1>4. PICK e \in UiEvents :
        /\ e.kind = "card" /\ e.ws = native.ws /\ e.gen = native.gen
        /\ e.about = Len(cardLog) + 1 /\ events' = Append(events, e)
  <2>1. events' = Append(events, Event("card", native.ws, Len(cardLog) + 1))
    BY <1>2 DEF Emits
  <2> QED BY <1>3, <2>1, EventFacts
<1>5. numbers' \in [Views -> Nat]
  BY <1>2, <1>3, NumberedKeeps DEF Emits
<1>6. /\ events' \in Seq(UiEvents)
      /\ \A i \in DOMAIN events : i \in DOMAIN events' /\ events'[i] = events[i]
      /\ \A i \in DOMAIN events' : events'[i] = e \/ (i \in DOMAIN events /\ events'[i] = events[i])
  <2>1. events \in Seq(UiEvents)
    BY <1>1 DEF UiTypeOK, RecoveryOK
  <2> QED BY <1>4, <2>1, AppendGrows
<1>7. PICK c \in UiCards : /\ c.ws = native.ws /\ c.turn = native.turn
                           /\ cardLog' = Append(cardLog, c)
  <2> DEFINE c == [ws |-> native.ws, turn |-> native.turn, open |-> TRUE]
  <2>1. c \in UiCards /\ c.ws = native.ws /\ c.turn = native.turn
    BY <1>3 DEF UiCards
  <2> QED BY <1>2, <2>1
<1>8. /\ cardLog' \in Seq(UiCards)
      /\ \A i \in DOMAIN cardLog : i \in DOMAIN cardLog' /\ cardLog'[i] = cardLog[i]
      /\ Len(cardLog) + 1 \in DOMAIN cardLog' /\ cardLog'[Len(cardLog) + 1] = c
  <2>1. cardLog \in Seq(UiCards)
    BY <1>1 DEF UiTypeOK, RecoveryOK
  <2> QED BY <1>7, <2>1, AppendGrows, AppendProperties, LenProperties
<1>9. TruthGrows
  BY <1>2, <1>8 DEF TruthGrows
<1>10. UiTypeOK'
  BY <1>1, <1>2, <1>5, <1>6, <1>8 DEF UiTypeOK, RecoveryOK
<1>11. TurnsAreTrue'
  BY <1>1, <1>2 DEF TurnsAreTrue
<1>12. EventIsTrue(e)'
  <2>1. CardIs(e.about, e.ws, e.gen)'
    BY <1>2, <1>3, <1>4, <1>7, <1>8 DEF CardIs
  <2> QED BY <1>4, <2>1 DEF EventIsTrue
<1>13. SentIsTrue'
  <2>1. ASSUME NEW i \in DOMAIN events'
        PROVE  (\E k \in DOMAIN events : events'[i] = events[k]) \/ EventIsTrue(events[i])'
    BY <1>6, <1>12 DEF EventIsTrue
  <2> QED BY <1>1, <1>2, <1>9, <2>1, SentIsKept DEF SentIsTrue
<1>14. ViewIsTrue'
  BY <1>2, <1>9, ViewIsKept
<1>15. OpeningIsLatest'
  BY <1>1, <1>2 DEF OpeningIsLatest
<1>16. ReportsAreTrue'
  <2>1. ASSUME NEW t \in UiTurns PROVE EndIsComing(t)' <=> EndIsComing(t)
    BY <1>4, <1>6 DEF EndIsComing
  <2>2. \A t \in UiTurns : AnswerIsComing(t)' <=> AnswerIsComing(t)
    BY <1>2 DEF AnswerIsComing
  <2> QED BY <1>1, <1>2, <2>1, <2>2 DEF ReportsAreTrue
<1> QED BY <1>10, <1>11, <1>13, <1>14, <1>15, <1>16 DEF UiInv

\* The active turn ends, or is gone, and its cards are closed; what is told comes after it.
LEMMA TurnEndsKeeps ==
  ASSUME UiInv, NEW w, native.turn # 0,
         native' \in [gen : Nat, up : BOOLEAN, ws : Views \union {NoView}, turn : UiTurns \union {0}],
         native'.turn = 0,
         w = "ended" \/ w = "gone",
         turnLog' = [turnLog EXCEPT ![native.turn].st = w],
         \E cards : cardLog' = Closed(cards),
         numbers' \in [Views -> Nat], events' \in Seq(UiEvents),
         \A i \in DOMAIN events : i \in DOMAIN events' /\ events'[i] = events[i],
         \A i \in DOMAIN events' :
           \/ i \in DOMAIN events /\ events'[i] = events[i]
           \/ events'[i].kind = "lost"
           \/ /\ w = "ended"
              /\ events'[i].kind = "ended" /\ events'[i].about = native.turn
              /\ events'[i].ws = native.ws /\ events'[i].gen = native.gen,
         w = "ended" =>
           \E i \in DOMAIN events' : events'[i].kind = "ended" /\ events'[i].about = native.turn,
         UNCHANGED <<aside, view, session, claim, answers, activation, openings, diagnosed, start,
                     stopping, recovery, books>>
  PROVE  UiInv'
<1>1. UiTypeOK /\ TurnsAreTrue /\ SentIsTrue /\ ViewIsTrue /\ OpeningIsLatest /\ ReportsAreTrue
  BY DEF UiInv
<1>2. UNCHANGED <<stale, acceptedTurns, observed, notified, reports>>
  BY DEF books
<1>3. /\ native.turn \in UiTurns /\ turnLog[native.turn].st = "running"
      /\ turnLog[native.turn].ws = native.ws /\ turnLog[native.turn].gen = native.gen
  BY <1>1 DEF TurnsAreTrue, UiTypeOK
<1>4. /\ turnLog' \in [UiTurns -> TurnRecords]
      /\ turnLog'[native.turn].st = w /\ turnLog'[native.turn].ws = native.ws
      /\ turnLog'[native.turn].gen = native.gen
      /\ \A t \in UiTurns \ {native.turn} : turnLog'[t] = turnLog[t]
  <2> DEFINE r == [turnLog[native.turn] EXCEPT !.st = w]
  <2>1. turnLog[native.turn] \in TurnRecords
    BY <1>3, UiFacts
  <2>2. r \in TurnRecords /\ r.st = w /\ r.ws = native.ws /\ r.gen = native.gen
    BY <1>3, <2>1 DEF TurnRecords
  <2>3. turnLog \in [UiTurns -> TurnRecords]
    BY <1>1 DEF UiTypeOK, RecoveryOK
  <2>4. turnLog' = [turnLog EXCEPT ![native.turn] = r]
    OBVIOUS
  <2> HIDE DEF r
  <2> QED BY <1>3, <2>2, <2>3, <2>4
<1>5. /\ cardLog' \in Seq(UiCards) /\ DOMAIN cardLog' = DOMAIN cardLog
      /\ \A c \in DOMAIN cardLog : cardLog'[c].ws = cardLog[c].ws /\ cardLog'[c].turn = cardLog[c].turn
  BY CardsStay
<1>6. TruthGrows
  BY <1>3, <1>4, <1>5 DEF TruthGrows
<1>7. UiTypeOK'
  BY <1>1, <1>2, <1>4, <1>5 DEF UiTypeOK, RecoveryOK
<1>8. TurnsAreTrue'
  BY <1>1, <1>3, <1>4 DEF TurnsAreTrue
<1>9. SentIsTrue'
  <2>1. ASSUME NEW i \in DOMAIN events'
        PROVE  (\E k \in DOMAIN events : events'[i] = events[k]) \/ EventIsTrue(events[i])'
    <3>1. CASE events'[i].kind = "lost"
      BY <3>1 DEF EventIsTrue
    <3>2. CASE /\ w = "ended"
               /\ events'[i].kind = "ended" /\ events'[i].about = native.turn
               /\ events'[i].ws = native.ws /\ events'[i].gen = native.gen
      BY <1>3, <1>4, <3>2 DEF EventIsTrue, TurnIs
    <3> QED BY <3>1, <3>2
  <2> QED BY <1>1, <1>6, <2>1, SentIsKept DEF SentIsTrue
<1>10. ViewIsTrue'
  BY <1>6, ViewIsKept
<1>11. OpeningIsLatest'
  BY <1>1 DEF OpeningIsLatest
<1>12. ReportsAreTrue'
  <2>1. \A t \in UiTurns : EndIsComing(t) => EndIsComing(t)'
    BY DEF EndIsComing
  <2>2. \A t : t = native.turn /\ w = "ended" => EndIsComing(t)'
    BY DEF EndIsComing
  <2>3. ASSUME NEW t \in UiTurns
        PROVE  /\ reports[t] = 1 <=> t \in notified
               /\ t \in observed \union notified => turnLog'[t].st = "ended"
               /\ turnLog'[t].st = "ended" =>
                    EndIsComing(t)' \/ t \in observed \/ t \in notified
               /\ turnLog'[t].st # "none" =>
                    AnswerIsComing(t) \/ t \in acceptedTurns \/ t \in notified
               /\ ~(t \in acceptedTurns /\ t \in observed /\ t \notin notified)
    <3>1. CASE t = native.turn
      BY <1>1, <1>3, <1>4, <2>2, <3>1 DEF ReportsAreTrue
    <3>2. CASE t # native.turn
      BY <1>1, <1>4, <2>1, <3>2 DEF ReportsAreTrue
    <3> QED BY <3>1, <3>2
  <2> QED BY <1>2, <2>3 DEF ReportsAreTrue, AnswerIsComing, EndIsComing
<1> QED BY <1>7, <1>8, <1>9, <1>10, <1>11, <1>12 DEF UiInv

\* A turn ends, and its end is on its way.
LEMMA NativeEndsKeeps ==
  ASSUME UiInv, NativeEnds
  PROVE  UiInv'
<1> USE DEF nativeVars, channel, stores, responses, opening
<1>1. UiTypeOK /\ TurnsAreTrue
  BY DEF UiInv
<1>2. /\ native.turn # 0 /\ Emits("ended", turnLog[native.turn].ws, native.turn)
      /\ native' = [native EXCEPT !.turn = 0]
      /\ turnLog' = [turnLog EXCEPT ![native.turn].st = "ended"]
      /\ cardLog' = Closed(OpenCards)
      /\ UNCHANGED <<aside, view, session, claim, answers, activation, openings, diagnosed, start,
                     stopping, recovery, books>>
  BY DEF NativeEnds
<1>3. /\ native.turn \in UiTurns /\ native.turn \in Nat /\ native.ws \in Views
      /\ turnLog[native.turn].ws = native.ws
  BY <1>1, <1>2, UiFacts DEF TurnsAreTrue, UiTypeOK
<1>4. PICK e \in UiEvents :
        /\ e.kind = "ended" /\ e.ws = native.ws /\ e.gen = native.gen
        /\ e.about = native.turn /\ events' = Append(events, e)
  <2>1. events' = Append(events, Event("ended", native.ws, native.turn))
    BY <1>2, <1>3 DEF Emits
  <2> QED BY <1>3, <2>1, EventFacts
<1>5. numbers' \in [Views -> Nat]
  BY <1>2, <1>3, NumberedKeeps DEF Emits
<1>6. /\ events' \in Seq(UiEvents)
      /\ \A i \in DOMAIN events : i \in DOMAIN events' /\ events'[i] = events[i]
      /\ \A i \in DOMAIN events' : events'[i] = e \/ (i \in DOMAIN events /\ events'[i] = events[i])
      /\ \E i \in DOMAIN events' : events'[i] = e
  <2>1. events \in Seq(UiEvents)
    BY <1>1 DEF UiTypeOK, RecoveryOK
  <2> QED BY <1>4, <2>1, AppendGrows
<1>7. /\ native' \in [gen : Nat, up : BOOLEAN, ws : Views \union {NoView}, turn : UiTurns \union {0}]
      /\ native'.turn = 0
  BY <1>1, <1>2 DEF UiTypeOK, RecoveryOK
<1>8. \A i \in DOMAIN events' :
        \/ i \in DOMAIN events /\ events'[i] = events[i]
        \/ /\ events'[i].kind = "ended" /\ events'[i].about = native.turn
           /\ events'[i].ws = native.ws /\ events'[i].gen = native.gen
  BY <1>4, <1>6
<1>9. \E i \in DOMAIN events' : events'[i].kind = "ended" /\ events'[i].about = native.turn
  BY <1>4, <1>6
<1> QED BY <1>2, <1>5, <1>6, <1>7, <1>8, <1>9, TurnEndsKeeps

\* Nothing ends, and what is told, if anything, is told of no turn and no card.
LEMMA TurnStaysKeeps ==
  ASSUME UiInv, native.turn = 0,
         native' \in [gen : Nat, up : BOOLEAN, ws : Views \union {NoView}, turn : UiTurns \union {0}],
         native'.turn = 0, turnLog' = turnLog,
         cardLog' = cardLog \/ \E cards : cardLog' = Closed(cards),
         numbers' \in [Views -> Nat], events' \in Seq(UiEvents),
         \A i \in DOMAIN events : i \in DOMAIN events' /\ events'[i] = events[i],
         \A i \in DOMAIN events' :
           (i \in DOMAIN events /\ events'[i] = events[i]) \/ events'[i].kind = "lost",
         UNCHANGED <<aside, view, session, claim, answers, activation, openings, diagnosed, start,
                     stopping, recovery, books>>
  PROVE  UiInv'
<1>1. UiTypeOK /\ TurnsAreTrue /\ SentIsTrue /\ ViewIsTrue /\ OpeningIsLatest /\ ReportsAreTrue
  BY DEF UiInv
<1>2. UNCHANGED <<stale, acceptedTurns, observed, notified, reports>>
  BY DEF books
<1>3. /\ cardLog' \in Seq(UiCards) /\ DOMAIN cardLog' = DOMAIN cardLog
      /\ \A c \in DOMAIN cardLog : cardLog'[c].ws = cardLog[c].ws /\ cardLog'[c].turn = cardLog[c].turn
  <2>1. cardLog \in Seq(UiCards)
    BY <1>1 DEF UiTypeOK
  <2> QED BY <2>1, CardsStay
<1>4. TruthGrows
  BY <1>3 DEF TruthGrows
<1>5. UiTypeOK'
  BY <1>1, <1>2, <1>3 DEF UiTypeOK, RecoveryOK
<1>6. TurnsAreTrue'
  BY <1>1 DEF TurnsAreTrue
<1>7. SentIsTrue'
  <2>1. ASSUME NEW i \in DOMAIN events'
        PROVE  (\E k \in DOMAIN events : events'[i] = events[k]) \/ EventIsTrue(events[i])'
    BY DEF EventIsTrue
  <2> QED BY <1>1, <1>4, <2>1, SentIsKept DEF SentIsTrue
<1>8. ViewIsTrue'
  BY <1>4, ViewIsKept
<1>9. OpeningIsLatest'
  BY <1>1 DEF OpeningIsLatest
<1>10. ReportsAreTrue'
  <2>1. \A t \in UiTurns : EndIsComing(t) => EndIsComing(t)'
    BY DEF EndIsComing
  <2> QED BY <1>1, <1>2, <2>1 DEF ReportsAreTrue, AnswerIsComing
<1> QED BY <1>5, <1>6, <1>7, <1>8, <1>9, <1>10 DEF UiInv

\* A new server has a new generation, and no turn.
LEMMA NativeReturnsKeeps ==
  ASSUME UiInv, NativeReturns
  PROVE  UiInv'
<1> USE DEF nativeVars, channel, stores, responses, opening
<1>1. UiTypeOK /\ native.turn = 0
  BY DEF UiInv, TurnsAreTrue, NativeReturns
<1>2. /\ native' = [gen |-> native.gen + 1, up |-> TRUE, ws |-> NoView, turn |-> 0]
      /\ numbers' = [w \in Views |-> 0]
      /\ UNCHANGED <<turnLog, cardLog, events, aside, view, session, claim, answers, activation,
                     openings, diagnosed, start, stopping, recovery, books>>
  BY DEF NativeReturns
<1>3. /\ native' \in [gen : Nat, up : BOOLEAN, ws : Views \union {NoView}, turn : UiTurns \union {0}]
      /\ native'.turn = 0
  BY <1>1, <1>2 DEF UiTypeOK, RecoveryOK
<1>4. numbers' \in [Views -> Nat] /\ events' \in Seq(UiEvents)
  BY <1>1, <1>2 DEF UiTypeOK, RecoveryOK
<1> QED BY <1>1, <1>2, <1>3, <1>4, TurnStaysKeeps

\* A loss of the server, which may be told with or without the end of its turn.
LEMMA NativeLostKeeps ==
  ASSUME UiInv, NEW ends \in BOOLEAN, NativeLost(ends)
  PROVE  UiInv'
<1> USE DEF nativeVars, channel, stores, responses, opening
<1>1. UiTypeOK /\ TurnsAreTrue
  BY DEF UiInv
<1> DEFINE notices == ends /\ native.turn # 0
           w == native.ws
           lost == [Event("lost", w, 0) EXCEPT !.n = @ + (IF notices THEN 1 ELSE 0)]
<1>2. /\ native' = [native EXCEPT !.up = FALSE, !.turn = 0]
      /\ turnLog' = (IF native.turn = 0 THEN turnLog
                     ELSE [turnLog EXCEPT ![native.turn].st = IF ends THEN "ended" ELSE "gone"])
      /\ cardLog' = Closed(OpenCards)
      /\ UNCHANGED <<aside, view, session, claim, answers, activation, openings, diagnosed, start,
                     stopping, recovery, books>>
  BY DEF NativeLost
<1>3. /\ native' \in [gen : Nat, up : BOOLEAN, ws : Views \union {NoView}, turn : UiTurns \union {0}]
      /\ native'.turn = 0
  BY <1>1, <1>2 DEF UiTypeOK, RecoveryOK
<1>4. native.turn # 0 => native.turn \in UiTurns /\ native.turn \in Nat /\ w \in Views
  BY <1>1, UiFacts DEF TurnsAreTrue, UiTypeOK
<1>5. events \in Seq(UiEvents) /\ numbers \in [Views -> Nat]
  BY <1>1 DEF UiTypeOK, RecoveryOK
<1>6. CASE w = NoView
  <2>1. UNCHANGED <<events, numbers>>
    BY <1>6 DEF NativeLost
  <2>2. native.turn = 0
    BY <1>4, <1>6, UiFacts
  <2>3. turnLog' = turnLog
    BY <1>2, <2>2
  <2> QED BY <1>2, <1>3, <1>5, <2>1, <2>2, <2>3, TurnStaysKeeps
<1>7. CASE w # NoView
  <2>1. w \in Views
    BY <1>1, <1>7 DEF UiTypeOK, RecoveryOK
  <2>2. lost \in UiEvents /\ lost.kind = "lost" /\ lost.n \in Nat
    <3>1. Event("lost", w, 0) \in UiEvents /\ Event("lost", w, 0).kind = "lost"
      BY <2>1, EventFacts
    <3> DEFINE k == IF notices THEN 1 ELSE 0
    <3>2. k \in Nat
      OBVIOUS
    <3> HIDE DEF k, notices
    <3>3. ASSUME NEW e \in UiEvents, e.kind = "lost"
          PROVE  LET d == [e EXCEPT !.n = @ + k] IN d \in UiEvents /\ d.kind = "lost" /\ d.n \in Nat
      <4>1. e.n + k \in Nat
        BY <3>2 DEF UiEvents
      <4> QED BY <3>3, <4>1 DEF UiEvents
    <3>4. lost = [Event("lost", w, 0) EXCEPT !.n = @ + k]
      BY DEF k
    <3> QED BY <3>1, <3>3, <3>4
  <2>3. /\ events' = events \o (IF notices THEN <<Event("ended", w, native.turn)>> ELSE <<>>) \o <<lost>>
        /\ numbers' = [numbers EXCEPT ![w] = lost.n]
    BY <1>7 DEF NativeLost
  <2> HIDE DEF lost
  <2>4. numbers' \in [Views -> Nat]
    BY <1>5, <2>1, <2>2, <2>3
  <2>5. CASE notices
    <3>1. PICK e \in UiEvents :
            /\ e = Event("ended", w, native.turn)
            /\ e.kind = "ended" /\ e.ws = w /\ e.gen = native.gen /\ e.about = native.turn
      BY <1>4, <2>5, EventFacts
    <3>2. /\ Append(events, e) \in Seq(UiEvents) /\ events \o <<e>> = Append(events, e)
          /\ \A i \in DOMAIN events :
               i \in DOMAIN Append(events, e) /\ Append(events, e)[i] = events[i]
          /\ \A i \in DOMAIN Append(events, e) :
               Append(events, e)[i] = e \/ (i \in DOMAIN events /\ Append(events, e)[i] = events[i])
          /\ \E i \in DOMAIN Append(events, e) : Append(events, e)[i] = e
      BY <1>5, AppendGrows
    <3>3. PICK s \in Seq(UiEvents) : s = Append(events, e)
      BY <3>2
    <3>4. events' = s \o <<lost>>
      BY <2>3, <2>5, <3>1, <3>2, <3>3
    <3>5. /\ Append(s, lost) \in Seq(UiEvents) /\ s \o <<lost>> = Append(s, lost)
          /\ \A i \in DOMAIN s : i \in DOMAIN Append(s, lost) /\ Append(s, lost)[i] = s[i]
          /\ \A i \in DOMAIN Append(s, lost) :
               Append(s, lost)[i] = lost \/ (i \in DOMAIN s /\ Append(s, lost)[i] = s[i])
      BY <2>2, AppendGrows
    <3>6. /\ events' \in Seq(UiEvents)
          /\ \A i \in DOMAIN events : i \in DOMAIN events' /\ events'[i] = events[i]
          /\ \A i \in DOMAIN events' :
               \/ i \in DOMAIN events /\ events'[i] = events[i]
               \/ events'[i] = e \/ events'[i] = lost
          /\ \E i \in DOMAIN events' : events'[i] = e
      BY <3>2, <3>3, <3>4, <3>5
    <3>7. native.turn # 0 /\ turnLog' = [turnLog EXCEPT ![native.turn].st = "ended"]
      BY <1>2, <2>5
    <3>8. \A i \in DOMAIN events' :
            \/ i \in DOMAIN events /\ events'[i] = events[i]
            \/ events'[i].kind = "lost"
            \/ /\ events'[i].kind = "ended" /\ events'[i].about = native.turn
               /\ events'[i].ws = native.ws /\ events'[i].gen = native.gen
      BY <2>2, <3>1, <3>6
    <3>9. \E i \in DOMAIN events' : events'[i].kind = "ended" /\ events'[i].about = native.turn
      BY <3>1, <3>6
    <3> HIDE DEF notices, w
    <3> QED BY <1>2, <1>3, <2>4, <3>6, <3>7, <3>8, <3>9, TurnEndsKeeps
  <2>6. CASE ~notices
    <3>1. events' = events \o <<lost>>
      BY <1>5, <2>3, <2>6, ConcatEmptySeq
    <3>2. /\ Append(events, lost) \in Seq(UiEvents) /\ events \o <<lost>> = Append(events, lost)
          /\ \A i \in DOMAIN events :
               i \in DOMAIN Append(events, lost) /\ Append(events, lost)[i] = events[i]
          /\ \A i \in DOMAIN Append(events, lost) :
               \/ Append(events, lost)[i] = lost
               \/ i \in DOMAIN events /\ Append(events, lost)[i] = events[i]
      BY <1>5, <2>2, AppendGrows
    <3>3. /\ events' \in Seq(UiEvents)
          /\ \A i \in DOMAIN events : i \in DOMAIN events' /\ events'[i] = events[i]
          /\ \A i \in DOMAIN events' :
               (i \in DOMAIN events /\ events'[i] = events[i]) \/ events'[i].kind = "lost"
      BY <2>2, <3>1, <3>2
    <3>4. CASE native.turn = 0
      BY <1>2, <1>3, <2>4, <3>3, <3>4, TurnStaysKeeps
    <3>5. CASE native.turn # 0
      <4>1. turnLog' = [turnLog EXCEPT ![native.turn].st = "gone"]
        BY <1>2, <2>6, <3>5
      <4>2. "gone" # "ended"
        OBVIOUS
      <4> QED BY <1>2, <1>3, <2>4, <3>3, <3>5, <4>1, <4>2, TurnEndsKeeps
    <3> QED BY <3>4, <3>5
  <2> QED BY <2>5, <2>6
<1> QED BY <1>6, <1>7

\* An answer is accepted or refused.
LEMMA NativeAnswersKeeps ==
  ASSUME UiInv, NEW a, NativeAnswers(a)
  PROVE  UiInv'
<1> USE DEF nativeVars, channel, stores, responses, opening
<1>1. UiTypeOK /\ TurnsAreTrue /\ SentIsTrue /\ ViewIsTrue /\ OpeningIsLatest /\ ReportsAreTrue
  BY DEF UiInv
<1>2. /\ a \in answers
      /\ UNCHANGED <<native, turnLog, events, view, session, claim, activation, openings, diagnosed,
                     start, stopping, recovery, stale, acceptedTurns, observed, notified, reports,
                     books>>
  BY DEF NativeAnswers, books
<1>3. a.card \in DOMAIN cardLog
  BY <1>1, <1>2 DEF UiTypeOK, RecoveryOK
<1>4. /\ cardLog' \in Seq(UiCards) /\ DOMAIN cardLog' = DOMAIN cardLog
      /\ \A c \in DOMAIN cardLog : cardLog'[c].ws = cardLog[c].ws /\ cardLog'[c].turn = cardLog[c].turn
  BY <1>1, CardsStay DEF UiTypeOK, RecoveryOK, NativeAnswers
<1>5. /\ numbers' \in [Views -> Nat] /\ aside' \subseteq UiEvents
      /\ \A e \in aside' : e.kind = "resolved"
  <2>1. CASE native.up /\ a.card \in OpenCards
    <3>1. cardLog[a.card].ws \in Views /\ a.card \in Nat
      BY <1>3, UiFacts DEF UiCards
    <3>2. aside' = aside \union {Event("resolved", cardLog[a.card].ws, a.card)}
          /\ Numbered(cardLog[a.card].ws)
      BY <2>1 DEF NativeAnswers
    <3>3. numbers' \in [Views -> Nat]
      BY <3>1, <3>2, NumberedKeeps
    <3>4. /\ Event("resolved", cardLog[a.card].ws, a.card) \in UiEvents
          /\ Event("resolved", cardLog[a.card].ws, a.card).kind = "resolved"
      BY <3>1, EventFacts
    <3> QED BY <1>1, <3>2, <3>3, <3>4 DEF UiTypeOK, RecoveryOK, SentIsTrue
  <2>2. CASE ~(native.up /\ a.card \in OpenCards)
    BY <1>1, <2>2 DEF NativeAnswers, UiTypeOK, SentIsTrue
  <2> QED BY <2>1, <2>2
<1>6. \A b \in answers' : b.card \in DOMAIN cardLog'
  <2>1. CASE native.up /\ a.card \in OpenCards
    <3> DEFINE b == [a EXCEPT !.at = "taken"]
    <3>1. answers' = (answers \ {a}) \union {b}
      BY <2>1 DEF NativeAnswers
    <3>2. b.card = a.card
      OBVIOUS
    <3> HIDE DEF b
    <3> QED BY <1>1, <1>3, <1>4, <3>1, <3>2 DEF UiTypeOK, RecoveryOK
  <2>2. CASE ~(native.up /\ a.card \in OpenCards)
    <3> DEFINE b == [a EXCEPT !.at = "refused"]
    <3>1. answers' = (answers \ {a}) \union {b}
      BY <2>2 DEF NativeAnswers
    <3>2. b.card = a.card
      OBVIOUS
    <3> HIDE DEF b
    <3> QED BY <1>1, <1>3, <1>4, <3>1, <3>2 DEF UiTypeOK, RecoveryOK
  <2> QED BY <2>1, <2>2
<1>7. TruthGrows
  BY <1>2, <1>4 DEF TruthGrows
<1>8. UiTypeOK'
  <2>1. RecoveryOK'
    BY <1>1, <1>2 DEF UiTypeOK, RecoveryOK
  <2> QED BY <1>1, <1>2, <1>4, <1>5, <1>6, <2>1 DEF UiTypeOK
<1>9. TurnsAreTrue'
  BY <1>1, <1>2 DEF TurnsAreTrue
<1>10. SentIsTrue'
  BY <1>1, <1>2, <1>5, <1>7, SentIsKept
<1>11. ViewIsTrue'
  BY <1>2, <1>7, ViewIsKept
<1>12. OpeningIsLatest'
  BY <1>1, <1>2 DEF OpeningIsLatest
<1>13. ReportsAreTrue'
  BY <1>1, <1>2 DEF ReportsAreTrue, EndIsComing, AnswerIsComing
<1> QED BY <1>8, <1>9, <1>10, <1>11, <1>12, <1>13 DEF UiInv

\* The parts of the invariant, when the supervisor and the channel do nothing.
LEMMA SameTruth ==
  ASSUME UiInv, UNCHANGED nativeVars
  PROVE  /\ TurnsAreTrue' /\ TruthGrows
         /\ \A t, w, g : TurnIs(t, w, g)' <=> TurnIs(t, w, g)
         /\ \A c, w, g : CardIs(c, w, g)' <=> CardIs(c, w, g)
<1>1. UNCHANGED <<native, turnLog, cardLog>>
  BY DEF nativeVars
<1> QED BY <1>1 DEF UiInv, TurnsAreTrue, TruthGrows, TurnIs, CardIs

\* Events that are neither sent nor taken stay true.
LEMMA SentIsSame ==
  ASSUME UiInv, UNCHANGED <<nativeVars, channel>>, start' = start \/ start'.at # "ok"
  PROVE  SentIsTrue'
<1>1. UNCHANGED <<events, aside>> /\ SentIsTrue
  BY DEF channel, UiInv
<1> QED BY <1>1, SameTruth, SentIsKept DEF SentIsTrue

\* A view that keeps its thread and turn stays true.
LEMMA ViewIsSame ==
  ASSUME UiInv, UNCHANGED <<nativeVars, session>>,
         view'.ws = view.ws, view'.thread = view.thread, view'.gen = view.gen, view'.turn = view.turn
  PROVE  ViewIsTrue'
<1>1. ViewIsTrue
  BY DEF UiInv
<1>2. /\ \A t, w, g : TurnIs(t, w, g)' <=> TurnIs(t, w, g)
      /\ \A c, w, g : CardIs(c, w, g)' <=> CardIs(c, w, g)
  BY SameTruth
<1>3. view'.turn # 0 => TurnIs(view.turn, view.ws, view.gen)'
  BY <1>1, <1>2 DEF ViewIsTrue
<1>4. session'.turn # 0 =>
        TurnIs(session.turn, view.ws, view.gen)' /\ session'.gen = view'.gen
  BY <1>1, <1>2 DEF ViewIsTrue
<1>5. \A c \in session'.cards : CardIs(c, view.ws, view.gen)'
  BY <1>1, <1>2 DEF ViewIsTrue
<1> QED BY <1>1, <1>3, <1>4, <1>5 DEF ViewIsTrue

\* What was reported is the same while no turn is accepted or ends.
LEMMA ReportsAreSame ==
  ASSUME UiInv, UNCHANGED <<nativeVars, channel, books>>,
         (start.at # "ok" /\ start'.at # "ok") \/ start' = start
  PROVE  ReportsAreTrue'
<1>1. UNCHANGED <<turnLog, events, acceptedTurns, observed, notified, reports>>
  BY DEF nativeVars, channel, books
<1>2. ReportsAreTrue
  BY DEF UiInv
<1> QED BY <1>1, <1>2 DEF ReportsAreTrue, EndIsComing, AnswerIsComing

\* What is scheduled is the recovery of a workspace.
LEMMA SchedulesKeeps ==
  ASSUME UiInv, NEW w \in Views, Schedules(w)
  PROVE  RecoveryOK'
<1>1. RecoveryOK
  BY DEF UiInv, UiTypeOK
<1> DEFINE timer == recovery.timer \/ (~recovery.running /\ recovery.target = w /\ view'.ws = w)
<1>2. timer \in BOOLEAN /\ (timer => recovery.timer \/ recovery.target = w)
  OBVIOUS
<1>3. recovery' = [recovery EXCEPT !.timer = timer]
  BY DEF Schedules
<1> HIDE DEF timer
<1> QED BY <1>1, <1>2, <1>3 DEF RecoveryOK

\* A recovery that is scheduled, or settles, is for a workspace.
LEMMA ScheduleAfterKeeps ==
  ASSUME UiInv, NEW o \in UiOpenings, ScheduleAfter(o) \/ Settles(o)
  PROVE  RecoveryOK'
<1>1. RecoveryOK /\ o.ws \in Views
  BY DEF UiInv, UiTypeOK, UiOpenings
<1> DEFINE timer == recovery.timer \/
                      ((o.auto \/ ~recovery.running) /\ recovery.target = o.ws /\ view'.ws = o.ws)
           running == recovery.running /\ ~o.auto
<1>2. timer \in BOOLEAN /\ running \in BOOLEAN /\ (timer => recovery.timer \/ recovery.target = o.ws)
  OBVIOUS
<1>3. \/ recovery' = [recovery EXCEPT !.running = running, !.timer = timer]
      \/ recovery' = [recovery EXCEPT !.running = running]
  BY DEF ScheduleAfter, Settles
<1> HIDE DEF timer, running
<1> QED BY <1>1, <1>2, <1>3 DEF RecoveryOK

\* What changes the view in its words alone.
LEMMA ViewSays ==
  ASSUME UiInv, NEW phase \in ViewPhases, NEW connected \in BOOLEAN
  PROVE  LET v == [view EXCEPT !.phase = phase, !.connected = connected] IN
         /\ v \in [ws : Views \union {NoView}, phase : ViewPhases, connected : BOOLEAN, gen : Nat,
                   thread : Views \union {NoView}, turn : UiTurns \union {0}, cards : SUBSET Nat]
         /\ v.ws = view.ws /\ v.thread = view.thread /\ v.gen = view.gen /\ v.turn = view.turn
BY DEF UiInv, UiTypeOK

\* An opening that begins empties the stores and is the latest one.
LEMMA OpensKeeps ==
  ASSUME UiInv, NEW w \in Views, NEW auto \in BOOLEAN, Opens(w, auto),
         RecoveryOK', UNCHANGED <<nativeVars, channel, answers, diagnosed, start, stopping, books>>
  PROVE  UiInv'
<1>1. UiTypeOK /\ OpeningIsLatest
  BY DEF UiInv
<1>2. /\ UNCHANGED <<native, turnLog, numbers, cardLog, events, aside, stale, acceptedTurns,
                     observed, notified, reports>>
      /\ activation' = activation + 1 /\ session' = NoSession
  BY DEF nativeVars, channel, books, Opens
<1>3. PICK p \in UiOpenings : /\ openings' = openings \union {p}
                              /\ p.token = activation + 1 /\ p.ws = w
  <2> DEFINE p == [token |-> activation + 1, ws |-> w, at |-> "connect", gen |-> 0, auto |-> auto]
  <2>1. activation \in Nat
    BY <1>1 DEF UiTypeOK
  <2>2. p \in UiOpenings /\ p.token = activation + 1 /\ p.ws = w
    BY <2>1 DEF UiOpenings
  <2>3. openings' = openings \union {p}
    BY DEF Opens
  <2> QED BY <2>2, <2>3
<1>4. /\ view' \in [ws : Views \union {NoView}, phase : ViewPhases, connected : BOOLEAN, gen : Nat,
                    thread : Views \union {NoView}, turn : UiTurns \union {0}, cards : SUBSET Nat]
      /\ view'.ws = w /\ view'.thread = NoView /\ view'.gen = 0 /\ view'.turn = 0
  <2> DEFINE c == view.connected /\ ~(auto /\ view.ws = w)
             v == [view EXCEPT !.ws = w, !.phase = "connecting", !.gen = 0, !.thread = NoView,
                               !.turn = 0, !.cards = {}, !.connected = c]
  <2>1. c \in BOOLEAN
    BY <1>1 DEF UiTypeOK
  <2>2. view' = v
    BY DEF Opens
  <2> HIDE DEF c
  <2>3. /\ v \in [ws : Views \union {NoView}, phase : ViewPhases, connected : BOOLEAN, gen : Nat,
                  thread : Views \union {NoView}, turn : UiTurns \union {0}, cards : SUBSET Nat]
        /\ v.ws = w /\ v.thread = NoView /\ v.gen = 0 /\ v.turn = 0
    <3>1. view \in [ws : Views \union {NoView}, phase : ViewPhases, connected : BOOLEAN, gen : Nat,
                    thread : Views \union {NoView}, turn : UiTurns \union {0}, cards : SUBSET Nat]
      BY <1>1 DEF UiTypeOK
    <3>2. /\ {} \in SUBSET Nat /\ "connecting" \in ViewPhases
          /\ 0 \in UiTurns \union {0} /\ 0 \in Nat
          /\ w \in Views \union {NoView} /\ NoView \in Views \union {NoView}
      BY DEF ViewPhases
    <3> QED BY <2>1, <3>1, <3>2
  <2> QED BY <2>2, <2>3
<1>5. session' \in [gen : Nat, last : Nat, st : SessionStates, turn : UiTurns \union {0}, cards : SUBSET Nat]
      /\ session'.turn = 0 /\ session'.cards = {}
  <2>1. {} \in SUBSET Nat /\ "idle" \in SessionStates /\ 0 \in UiTurns \union {0} /\ 0 \in Nat
    BY DEF SessionStates
  <2>2. NoSession \in
          [gen : Nat, last : Nat, st : SessionStates, turn : UiTurns \union {0}, cards : SUBSET Nat]
    BY <2>1 DEF NoSession
  <2> QED BY <1>2, <2>2 DEF NoSession
<1>6. UiTypeOK'
  BY <1>1, <1>2, <1>3, <1>4, <1>5 DEF UiTypeOK
<1>7. ViewIsTrue'
  BY <1>4, <1>5 DEF ViewIsTrue
<1>8. OpeningIsLatest'
  <2>1. activation \in Nat /\ \A o \in openings : o.token \in Nat /\ o.token <= activation
    BY <1>1 DEF UiTypeOK, OpeningIsLatest, UiOpenings
  <2>2. \A o \in openings' : o.token = activation + 1 => o = p
    BY <1>3, <2>1
  <2>3. \A o \in openings' : o.token <= activation + 1
    BY <1>3, <2>1
  <2>4. ASSUME NEW o \in openings', NEW q \in openings', o.token = q.token PROVE o = q
    <3>1. CASE o.token = activation + 1
      BY <2>2, <2>4, <3>1
    <3>2. CASE o.token # activation + 1
      BY <1>1, <1>3, <2>4, <3>2 DEF OpeningIsLatest
    <3> QED BY <3>1, <3>2
  <2> QED BY <1>2, <1>3, <1>4, <2>2, <2>3, <2>4 DEF OpeningIsLatest
<1> QED BY <1>6, <1>7, <1>8, SameTruth, SentIsSame, ReportsAreSame DEF UiInv

\* Activating a workspace, or recovering it, begins an opening.
LEMMA ActivatesKeeps ==
  ASSUME UiInv, RunRecovery \/ \E w \in Views : ActivateWorkspace(w)
  PROVE  UiInv'
<1>1. UiTypeOK /\ RecoveryOK
  BY DEF UiInv, UiTypeOK
<1>2. ASSUME NEW w \in Views, ActivateWorkspace(w) PROVE UiInv'
  <2>1. RecoveryOK'
    BY <1>1, <1>2 DEF ActivateWorkspace, RecoveryOK
  <2> QED BY <1>2, <2>1, OpensKeeps DEF ActivateWorkspace
<1>3. CASE RunRecovery
  <2>1. recovery.target \in Views
    BY <1>1, <1>3 DEF RunRecovery, RecoveryOK
  <2>2. RecoveryOK'
    BY <1>1, <1>3 DEF RunRecovery, RecoveryOK
  <2>3. CASE view.ws = recovery.target /\ activation < MaxActivation
    BY <1>3, <2>1, <2>2, <2>3, OpensKeeps DEF RunRecovery
  <2>4. CASE ~(view.ws = recovery.target /\ activation < MaxActivation)
    <3>1. /\ UNCHANGED <<nativeVars, channel, view, session, answers, activation, openings, start,
                         books>>
      BY <1>3, <2>4 DEF RunRecovery, stores
    <3>2. UNCHANGED <<native, turnLog, numbers, cardLog, events, aside, stale, acceptedTurns,
                      observed, notified, reports>>
      BY <3>1 DEF nativeVars, channel, books
    <3>3. UiTypeOK'
      BY <1>1, <2>2, <3>1, <3>2 DEF UiTypeOK
    <3>4. OpeningIsLatest'
      BY <3>1 DEF UiInv, OpeningIsLatest
    <3> QED BY <3>1, <3>3, <3>4, SameTruth, SentIsSame, ViewIsSame, ReportsAreSame DEF UiInv
  <2> QED BY <2>3, <2>4
<1> QED BY <1>2, <1>3

ViewsOf == [ws : Views \union {NoView}, phase : ViewPhases, connected : BOOLEAN, gen : Nat,
            thread : Views \union {NoView}, turn : UiTurns \union {0}, cards : SUBSET Nat]

\* A window that opens shows nothing.
LEMMA UiBegins == UiInit => UiInv
<1> SUFFICES ASSUME UiInit PROVE UiInv
  OBVIOUS
<1> USE DEF UiInit
<1>1. {} \in SUBSET Nat /\ "idle" \in ViewPhases /\ "idle" \in SessionStates
      /\ 0 \in UiTurns \union {0} /\ 0 \in Nat /\ 1 \in Nat
  BY DEF ViewPhases, SessionStates
<1>2. Blank \in ViewsOf
  BY <1>1 DEF Blank, ViewsOf
<1>3. NoSession \in
        [gen : Nat, last : Nat, st : SessionStates, turn : UiTurns \union {0}, cards : SUBSET Nat]
  BY <1>1 DEF NoSession
<1>4. /\ turnLog \in [UiTurns -> TurnRecords] /\ numbers \in [Views -> Nat]
      /\ reports \in [UiTurns -> {0, 1}]
      /\ native \in [gen : Nat, up : BOOLEAN, ws : Views \union {NoView}, turn : UiTurns \union {0}]
  BY <1>1 DEF TurnRecords
<1>5. events \in Seq(UiEvents) /\ cardLog \in Seq(UiCards) /\ DOMAIN events = {}
  BY EmptySeq
<1>6. RecoveryOK
  BY DEF RecoveryOK
<1>7. UiTypeOK
  BY <1>1, <1>2, <1>3, <1>4, <1>5, <1>6 DEF UiTypeOK, ViewsOf
<1>8. \A t \in UiTurns : turnLog[t].st = "none"
  OBVIOUS
<1>9. TurnsAreTrue
  BY <1>8 DEF TurnsAreTrue
<1>10. SentIsTrue
  BY <1>5 DEF SentIsTrue, NoTurnStart
<1>11. ViewIsTrue
  BY DEF ViewIsTrue, Blank, NoSession
<1>12. OpeningIsLatest
  BY DEF OpeningIsLatest
<1>13. ReportsAreTrue
  <2>1. \A t \in UiTurns : reports[t] = 0
    OBVIOUS
  <2> QED BY <1>8, <2>1 DEF ReportsAreTrue
<1> QED BY <1>7, <1>9, <1>10, <1>11, <1>12, <1>13 DEF UiInv

\* A step that changes nothing but words of the view, an opening that goes on or away, a start
\* that is neither accepted nor waits to be, and what hangs on them.
LEMMA WordsKeep ==
  ASSUME UiInv, UNCHANGED <<nativeVars, channel, session, answers, activation, books>>,
         view' \in ViewsOf, view'.ws = view.ws, view'.thread = view.thread, view'.gen = view.gen,
         view'.turn = view.turn, openings' \subseteq UiOpenings, OpeningIsLatest', RecoveryOK',
         start' = NoTurnStart \/ start' \in UiStarts,
         (start.at # "ok" /\ start'.at # "ok") \/ start' = start
  PROVE  UiInv'
<1>1. UNCHANGED <<native, turnLog, numbers, cardLog, events, aside, acceptedTurns, observed,
                  notified, reports>>
  BY DEF nativeVars, channel, books
<1>2. UiTypeOK'
  BY <1>1 DEF UiInv, UiTypeOK, ViewsOf
<1> QED BY <1>2, SameTruth, SentIsSame, ViewIsSame, ReportsAreSame DEF UiInv

\* An opening that goes on, or ends.
LEMMA OpeningsKeep ==
  ASSUME UiInv, NEW o \in openings, NEW p \in UiOpenings, p.token = o.token, p.ws = o.ws,
         \/ openings' = openings \ {o}
         \/ openings' = (openings \ {o}) \union {p},
         activation' = activation, view'.ws = view.ws, view'.thread = view.thread
  PROVE  openings' \subseteq UiOpenings /\ OpeningIsLatest'
<1>1. openings \subseteq UiOpenings /\ OpeningIsLatest
  BY DEF UiInv, UiTypeOK
<1>2. openings' \subseteq UiOpenings
  BY <1>1
<1> QED BY <1>1, <1>2 DEF OpeningIsLatest

\* The connect before an opening lets only the latest one go on.
LEMMA ConnectedKeeps ==
  ASSUME UiInv, NEW o, Connected(o)
  PROVE  UiInv'
<1>1. UiTypeOK /\ view \in ViewsOf
  BY DEF UiInv, UiTypeOK, ViewsOf
<1>2. /\ o \in openings
      /\ UNCHANGED <<nativeVars, channel, session, claim, answers, activation, start, stopping, books>>
  BY DEF Connected, responses
<1>3. o \in UiOpenings
  BY <1>1, <1>2 DEF UiTypeOK
<1>4. /\ view' \in ViewsOf /\ view'.ws = view.ws /\ view'.thread = view.thread
      /\ view'.gen = view.gen /\ view'.turn = view.turn
  <2>1. \/ view' = view
        \/ view' = [view EXCEPT !.phase = "connecting", !.connected = TRUE]
        \/ view' = [view EXCEPT !.phase = "blocked", !.connected = TRUE]
        \/ view' = [view EXCEPT !.phase = "failed", !.connected = FALSE]
    BY DEF Connected, OperationError
  <2>2. "connecting" \in ViewPhases /\ "blocked" \in ViewPhases /\ "failed" \in ViewPhases
    BY DEF ViewPhases
  <2> QED BY <1>1, <2>1, <2>2, ViewSays DEF ViewsOf
<1>5. PICK p \in UiOpenings : /\ p.token = o.token /\ p.ws = o.ws
                              /\ \/ openings' = openings \ {o}
                                 \/ openings' = (openings \ {o}) \union {p}
  <2> DEFINE p == [o EXCEPT !.at = "asked"]
  <2>1. p \in UiOpenings /\ p.token = o.token /\ p.ws = o.ws
    BY <1>3 DEF UiOpenings
  <2>2. openings' = openings \ {o} \/ openings' = (openings \ {o}) \union {p}
    BY DEF Connected
  <2> QED BY <2>1, <2>2
<1>6. openings' \subseteq UiOpenings /\ OpeningIsLatest'
  BY <1>2, <1>4, <1>5, OpeningsKeep
<1>7. RecoveryOK'
  <2>1. CASE recovery' = recovery
    BY <1>1, <2>1 DEF UiTypeOK, RecoveryOK
  <2>2. CASE ScheduleAfter(o) \/ Settles(o)
    BY <1>3, <2>2, ScheduleAfterKeeps
  <2> QED BY <2>1, <2>2 DEF Connected
<1>8. start' = start /\ (start = NoTurnStart \/ start \in UiStarts)
  BY <1>1, <1>2 DEF UiTypeOK
<1> QED BY <1>2, <1>4, <1>6, <1>7, <1>8, WordsKeep

\* The answer to an opening fills the stores for the latest one only.
LEMMA OpenedKeeps ==
  ASSUME UiInv, NEW o, Opened(o)
  PROVE  UiInv'
<1>1. UiTypeOK /\ view \in ViewsOf /\ OpeningIsLatest /\ ViewIsTrue
  BY DEF UiInv, UiTypeOK, ViewsOf
<1>2. /\ o \in openings /\ openings' = openings \ {o}
      /\ UNCHANGED <<nativeVars, channel, session, claim, answers, activation, start, stopping, books>>
  BY DEF Opened, responses
<1>3. o \in UiOpenings
  BY <1>1, <1>2 DEF UiTypeOK
<1>4. RecoveryOK'
  <2>1. ScheduleAfter(o) \/ Settles(o)
    BY DEF Opened
  <2> QED BY <1>3, <2>1, ScheduleAfterKeeps
<1>5. CASE o.at = "opened" /\ IsLatest(o)
  <2>1. view.ws = o.ws /\ view.thread = NoView /\ \A p \in openings' : p.token # activation
    BY <1>1, <1>2, <1>5 DEF OpeningIsLatest, IsLatest
  <2>2. view' = [view EXCEPT !.gen = o.gen, !.thread = o.ws, !.phase = "ready"]
    BY <1>5 DEF Opened
  <2>3. o.gen \in Nat /\ o.ws \in Views \union {NoView} /\ "ready" \in ViewPhases
    BY <1>3 DEF UiOpenings, ViewPhases
  <2>4. /\ view' \in ViewsOf /\ view'.ws = view.ws /\ view'.thread = view.ws
        /\ view'.turn = view.turn
    BY <1>1, <2>1, <2>2, <2>3 DEF ViewsOf
  <2>5. view.turn = 0 /\ session'.turn = 0 /\ session'.cards = {}
    BY <1>1, <1>2, <2>1 DEF ViewIsTrue
  <2>6. ViewIsTrue'
    <3>1. view'.thread # NoView
      BY <1>3, <2>1, <2>4, UiFacts DEF UiOpenings
    <3> QED BY <2>4, <2>5, <3>1 DEF ViewIsTrue
  <2>7. OpeningIsLatest'
    BY <1>1, <1>2, <2>1 DEF OpeningIsLatest
  <2>8. UNCHANGED <<native, turnLog, numbers, cardLog, events, aside, acceptedTurns, observed,
                    notified, reports>>
    BY <1>2 DEF nativeVars, channel, books
  <2>9. UiTypeOK'
    BY <1>1, <1>2, <1>4, <2>4, <2>8 DEF UiTypeOK, ViewsOf
  <2> QED BY <1>2, <2>6, <2>7, <2>9, SameTruth, SentIsSame, ReportsAreSame DEF UiInv
<1>6. CASE ~(o.at = "opened" /\ IsLatest(o))
  <2>1. /\ view' \in ViewsOf /\ view'.ws = view.ws /\ view'.thread = view.thread
        /\ view'.gen = view.gen /\ view'.turn = view.turn
    <3>1. \/ view' = view
          \/ view' = [view EXCEPT !.phase = "failed"]
          \/ view' = [view EXCEPT !.phase = "failed", !.connected = FALSE]
      BY <1>6 DEF Opened, OperationError
    <3>2. "failed" \in ViewPhases
      BY DEF ViewPhases
    <3> QED BY <1>1, <3>1, <3>2 DEF ViewsOf
  <2>2. openings' \subseteq UiOpenings /\ OpeningIsLatest'
    BY <1>2, <1>3, <2>1, OpeningsKeep
  <2>3. start' = start /\ (start = NoTurnStart \/ start \in UiStarts)
    BY <1>1, <1>2 DEF UiTypeOK
  <2> QED BY <1>2, <1>4, <2>1, <2>2, <2>3, WordsKeep
<1> QED BY <1>5, <1>6

\* A command of the user, or what becomes of one that is not accepted.
LEMMA CommandsKeep ==
  ASSUME UiInv, SendTurn \/ InterruptAnswered \/ NotAccepted \/ StopTurn \/ Stopped
  PROVE  UiInv'
<1>1. UiTypeOK /\ view \in ViewsOf /\ OpeningIsLatest /\ ViewIsTrue
  BY DEF UiInv, UiTypeOK, ViewsOf
<1>2. /\ UNCHANGED <<nativeVars, channel, session, claim, answers, activation, openings, books>>
  BY DEF SendTurn, InterruptAnswered, NotAccepted, StopTurn, Stopped, responses, stores, opening
<1>3. /\ view' \in ViewsOf /\ view'.ws = view.ws /\ view'.thread = view.thread
      /\ view'.gen = view.gen /\ view'.turn = view.turn
  <2>1. \/ view' = view
        \/ view' = [view EXCEPT !.phase = "stopping"]
        \/ view' = [view EXCEPT !.phase = "failed", !.connected = FALSE]
        \/ view' = [view EXCEPT !.phase = "failed", !.connected = TRUE]
    BY DEF SendTurn, InterruptAnswered, NotAccepted, StopTurn, Stopped, OperationError, stores
  <2>2. "failed" \in ViewPhases /\ "stopping" \in ViewPhases
    BY DEF ViewPhases
  <2> QED BY <1>1, <2>1, <2>2 DEF ViewsOf
<1>4. openings' \subseteq UiOpenings /\ OpeningIsLatest'
  BY <1>1, <1>2, <1>3 DEF UiTypeOK, OpeningIsLatest
<1>5. RecoveryOK'
  <2>1. CASE recovery' = recovery
    BY <1>1, <2>1 DEF UiTypeOK, RecoveryOK
  <2>2. CASE NotAccepted /\ Schedules(start.ws)
    <3>1. start.ws \in Views
      BY <1>1, <2>2 DEF NotAccepted, UiTypeOK, UiStarts, NoTurnStart
    <3> QED BY <2>2, <3>1, SchedulesKeeps
  <2> QED BY <2>1, <2>2 DEF SendTurn, InterruptAnswered, NotAccepted, StopTurn, Stopped
<1>6. /\ start' = NoTurnStart \/ start' \in UiStarts
      /\ (start.at # "ok" /\ start'.at # "ok") \/ start' = start
  <2>1. CASE SendTurn
    <3> DEFINE s == [at |-> "sent", token |-> activation, ws |-> view.ws, gen |-> view.gen, turn |-> 0]
    <3>1. start' = s /\ start = NoTurnStart
      BY <2>1 DEF SendTurn
    <3>2. view.ws \in Views
      BY <1>1, <2>1 DEF SendTurn, ViewIsTrue, ViewsOf
    <3>3. activation \in Nat /\ view.gen \in Nat
      BY <1>1 DEF UiTypeOK
    <3>4. s \in UiStarts /\ s.at = "sent"
      BY <3>2, <3>3 DEF UiStarts
    <3> QED BY <3>1, <3>4 DEF NoTurnStart
  <2>2. CASE InterruptAnswered \/ NotAccepted
    <3>1. start' = NoTurnStart /\ start.at \in {"interrupt", "refused", "down"}
      BY <2>2 DEF InterruptAnswered, NotAccepted
    <3>2. NoTurnStart.at = "none"
      BY DEF NoTurnStart
    <3> QED BY <3>1, <3>2
  <2>3. CASE StopTurn \/ Stopped
    BY <1>1, <2>3 DEF StopTurn, Stopped, UiTypeOK
  <2> QED BY <2>1, <2>2, <2>3
<1> QED BY <1>2, <1>3, <1>4, <1>5, <1>6, WordsKeep

\* Responding to a card claims it.
LEMMA RespondKeeps ==
  ASSUME UiInv, NEW c, Respond(c)
  PROVE  UiInv'
<1>1. UiTypeOK /\ ViewIsTrue /\ OpeningIsLatest
  BY DEF UiInv
<1>2. /\ c \in session.cards
      /\ UNCHANGED <<nativeVars, channel, view, session, activation, openings, start, recovery, books>>
  BY DEF Respond, stores, opening
<1>3. UNCHANGED <<native, turnLog, numbers, cardLog, events, aside, acceptedTurns, observed,
                  notified, reports>>
  BY <1>2 DEF nativeVars, channel, books
<1>4. \A a \in answers' : a \in answers \/ a.card = c
  BY DEF Respond
<1>5. c \in DOMAIN cardLog
  BY <1>1, <1>2 DEF ViewIsTrue, CardIs
<1>6. UiTypeOK'
  <2>1. RecoveryOK'
    BY <1>1, <1>2 DEF UiTypeOK, RecoveryOK
  <2>2. \A a \in answers' : a.card \in DOMAIN cardLog
    BY <1>1, <1>4, <1>5 DEF UiTypeOK
  <2> QED BY <1>1, <1>2, <1>3, <2>1, <2>2 DEF UiTypeOK
<1>7. OpeningIsLatest'
  BY <1>1, <1>2 DEF OpeningIsLatest
<1> QED BY <1>2, <1>6, <1>7, SameTruth, SentIsSame, ViewIsSame, ReportsAreSame DEF UiInv

\* The answer to a response ends its own claim only.
LEMMA RespondedKeeps ==
  ASSUME UiInv, NEW a, Responded(a)
  PROVE  UiInv'
<1>1. UiTypeOK /\ ViewIsTrue /\ OpeningIsLatest
  BY DEF UiInv
<1>2. /\ answers' \subseteq answers
      /\ UNCHANGED <<nativeVars, channel, view, activation, openings, start, recovery, books>>
  BY DEF Responded, opening
<1>3. UNCHANGED <<native, turnLog, numbers, cardLog, events, aside, acceptedTurns, observed,
                  notified, reports>>
  BY <1>2 DEF nativeVars, channel, books
<1>4. /\ session' \in
           [gen : Nat, last : Nat, st : SessionStates, turn : UiTurns \union {0}, cards : SUBSET Nat]
      /\ session'.turn = session.turn /\ session'.gen = session.gen
      /\ session'.cards \subseteq session.cards
  <2>1. session \in
          [gen : Nat, last : Nat, st : SessionStates, turn : UiTurns \union {0}, cards : SUBSET Nat]
    BY <1>1 DEF UiTypeOK
  <2>2. session' = session \/ session' = [session EXCEPT !.cards = session.cards \ {a.card}]
    BY DEF Responded
  <2>3. session.cards \ {a.card} \in SUBSET Nat
    BY <2>1
  <2> QED BY <2>1, <2>2, <2>3
<1>5. UiTypeOK'
  <2>1. RecoveryOK'
    BY <1>1, <1>2 DEF UiTypeOK, RecoveryOK
  <2> QED BY <1>1, <1>2, <1>3, <1>4, <2>1 DEF UiTypeOK
<1>6. OpeningIsLatest'
  BY <1>1, <1>2 DEF OpeningIsLatest
<1>7. ViewIsTrue'
  <2>1. /\ \A t, w, g : TurnIs(t, w, g)' <=> TurnIs(t, w, g)
        /\ \A x, w, g : CardIs(x, w, g)' <=> CardIs(x, w, g)
    BY <1>2, SameTruth
  <2>2. view'.turn # 0 => TurnIs(view.turn, view.ws, view.gen)'
    BY <1>1, <1>2, <2>1 DEF ViewIsTrue
  <2>3. session'.turn # 0 => TurnIs(session.turn, view.ws, view.gen)' /\ session'.gen = view'.gen
    BY <1>1, <1>2, <1>4, <2>1 DEF ViewIsTrue
  <2>4. \A x \in session'.cards : CardIs(x, view.ws, view.gen)'
    BY <1>1, <1>2, <1>4, <2>1 DEF ViewIsTrue
  <2>5. session'.cards # {} => session'.gen = view'.gen
    BY <1>1, <1>2, <1>4 DEF ViewIsTrue
  <2>6. view'.thread = NoView =>
          view'.turn = 0 /\ view'.gen = 0 /\ session'.turn = 0 /\ session'.cards = {}
    BY <1>1, <1>2, <1>4 DEF ViewIsTrue
  <2> QED BY <1>1, <1>2, <2>2, <2>3, <2>4, <2>5, <2>6 DEF ViewIsTrue
<1> QED BY <1>2, <1>5, <1>6, <1>7, SameTruth, SentIsSame, ReportsAreSame DEF UiInv

\* The books, when the end of a turn is observed or its acceptance is learned.
BooksOK ==
  /\ acceptedTurns \subseteq UiTurns /\ observed \subseteq UiTurns /\ notified \subseteq UiTurns
  /\ reports \in [UiTurns -> {0, 1}]

\* Noting that a turn was accepted or has ended reports it when both are known, once.
LEMMA BooksKeep ==
  ASSUME UiInv, NEW t \in UiTurns, NEW accepted \in SUBSET UiTurns, NEW watched \in SUBSET UiTurns,
         acceptedTurns \subseteq accepted, accepted \subseteq acceptedTurns \union {t},
         observed \subseteq watched, watched \subseteq observed \union {t},
         ReportTurn(t, accepted, watched), turnLog' = turnLog,
         t \in watched => turnLog[t].st = "ended",
         \A u \in UiTurns : (EndIsComing(u) => EndIsComing(u)' \/ u \in watched)
                         /\ (AnswerIsComing(u) => AnswerIsComing(u)' \/ u \in accepted)
  PROVE  BooksOK' /\ ReportsAreTrue'
<1>1. /\ acceptedTurns \subseteq UiTurns /\ observed \subseteq UiTurns /\ notified \subseteq UiTurns
      /\ reports \in [UiTurns -> {0, 1}] /\ ReportsAreTrue
  BY DEF UiInv, UiTypeOK
<1>2. \A u \in UiTurns :
        /\ reports[u] \in {0, 1}
        /\ reports[u] = 1 <=> u \in notified
        /\ u \in observed \union notified => turnLog[u].st = "ended"
        /\ turnLog[u].st = "ended" => EndIsComing(u) \/ u \in observed \/ u \in notified
        /\ turnLog[u].st # "none" => AnswerIsComing(u) \/ u \in acceptedTurns \/ u \in notified
        /\ ~(u \in acceptedTurns /\ u \in observed /\ u \notin notified)
  BY <1>1 DEF ReportsAreTrue
<1>3. SUFFICES
        /\ BooksOK'
        /\ \A u \in UiTurns :
             /\ reports'[u] = 1 <=> u \in notified'
             /\ u \in observed' \union notified' => turnLog[u].st = "ended"
             /\ EndIsComing(u) \/ u \in observed \/ u \in notified =>
                  EndIsComing(u)' \/ u \in observed' \/ u \in notified'
             /\ AnswerIsComing(u) \/ u \in acceptedTurns \/ u \in notified =>
                  AnswerIsComing(u)' \/ u \in acceptedTurns' \/ u \in notified'
             /\ ~(u \in acceptedTurns' /\ u \in observed' /\ u \notin notified')
  BY <1>2 DEF ReportsAreTrue, EndIsComing, AnswerIsComing
<1>4. CASE t \in notified
  <2>1. acceptedTurns' = accepted /\ observed' = watched \ {t} /\ notified' = notified /\ reports' = reports
    BY <1>4 DEF ReportTurn
  <2> QED BY <1>1, <1>2, <1>4, <2>1 DEF BooksOK
<1>5. CASE t \notin notified /\ t \in accepted /\ t \in watched
  <2>1. /\ acceptedTurns' = accepted \ {t} /\ observed' = watched \ {t}
        /\ notified' = notified \union {t} /\ reports' = [reports EXCEPT ![t] = @ + 1]
    BY <1>5 DEF ReportTurn
  <2>2. reports[t] = 0
    BY <1>2, <1>5
  <2>3. reports'[t] = 1 /\ \A u \in UiTurns : u # t => reports'[u] = reports[u]
    BY <1>1, <2>1, <2>2
  <2>4. reports' \in [UiTurns -> {0, 1}]
    BY <1>1, <2>1, <2>2
  <2> QED BY <1>1, <1>2, <1>5, <2>1, <2>3, <2>4 DEF BooksOK
<1>6. CASE t \notin notified /\ ~(t \in accepted /\ t \in watched)
  <2>1. acceptedTurns' = accepted /\ observed' = watched /\ notified' = notified /\ reports' = reports
    BY <1>6 DEF ReportTurn
  <2> QED BY <1>1, <1>2, <1>6, <2>1 DEF BooksOK
<1> QED BY <1>4, <1>5, <1>6

\* The answer to a start is noted, and sets the view it was made for only.
LEMMA AcceptedKeeps ==
  ASSUME UiInv, Accepted
  PROVE  UiInv'
<1>1. /\ UiTypeOK /\ view \in ViewsOf /\ OpeningIsLatest /\ ViewIsTrue /\ SentIsTrue
      /\ ReportsAreTrue
  BY DEF UiInv, UiTypeOK, ViewsOf
<1>2. /\ start.at = "ok" /\ start'.at # "ok" /\ start \in UiStarts
      /\ UNCHANGED <<nativeVars, channel, session, answers, openings, activation, recovery>>
  <2>1. NoTurnStart.at = "none"
    BY DEF NoTurnStart
  <2>2. start.at = "ok" /\ start \in UiStarts
    BY <1>1, <2>1 DEF Accepted, UiTypeOK
  <2>3. [start EXCEPT !.at = "interrupt"].at = "interrupt"
    BY <2>2 DEF UiStarts
  <2>4. start' = NoTurnStart \/ start' = [start EXCEPT !.at = "interrupt"]
    BY DEF Accepted
  <2>5. UNCHANGED <<nativeVars, channel, session, answers, openings, activation, recovery>>
    BY DEF Accepted, responses, opening
  <2> QED BY <2>1, <2>2, <2>3, <2>4, <2>5
<1>3. UNCHANGED <<native, turnLog, numbers, cardLog, events, aside>>
  BY <1>2 DEF nativeVars, channel
<1>4. TurnIs(start.turn, start.ws, start.gen) /\ start.turn \in UiTurns
  BY <1>1, <1>2 DEF SentIsTrue, TurnIs
<1>5. BooksOK' /\ ReportsAreTrue'
  <2>1. acceptedTurns \union {start.turn} \in SUBSET UiTurns /\ observed \in SUBSET UiTurns
    BY <1>1, <1>4 DEF UiTypeOK
  <2>2. \A u \in UiTurns : /\ EndIsComing(u) => EndIsComing(u)'
                           /\ AnswerIsComing(u) => u \in acceptedTurns \union {start.turn}
    BY <1>3 DEF EndIsComing, AnswerIsComing
  <2>3. start.turn \in observed => turnLog[start.turn].st = "ended"
    BY <1>1, <1>4 DEF ReportsAreTrue
  <2>4. ReportTurn(start.turn, acceptedTurns \union {start.turn}, observed)
    BY DEF Accepted
  <2>5. PICK t \in UiTurns, A \in SUBSET UiTurns : t = start.turn /\ A = acceptedTurns \union {t}
    BY <1>4, <2>1
  <2> QED BY <1>3, <2>1, <2>2, <2>3, <2>4, <2>5, BooksKeep
<1>6. /\ view' \in ViewsOf /\ view'.ws = view.ws /\ view'.thread = view.thread
      /\ view'.gen = view.gen
      /\ view'.turn # view.turn => view'.turn = start.turn /\ view.ws = start.ws /\ view.gen = start.gen
                                   /\ view.thread = view.ws /\ view.ws \in Views
  <2>1. CASE IsCurrent(start)
    <3>1. view' = [view EXCEPT !.turn = start.turn, !.phase = "running"]
      BY <2>1 DEF Accepted
    <3>2. "running" \in ViewPhases
      BY DEF ViewPhases
    <3>3. start.ws \in Views
      BY <1>2 DEF UiStarts
    <3> QED BY <1>1, <1>4, <2>1, <3>1, <3>2, <3>3 DEF ViewsOf, IsCurrent
  <2>2. CASE ~IsCurrent(start)
    BY <1>1, <2>2 DEF Accepted
  <2> QED BY <2>1, <2>2
<1>7. start' = NoTurnStart \/ start' \in UiStarts
  <2>1. start' = NoTurnStart \/ start' = [start EXCEPT !.at = "interrupt"]
    BY DEF Accepted
  <2> QED BY <1>2, <2>1 DEF UiStarts
<1>8. UiTypeOK'
  <2>1. RecoveryOK'
    BY <1>1, <1>2 DEF UiTypeOK, RecoveryOK
  <2> QED BY <1>1, <1>2, <1>3, <1>5, <1>6, <1>7, <2>1 DEF UiTypeOK, ViewsOf, BooksOK
<1>9. OpeningIsLatest'
  BY <1>1, <1>2, <1>6 DEF OpeningIsLatest
<1>10. ViewIsTrue'
  <2>1. /\ \A t, w, g : TurnIs(t, w, g)' <=> TurnIs(t, w, g)
        /\ \A x, w, g : CardIs(x, w, g)' <=> CardIs(x, w, g)
    BY <1>2, SameTruth
  <2>2. CASE view'.turn = view.turn
    BY <1>2, <1>6, <2>2, ViewIsSame
  <2>3. CASE view'.turn # view.turn
    <3>1. view'.turn = start.turn /\ view.ws = start.ws /\ view.gen = start.gen
          /\ view.thread # NoView
      BY <1>6, <2>3, UiFacts
    <3>2. PICK t : t = view'.turn /\ t = start.turn
      BY <3>1
    <3>3. TurnIs(t, view.ws, view.gen)'
      BY <1>4, <1>6, <2>1, <3>1, <3>2
    <3>4. view'.turn # 0 => TurnIs(view.turn, view.ws, view.gen)'
      BY <3>2, <3>3 DEF TurnIs
    <3>5. session'.turn # 0 => TurnIs(session.turn, view.ws, view.gen)' /\ session'.gen = view'.gen
      BY <1>1, <1>2, <1>6, <2>1 DEF ViewIsTrue
    <3>6. \A x \in session'.cards : CardIs(x, view.ws, view.gen)'
      BY <1>1, <1>2, <1>6, <2>1 DEF ViewIsTrue
    <3> QED BY <1>1, <1>2, <1>6, <3>1, <3>4, <3>5, <3>6 DEF ViewIsTrue
  <2> QED BY <2>2, <2>3
<1> QED BY <1>2, <1>5, <1>8, <1>9, <1>10, SameTruth, SentIsSame DEF UiInv

Sessions == [gen : Nat, last : Nat, st : SessionStates, turn : UiTurns \union {0}, cards : SUBSET Nat]

\* What an event that applies makes of the session.
LEMMA ReducedFacts ==
  ASSUME UiInv, NEW e \in UiEvents, EventIsTrue(e), CanApply(e)
  PROVE  /\ Reduced(e) \in Sessions /\ Reduced(e).gen = view.gen
         /\ Reduced(e).turn # 0 => TurnIs(Reduced(e).turn, view.ws, view.gen)
         /\ \A c \in Reduced(e).cards : CardIs(c, view.ws, view.gen)
<1>1. session \in Sessions /\ ViewIsTrue
  BY DEF UiInv, UiTypeOK, Sessions
<1>2. e.gen \in Nat /\ e.n \in Nat /\ e.about \in Nat /\ e.ws = view.ws /\ e.gen = view.gen
  BY DEF UiEvents, CanApply
<1> DEFINE s == [session EXCEPT !.gen = e.gen, !.last = e.n]
<1>3. /\ s \in Sessions /\ s.gen = view.gen /\ s.turn = session.turn /\ s.cards = session.cards
      /\ s.st = session.st
  BY <1>1, <1>2 DEF Sessions
<1>4. /\ s.turn # 0 => TurnIs(s.turn, view.ws, view.gen)
      /\ \A c \in s.cards : CardIs(c, view.ws, view.gen)
  BY <1>1, <1>3 DEF ViewIsTrue
<1>5. /\ e.kind = "running" => Reduced(e) = [s EXCEPT !.turn = e.about, !.st = "running"]
      /\ e.kind = "ended" => Reduced(e) = [s EXCEPT !.turn = e.about, !.st = "ended", !.cards = {}]
      /\ e.kind = "card" => Reduced(e) = [s EXCEPT !.cards = {e.about}]
      /\ e.kind = "resolved" => Reduced(e) = [s EXCEPT !.cards = {}]
      /\ e.kind = "lost" => Reduced(e) = s
  BY DEF Reduced
<1>6. e.kind \in {"running", "ended", "card", "resolved", "lost"}
  BY DEF UiEvents
<1>7. /\ {} \in SUBSET Nat /\ {e.about} \in SUBSET Nat
      /\ "running" \in SessionStates /\ "ended" \in SessionStates
  BY <1>2 DEF SessionStates
<1> HIDE DEF s
<1>8. CASE e.kind \in {"running", "ended"}
  <2>1. TurnIs(e.about, view.ws, view.gen) /\ e.about \in UiTurns
    BY <1>2, <1>8 DEF EventIsTrue, TurnIs
  <2>2. CASE e.kind = "running"
    <3>1. /\ Reduced(e) \in Sessions /\ Reduced(e).gen = s.gen /\ Reduced(e).turn = e.about
          /\ Reduced(e).cards = s.cards
      BY <1>3, <1>5, <1>7, <2>1, <2>2 DEF Sessions
    <3> QED BY <1>3, <1>4, <2>1, <3>1
  <2>3. CASE e.kind = "ended"
    <3>1. /\ Reduced(e) \in Sessions /\ Reduced(e).gen = s.gen /\ Reduced(e).turn = e.about
          /\ Reduced(e).cards = {}
      BY <1>3, <1>5, <1>7, <2>1, <2>3 DEF Sessions
    <3> QED BY <1>3, <2>1, <3>1
  <2> QED BY <1>8, <2>2, <2>3
<1>9. CASE e.kind = "card"
  <2>1. CardIs(e.about, view.ws, view.gen)
    BY <1>2, <1>9 DEF EventIsTrue
  <2>2. /\ Reduced(e) \in Sessions /\ Reduced(e).gen = s.gen /\ Reduced(e).turn = s.turn
        /\ Reduced(e).cards = {e.about}
    BY <1>3, <1>5, <1>7, <1>9 DEF Sessions
  <2> QED BY <1>3, <1>4, <2>1, <2>2
<1>10. CASE e.kind = "resolved"
  <2>1. /\ Reduced(e) \in Sessions /\ Reduced(e).gen = s.gen /\ Reduced(e).turn = s.turn
        /\ Reduced(e).cards = {}
    BY <1>3, <1>5, <1>7, <1>10 DEF Sessions
  <2> QED BY <1>3, <1>4, <2>1
<1>11. CASE e.kind = "lost"
  BY <1>3, <1>4, <1>5, <1>11
<1> QED BY <1>6, <1>8, <1>9, <1>10, <1>11

\* What the view makes of the session.
LEMMA SyncedFacts ==
  ASSUME NEW s \in Sessions, NEW v \in ViewsOf
  PROVE  /\ Synced(s, v) \in ViewsOf /\ Synced(s, v).ws = v.ws /\ Synced(s, v).thread = v.thread
         /\ Synced(s, v).gen = s.gen
         /\ Synced(s, v).turn = IF s.turn # 0 THEN s.turn ELSE v.turn
<1>1. PhaseOf(s, v.phase) \in ViewPhases
  BY DEF PhaseOf, ViewPhases, ViewsOf
<1> DEFINE turn == IF s.turn # 0 THEN s.turn ELSE v.turn
<1>2. turn \in UiTurns \union {0} /\ s.gen \in Nat /\ s.cards \in SUBSET Nat
  BY DEF Sessions, ViewsOf
<1>3. PICK p \in ViewPhases : p = PhaseOf(s, v.phase)
  BY <1>1
<1>4. Synced(s, v) = [v EXCEPT !.phase = p, !.gen = s.gen, !.cards = s.cards, !.turn = turn]
  BY <1>3 DEF Synced
<1> HIDE DEF turn
<1>5. Synced(s, v) \in ViewsOf /\ Synced(s, v).ws = v.ws /\ Synced(s, v).thread = v.thread
      /\ Synced(s, v).gen = s.gen /\ Synced(s, v).turn = turn
  BY <1>2, <1>4 DEF ViewsOf
<1> QED BY <1>5 DEF turn

\* An event is applied to the view of its workspace and generation, or to none.
LEMMA ReceivesKeeps ==
  ASSUME UiInv, NEW e \in UiEvents, Receives(e), EventIsTrue(e),
         events' \in Seq(UiEvents), aside' \subseteq aside,
         \A i \in DOMAIN events' : \E k \in DOMAIN events : events'[i] = events[k],
         \A t \in UiTurns :
           EndIsComing(t) => EndIsComing(t)' \/ (e.kind = "ended" /\ e.about = t)
  PROVE  UiInv'
<1>1. /\ UiTypeOK /\ view \in ViewsOf /\ session \in Sessions /\ OpeningIsLatest /\ ViewIsTrue
      /\ SentIsTrue /\ ReportsAreTrue
  BY DEF UiInv, UiTypeOK, ViewsOf, Sessions
<1>2. UNCHANGED <<nativeVars, native, turnLog, numbers, cardLog, answers, activation, openings, start>>
  BY DEF Receives, nativeVars
<1>3. /\ view' \in ViewsOf /\ session' \in Sessions /\ view'.ws = view.ws
      /\ view'.thread = view.thread /\ RecoveryOK' /\ ViewIsTrue'
  <2>1. CASE Applies(e)
    <3>1. /\ CanApply(e) /\ view.thread # NoView /\ view.ws \in Views
      BY <1>1, <2>1 DEF Applies, CanApply, ViewIsTrue, ViewsOf
    <3>2. /\ Reduced(e) \in Sessions /\ Reduced(e).gen = view.gen
          /\ Reduced(e).turn # 0 => TurnIs(Reduced(e).turn, view.ws, view.gen)
          /\ \A c \in Reduced(e).cards : CardIs(c, view.ws, view.gen)
      BY <3>1, ReducedFacts
    <3>3. session' = Reduced(e)
      BY <2>1 DEF Receives
    <3>4. PICK r \in Sessions : r = Reduced(e)
      BY <3>2
    <3>5. /\ view' \in ViewsOf /\ view'.ws = view.ws /\ view'.thread = view.thread
          /\ view'.gen = r.gen /\ view'.turn = IF r.turn # 0 THEN r.turn ELSE view.turn
      <4>1. CASE e.kind = "lost" /\ recovery.target = view.ws
        <5> DEFINE v == [view EXCEPT !.phase = "failed"]
        <5>1. "failed" \in ViewPhases
          BY DEF ViewPhases
        <5>2. v \in ViewsOf /\ v.ws = view.ws /\ v.thread = view.thread /\ v.turn = view.turn
          BY <1>1, <5>1 DEF ViewsOf
        <5>3. view' = [Synced(r, v) EXCEPT !.connected = FALSE]
          BY <2>1, <3>4, <4>1 DEF Receives
        <5> HIDE DEF v
        <5>4. PICK u \in ViewsOf : /\ u = Synced(r, v) /\ u.ws = v.ws /\ u.thread = v.thread
                                   /\ u.gen = r.gen
                                   /\ u.turn = IF r.turn # 0 THEN r.turn ELSE v.turn
          BY <5>2, SyncedFacts
        <5>5. view' = [u EXCEPT !.connected = FALSE]
          BY <5>3, <5>4
        <5>6. /\ view' \in ViewsOf /\ view'.ws = u.ws /\ view'.thread = u.thread
              /\ view'.gen = u.gen /\ view'.turn = u.turn
          BY <5>5 DEF ViewsOf
        <5> QED BY <5>2, <5>4, <5>6
      <4>2. CASE ~(e.kind = "lost" /\ recovery.target = view.ws)
        <5>1. view' = Synced(r, view)
          BY <2>1, <3>4, <4>2 DEF Receives
        <5> QED BY <1>1, <5>1, SyncedFacts
      <4> QED BY <4>1, <4>2
    <3>6. RecoveryOK'
      <4>1. CASE recovery' = recovery
        BY <1>1, <4>1 DEF UiTypeOK, RecoveryOK
      <4>2. CASE Schedules(view.ws)
        <5>1. PICK w \in Views : w = view.ws
          BY <3>1
        <5> QED BY <4>2, <5>1, SchedulesKeeps
      <4> QED BY <2>1, <4>1, <4>2 DEF Receives
    <3>7. /\ \A t, w, g : TurnIs(t, w, g)' <=> TurnIs(t, w, g)
          /\ \A x, w, g : CardIs(x, w, g)' <=> CardIs(x, w, g)
      BY <1>2, SameTruth
    <3>8. PICK w, g : w = view.ws /\ g = view.gen /\ w = view'.ws /\ g = view'.gen /\ g = session'.gen
      BY <3>2, <3>3, <3>4, <3>5
    <3>9. session'.turn # 0 => TurnIs(session.turn, view.ws, view.gen)'
      <4>1. r.turn # 0 => TurnIs(r.turn, w, g)'
        BY <3>2, <3>4, <3>7, <3>8
      <4> QED BY <3>3, <3>4, <3>8, <4>1 DEF TurnIs
    <3>10. view'.turn # 0 => TurnIs(view.turn, view.ws, view.gen)'
      <4>1. PICK t : t = view'.turn
        OBVIOUS
      <4>2. t # 0 => TurnIs(t, w, g)
        BY <1>1, <3>2, <3>4, <3>5, <3>8, <4>1 DEF ViewIsTrue
      <4>3. t # 0 => TurnIs(t, w, g)'
        BY <3>7, <4>2
      <4> QED BY <3>8, <4>1, <4>3 DEF TurnIs
    <3>11. \A c \in session'.cards : CardIs(c, view.ws, view.gen)'
      <4>1. \A c \in r.cards : CardIs(c, w, g)'
        BY <3>2, <3>4, <3>7, <3>8
      <4> QED BY <3>3, <3>4, <3>8, <4>1 DEF CardIs
    <3>12. view'.thread # NoView /\ view'.thread \in {NoView, view'.ws}
      BY <1>1, <3>1, <3>5 DEF ViewIsTrue
    <3>13. ViewIsTrue'
      BY <3>8, <3>9, <3>10, <3>11, <3>12 DEF ViewIsTrue
    <3> QED BY <3>3, <3>4, <3>5, <3>6, <3>13
  <2>2. CASE ~Applies(e)
    <3>1. UNCHANGED <<session, view, recovery>>
      BY <2>2 DEF Receives
    <3>2. RecoveryOK'
      BY <1>1, <3>1 DEF UiTypeOK, RecoveryOK
    <3> QED BY <1>1, <1>2, <3>1, <3>2, ViewIsSame
  <2> QED BY <2>1, <2>2
<1>4. BooksOK' /\ ReportsAreTrue'
  <2>1. CASE e.kind = "ended"
    <3>1. e.about \in UiTurns /\ turnLog[e.about].st = "ended"
      BY <2>1 DEF EventIsTrue, TurnIs
    <3>2. PICK t \in UiTurns : t = e.about
      BY <3>1
    <3>3. PICK A \in SUBSET UiTurns, S \in SUBSET UiTurns : A = acceptedTurns /\ S = observed \union {t}
      BY <1>1 DEF UiTypeOK
    <3>4. ReportTurn(t, A, S)
      BY <2>1, <3>2, <3>3 DEF Receives
    <3>5. \A u \in UiTurns : /\ EndIsComing(u) => EndIsComing(u)' \/ u \in S
                             /\ AnswerIsComing(u) => AnswerIsComing(u)'
      BY <1>2, <3>2, <3>3 DEF AnswerIsComing
    <3> QED BY <1>2, <3>1, <3>2, <3>3, <3>4, <3>5, BooksKeep
  <2>2. CASE e.kind # "ended"
    <3>1. UNCHANGED <<books, acceptedTurns, observed, notified, reports>>
      BY <2>2 DEF Receives, books
    <3>2. \A t \in UiTurns : EndIsComing(t)' <=> EndIsComing(t)
      BY <2>2 DEF EndIsComing
    <3>3. BooksOK'
      BY <1>1, <3>1 DEF UiTypeOK, BooksOK
    <3> QED BY <1>1, <1>2, <3>1, <3>2, <3>3 DEF ReportsAreTrue, AnswerIsComing
  <2> QED BY <2>1, <2>2
<1>5. UiTypeOK'
  BY <1>1, <1>2, <1>3, <1>4 DEF UiTypeOK, ViewsOf, Sessions, BooksOK
<1>6. OpeningIsLatest'
  BY <1>1, <1>2, <1>3 DEF OpeningIsLatest
<1>7. TurnsAreTrue' /\ TruthGrows
  BY <1>2, SameTruth
<1>8. SentIsTrue'
  BY <1>1, <1>2, <1>7, SentIsKept DEF SentIsTrue
<1> QED BY <1>3, <1>4, <1>5, <1>6, <1>7, <1>8 DEF UiInv

\* The events arrive in their order, or aside from it.
LEMMA DeliverKeeps ==
  ASSUME UiInv, Deliver
  PROVE  UiInv'
<1>1. UiTypeOK /\ SentIsTrue
  BY DEF UiInv
<1>2. CASE events # <<>> /\ events' = Tail(events) /\ Receives(Head(events)) /\ UNCHANGED aside
  <2>1. events \in Seq(UiEvents) /\ Len(events) \in Nat /\ DOMAIN events = 1..Len(events)
    BY <1>1, UiFacts DEF UiTypeOK
  <2>2. /\ Head(events) \in UiEvents /\ events' \in Seq(UiEvents) /\ Len(events) # 0
        /\ Head(events) = events[1] /\ DOMAIN events' = 1..(Len(events) - 1)
        /\ \A i \in 1..(Len(events) - 1) : events'[i] = events[i + 1]
    BY <1>2, <2>1, HeadTailProperties, LenProperties, EmptySeq
  <2>3. \A i \in 1..(Len(events) - 1) : i + 1 \in 1..Len(events)
    BY <2>1
  <2>4. \A k \in 1..Len(events) : k = 1 \/ (k - 1 \in 1..(Len(events) - 1) /\ (k - 1) + 1 = k)
    BY <2>1
  <2>5. PICK e \in UiEvents : e = Head(events)
    BY <2>2
  <2>6. 1 \in DOMAIN events
    BY <2>1, <2>2
  <2>7. EventIsTrue(e)
    BY <1>1, <2>2, <2>5, <2>6 DEF SentIsTrue
  <2>8. \A i \in DOMAIN events' : \E k \in DOMAIN events : events'[i] = events[k]
    BY <2>1, <2>2, <2>3
  <2>9. ASSUME NEW t \in UiTurns, EndIsComing(t)
        PROVE  EndIsComing(t)' \/ (e.kind = "ended" /\ e.about = t)
    <3>1. PICK k \in DOMAIN events : events[k].kind = "ended" /\ events[k].about = t
      BY <2>9 DEF EndIsComing
    <3>2. CASE k = 1
      BY <2>2, <2>5, <3>1, <3>2
    <3>3. CASE k # 1
      <4>1. k - 1 \in DOMAIN events' /\ events'[k - 1] = events[k]
        BY <2>1, <2>2, <2>4, <3>3
      <4> QED BY <3>1, <4>1 DEF EndIsComing
    <3> QED BY <3>2, <3>3
  <2> QED BY <1>2, <2>2, <2>5, <2>7, <2>8, <2>9, ReceivesKeeps
<1>3. CASE \E e \in aside : aside' = aside \ {e} /\ Receives(e) /\ UNCHANGED events
  <2>1. PICK e \in aside : aside' = aside \ {e} /\ Receives(e) /\ UNCHANGED events
    BY <1>3
  <2>2. e \in UiEvents /\ e.kind = "resolved"
    BY <1>1, <2>1 DEF UiTypeOK, SentIsTrue
  <2>3. EventIsTrue(e)
    BY <2>2 DEF EventIsTrue
  <2>4. \A t \in UiTurns : EndIsComing(t) => EndIsComing(t)'
    BY <2>1 DEF EndIsComing
  <2>5. /\ events' \in Seq(UiEvents)
        /\ \A i \in DOMAIN events' : \E k \in DOMAIN events : events'[i] = events[k]
    BY <1>1, <2>1 DEF UiTypeOK
  <2> QED BY <2>1, <2>2, <2>3, <2>4, <2>5, ReceivesKeeps
<1> QED BY <1>2, <1>3 DEF Deliver

\* A step of others changes nothing here.
LEMMA UiStutters ==
  ASSUME UiInv, UNCHANGED uiVars
  PROVE  UiInv'
<1>1. /\ UNCHANGED <<nativeVars, channel, view, session, answers, activation, openings, start,
                     recovery, books>>
      /\ UNCHANGED <<native, turnLog, numbers, cardLog, events, aside, acceptedTurns, observed,
                     notified, reports>>
  BY DEF uiVars, nativeVars, channel, stores, responses, opening, books
<1>2. UiTypeOK'
  <2>1. RecoveryOK'
    BY <1>1 DEF UiInv, UiTypeOK, RecoveryOK
  <2> QED BY <1>1, <2>1 DEF UiInv, UiTypeOK
<1>3. OpeningIsLatest'
  BY <1>1 DEF UiInv, OpeningIsLatest
<1> QED BY <1>1, <1>2, <1>3, SameTruth, SentIsSame, ViewIsSame, ReportsAreSame DEF UiInv

\* Every step keeps the invariant of the window's session.
LEMMA UiKept ==
  ASSUME UiInv, [UiNext]_uiVars
  PROVE  UiInv'
<1>1. CASE NativeStep
  BY <1>1, NativeOpensKeeps, NativeStartsKeeps, NativeAsksKeeps, NativeEndsKeeps,
     NativeReturnsKeeps, NativeLostKeeps, NativeAnswersKeeps DEF NativeStep
<1>2. CASE UserOfView
  BY <1>2, ActivatesKeeps, CommandsKeep, RespondKeeps DEF UserOfView
<1>3. CASE Adapter
  BY <1>3, ActivatesKeeps, AcceptedKeeps, CommandsKeep, ConnectedKeeps, OpenedKeeps,
     RespondedKeeps DEF Adapter
<1>4. CASE Deliver
  BY <1>4, DeliverKeeps
<1>5. CASE UNCHANGED uiVars
  BY <1>5, UiStutters
<1> QED BY <1>1, <1>2, <1>3, <1>4, <1>5 DEF UiNext

\* What the client shows is of one workspace and one generation, and every accepted turn is
\* reported once, when it has ended (CodexWorkspaceSessionStore, CodexSessionStore.apply,
\* emitTerminalWorkUnit).
THEOREM SessionIsSoundHolds == UiSpec => []SessionIsSound
<1>1. ASSUME UiInv PROVE SessionIsSound
  <2>1. UiTypeOK /\ ViewIsTrue /\ ReportsAreTrue
    BY <1>1 DEF UiInv
  <2>2. NothingMixed
    <3>1. view.turn # 0 => turnLog[view.turn].ws = view.ws /\ turnLog[view.turn].gen = view.gen
      BY <2>1 DEF ViewIsTrue, TurnIs
    <3>2. ASSUME NEW c \in session.cards
          PROVE  turnLog[cardLog[c].turn].gen = session.gen /\ cardLog[c].ws = view.ws
      BY <2>1 DEF ViewIsTrue, CardIs
    <3> QED BY <2>1, <3>1, <3>2 DEF NothingMixed, ViewIsTrue
  <2>3. ReportedOnce
    <3> SUFFICES ASSUME NEW t \in UiTurns
                 PROVE  /\ reports[t] <= 1
                        /\ reports[t] = 1 => turnLog[t].st = "ended"
                        /\ turnLog[t].st = "ended" /\ (start.at # "ok" \/ start.turn # t)
                             /\ (\A i \in DOMAIN events :
                                   events[i].kind = "ended" => events[i].about # t)
                           => reports[t] = 1
      BY DEF ReportedOnce
    <3>1. reports[t] \in {0, 1}
      BY <2>1 DEF UiTypeOK
    <3> QED BY <2>1, <3>1 DEF ReportsAreTrue, EndIsComing, AnswerIsComing
  <2> QED BY <2>2, <2>3 DEF SessionIsSound
<1> QED BY <1>1, UiBegins, UiKept, PTL DEF UiSpec

-----------------------------------------------------------------------------
(* Remarks.                                                                *)

\* What a candidate can be about: a turn, or a message of one.
Abouts == 0..MaxTurn \union (PresenceTurns \X Items)
Built == [id : Nat \ {0}, trigger : DOMAIN Rank, about : Abouts, turn : 0..MaxTurn,
          scope : Scopes, era : Nat, canceled : BOOLEAN]

PresenceTypeOK ==
  /\ scope \in Scopes \union {NoScope} /\ era \in Nat /\ closing \in BOOLEAN
  /\ turnsBegun \in 0..MaxTurn /\ turnActive \in 0..turnsBegun /\ candidates \in Nat
  /\ spoken \in Built \union {NoCandidate} /\ slot \in Built \union {NoCandidate}
  /\ messages \in Seq(Built) /\ arriving \subseteq Built /\ published \in Seq(Built)
  /\ worker = "execute" => ~IsNone(spoken)
  /\ ~IsNone(slot) => slot.trigger # "main_message"
  /\ \A i \in 1..Len(messages) : messages[i].trigger = "main_message"

\* A message is of a turn that has begun, noted as seen while the turn is active; a
\* turn that is said to be completed is over.
CandidateIsTrue(c) ==
  /\ c.id <= candidates
  /\ c.trigger = "main_message" =>
       c.turn \in 1..turnsBegun /\ c.about[1] = c.turn /\ (c.turn = turnActive => c.about \in seen)
  /\ c.trigger = "turn_completed" => c.about \in 1..turnsBegun /\ c.about # turnActive
CandidatesAreTrue ==
  /\ ~IsNone(spoken) => CandidateIsTrue(spoken)
  /\ ~IsNone(slot) => CandidateIsTrue(slot)
  /\ \A i \in 1..Len(messages) : CandidateIsTrue(messages[i])
  /\ \A i \in 1..Len(published) : CandidateIsTrue(published[i])
  /\ \A c \in arriving : CandidateIsTrue(c)

\* One event is observed at a time, and before the user answers.
Interleaves(c) == c.trigger \in {"commit_ready", "long_milestone"}
ArrivingIsOne ==
  /\ \A c, d \in arriving : ~Interleaves(c) /\ ~Interleaves(d) => c = d
  /\ \A c \in arriving : c.trigger = "decision_wait" => c.about \notin answered
  /\ \A t \in failed : t \in 1..turnsBegun /\ t # turnActive

\* What waits, and what is spoken unless it is canceled, is current.
RemarkIsCurrent(c) ==
  /\ c.scope = scope /\ c.era = era
  /\ c.trigger = "decision_wait" => c.about \notin answered
  /\ c.trigger = "main_message" => c.turn \notin failed
RemarksAreCurrent ==
  /\ ~IsNone(spoken) /\ ~spoken.canceled => RemarkIsCurrent(spoken)
  /\ ~IsNone(slot) => RemarkIsCurrent(slot)
  /\ \A i \in 1..Len(messages) : RemarkIsCurrent(messages[i])

\* m is another candidate than c and came before; c, a message, is not of a turn that m
\* says is completed.
ComesBefore(m, c) ==
  c.trigger = "main_message" =>
    /\ m.trigger = "main_message" => m.id < c.id /\ m.about # c.about
    /\ m.trigger = "turn_completed" => m.about # c.turn
RemarksAreOrdered ==
  /\ \A i, j \in 1..Len(published) : i < j => ComesBefore(published[i], published[j])
  /\ \A i \in 1..Len(published) :
       /\ ~IsNone(spoken) => ComesBefore(published[i], spoken)
       /\ \A j \in 1..Len(messages) : ComesBefore(published[i], messages[j])
  /\ ~IsNone(spoken) => \A j \in 1..Len(messages) : ComesBefore(spoken, messages[j])
  /\ \A i, j \in 1..Len(messages) : i < j => ComesBefore(messages[i], messages[j])

\* A message that arrives came after those that are there.
Heard(m) == \A c \in arriving : c.trigger = "main_message" /\ m.trigger = "main_message" =>
              m.id < c.id /\ m.about # c.about
ArrivesLast ==
  /\ \A i \in 1..Len(published) : Heard(published[i])
  /\ ~IsNone(spoken) => Heard(spoken)
  /\ \A i \in 1..Len(messages) : Heard(messages[i])

PresenceInv == /\ PresenceTypeOK /\ CandidatesAreTrue /\ ArrivingIsOne
               /\ RemarksAreCurrent /\ RemarksAreOrdered /\ ArrivesLast

\* A candidate that is not none has the fields of one.
LEMMA IsBuilt ==
  ASSUME PresenceTypeOK
  PROVE  /\ ~IsNone(spoken) => spoken \in Built
         /\ ~IsNone(slot) => slot \in Built
         /\ IsNone(spoken) => spoken = NoCandidate
         /\ IsNone(slot) => slot = NoCandidate
         /\ \A i \in 1..Len(messages) : messages[i] \in Built
         /\ \A i \in 1..Len(published) : published[i] \in Built
         /\ Len(messages) \in Nat /\ Len(published) \in Nat
<1>1. NoCandidate.id = 0 /\ \A c \in Built : c.id # 0
  BY DEF NoCandidate, Built
<1> QED BY <1>1, ElementOfSeq, LenProperties DEF PresenceTypeOK, IsNone

\* Steps that at most drop what waits and mark what is spoken.
PresenceDrops ==
  /\ spoken' = spoken \/ (~IsNone(spoken) /\ spoken' = [spoken EXCEPT !.canceled = TRUE])
  /\ slot' \in {slot, NoCandidate}
  /\ messages' = messages \/ messages' = <<>>
  /\ UNCHANGED published

\* What is spoken stays the same but for its mark.
LEMMA SpokenStays ==
  ASSUME PresenceTypeOK, PresenceDrops
  PROVE  /\ spoken' \in Built \union {NoCandidate} /\ (IsNone(spoken)' <=> IsNone(spoken))
         /\ ~IsNone(spoken) => /\ spoken'.id = spoken.id /\ spoken'.trigger = spoken.trigger
                               /\ spoken'.about = spoken.about /\ spoken'.turn = spoken.turn
                               /\ ~spoken'.canceled => spoken' = spoken
<1>1. CASE spoken' = spoken
  BY <1>1 DEF PresenceTypeOK, IsNone
<1>2. CASE ~IsNone(spoken) /\ spoken' = [spoken EXCEPT !.canceled = TRUE]
  <2>1. spoken \in Built
    BY <1>2, IsBuilt
  <2> QED BY <1>2, <2>1 DEF Built, IsNone
<1> QED BY <1>1, <1>2 DEF PresenceDrops

\* The types of what is spoken and of what waits.
LEMMA DropsType ==
  ASSUME PresenceTypeOK, PresenceDrops
  PROVE  /\ spoken' \in Built \union {NoCandidate} /\ slot' \in Built \union {NoCandidate}
         /\ messages' \in Seq(Built) /\ published' \in Seq(Built)
         /\ worker' \in {worker, "wait", "pick"} => (worker' = "execute" => ~IsNone(spoken)')
         /\ ~IsNone(slot)' => slot' = slot /\ slot.trigger # "main_message"
         /\ \A i \in 1..Len(messages') :
              i \in 1..Len(messages) /\ messages'[i] = messages[i] /\ messages'[i].trigger = "main_message"
<1>1. <<>> \in Seq(Built) /\ Len(<<>>) = 0
  OBVIOUS
<1>2. messages' \in Seq(Built) /\ \A i \in 1..Len(messages') : i \in 1..Len(messages) /\ messages'[i] = messages[i]
  <2>1. CASE messages' = messages
    BY <2>1 DEF PresenceTypeOK
  <2>2. CASE messages' = <<>>
    BY <1>1, <2>2
  <2> QED BY <2>1, <2>2 DEF PresenceDrops
<1>3. NoCandidate.id = 0
  BY DEF NoCandidate
<1> QED BY <1>2, <1>3, SpokenStays DEF PresenceTypeOK, PresenceDrops, IsNone

\* What is true of a candidate stays so while turns begin and end.
LEMMA TrueStays ==
  ASSUME PresenceTypeOK, PresenceTypeOK', candidates' >= candidates, turnsBegun' >= turnsBegun,
         turnActive' \in {0, turnActive} \/ turnActive' > turnsBegun,
         turnActive' = turnActive /\ turnActive # 0 => seen \subseteq seen',
         NEW c \in Built, CandidateIsTrue(c)
  PROVE  CandidateIsTrue(c)'
<1>1. /\ candidates \in Nat /\ candidates' \in Nat /\ turnsBegun \in Nat /\ turnsBegun' \in Nat
      /\ turnActive \in Nat /\ turnActive' \in Nat /\ c.id \in Nat
  BY DEF PresenceTypeOK, Built
<1> QED BY <1>1 DEF CandidateIsTrue

\* CandidatesAreTrue survives a step that drops, and may build a candidate that is true.
LEMMA DropsTrue ==
  ASSUME PresenceTypeOK, PresenceTypeOK', CandidatesAreTrue, PresenceDrops,
         candidates' >= candidates, turnsBegun' >= turnsBegun,
         turnActive' \in {0, turnActive} \/ turnActive' > turnsBegun,
         turnActive' = turnActive /\ turnActive # 0 => seen \subseteq seen',
         \A c \in arriving' : c \in arriving \/ CandidateIsTrue(c)'
  PROVE  CandidatesAreTrue'
<1>1. \A c \in Built : CandidateIsTrue(c) => CandidateIsTrue(c)'
  BY TrueStays
<1>2. ASSUME ~IsNone(spoken)' PROVE CandidateIsTrue(spoken)'
  <2>1. PICK s : s = spoken
    OBVIOUS
  <2>2. s \in Built /\ CandidateIsTrue(s)'
    BY <1>1, <1>2, <2>1, SpokenStays, IsBuilt DEF CandidatesAreTrue
  <2> QED BY <1>2, <2>1, <2>2, SpokenStays DEF CandidateIsTrue
<1>3. ASSUME ~IsNone(slot)' PROVE CandidateIsTrue(slot)'
  <2>1. PICK s : s = slot
    OBVIOUS
  <2>2. slot' = slot /\ ~IsNone(slot)
    BY <1>3, DropsType DEF IsNone
  <2>3. CandidateIsTrue(s)'
    BY <1>1, <2>1, <2>2, IsBuilt DEF CandidatesAreTrue
  <2> QED BY <2>1, <2>2, <2>3 DEF CandidateIsTrue
<1>4. ASSUME NEW i \in 1..Len(messages') PROVE CandidateIsTrue(messages[i])'
  <2>1. PICK s : s = messages[i]
    OBVIOUS
  <2>2. messages'[i] = s /\ CandidateIsTrue(s)'
    BY <1>1, <2>1, DropsType, IsBuilt DEF CandidatesAreTrue
  <2> QED BY <2>2 DEF CandidateIsTrue
<1>5. ASSUME NEW i \in 1..Len(published') PROVE CandidateIsTrue(published[i])'
  <2>1. PICK s : s = published[i]
    OBVIOUS
  <2>2. published'[i] = s /\ CandidateIsTrue(s)'
    BY <1>1, <2>1, IsBuilt DEF CandidatesAreTrue, PresenceDrops
  <2> QED BY <2>2 DEF CandidateIsTrue
<1>6. ASSUME NEW c \in arriving' PROVE CandidateIsTrue(c)'
  BY <1>1, <1>6 DEF CandidatesAreTrue, PresenceTypeOK
<1> QED BY <1>2, <1>3, <1>4, <1>5, <1>6 DEF CandidatesAreTrue

\* RemarksAreOrdered survives a step that drops.
LEMMA DropsOrder ==
  ASSUME PresenceTypeOK, RemarksAreOrdered, PresenceDrops
  PROVE  RemarksAreOrdered'
<1>1. published' = published /\ \A i \in 1..Len(messages') : i \in 1..Len(messages) /\ messages'[i] = messages[i]
  BY DropsType DEF PresenceDrops
<1>2. \A i, j \in 1..Len(published') : i < j => ComesBefore(published[i], published[j])'
  BY <1>1 DEF RemarksAreOrdered, ComesBefore
<1>3. ASSUME NEW i \in 1..Len(published') PROVE ~IsNone(spoken)' => ComesBefore(published[i], spoken)'
  BY <1>1, SpokenStays DEF RemarksAreOrdered, ComesBefore
<1>4. ASSUME NEW i \in 1..Len(published'), NEW j \in 1..Len(messages')
      PROVE  ComesBefore(published[i], messages[j])'
  BY <1>1 DEF RemarksAreOrdered, ComesBefore
<1>5. ASSUME ~IsNone(spoken)', NEW j \in 1..Len(messages') PROVE ComesBefore(spoken, messages[j])'
  BY <1>1, <1>5, SpokenStays DEF RemarksAreOrdered, ComesBefore
<1>6. ASSUME NEW i \in 1..Len(messages'), NEW j \in 1..Len(messages'), i < j
      PROVE  ComesBefore(messages[i], messages[j])'
  BY <1>1, <1>6 DEF RemarksAreOrdered, ComesBefore
<1> QED BY <1>2, <1>3, <1>4, <1>5, <1>6 DEF RemarksAreOrdered

\* ArrivesLast survives a step that drops and builds no message, or one that came after.
LEMMA DropsHeard ==
  ASSUME PresenceTypeOK, ArrivesLast, PresenceDrops,
         \A c \in arriving' : c \in arriving \/ c.trigger # "main_message" \/
           \A m \in Built : CandidateIsTrue(m) /\ m.trigger = "main_message" => m.id < c.id /\ m.about # c.about,
         CandidatesAreTrue
  PROVE  ArrivesLast'
<1>1. published' = published /\ \A i \in 1..Len(messages') : i \in 1..Len(messages) /\ messages'[i] = messages[i]
  BY DropsType DEF PresenceDrops
<1>2. ASSUME NEW m \in Built, Heard(m), CandidateIsTrue(m), NEW n, n.id = m.id, n.trigger = m.trigger,
             n.about = m.about
      PROVE  Heard(n)'
  BY <1>2 DEF Heard
<1>3. ASSUME NEW i \in 1..Len(published') PROVE Heard(published[i])'
  <2>1. PICK m : m = published[i]
    OBVIOUS
  <2>2. Heard(m)'
    BY <1>1, <1>2, <2>1, IsBuilt DEF ArrivesLast, CandidatesAreTrue
  <2> QED BY <1>1, <2>1, <2>2 DEF Heard
<1>4. ASSUME ~IsNone(spoken)' PROVE Heard(spoken)'
  <2>1. PICK m : m = spoken
    OBVIOUS
  <2>2. Heard(m)'
    BY <1>2, <1>4, <2>1, IsBuilt, SpokenStays DEF ArrivesLast, CandidatesAreTrue
  <2> QED BY <1>4, <2>1, <2>2, SpokenStays DEF Heard
<1>5. ASSUME NEW i \in 1..Len(messages') PROVE Heard(messages[i])'
  <2>1. PICK m : m = messages[i]
    OBVIOUS
  <2>2. Heard(m)'
    BY <1>1, <1>2, <2>1, IsBuilt DEF ArrivesLast, CandidatesAreTrue
  <2> QED BY <1>1, <2>1, <2>2 DEF Heard
<1> QED BY <1>3, <1>4, <1>5 DEF ArrivesLast

\* RemarksAreCurrent survives a step that drops, if what is left stays current.
LEMMA DropsCurrent ==
  ASSUME PresenceTypeOK, RemarksAreCurrent, PresenceDrops,
         \A c \in Built :
           /\ RemarkIsCurrent(c)
           /\ \/ c = spoken /\ spoken' = spoken /\ ~spoken.canceled
              \/ c = slot /\ slot' = slot
              \/ messages' = messages /\ c.trigger = "main_message"
           => RemarkIsCurrent(c)'
  PROVE  RemarksAreCurrent'
<1>1. ASSUME ~IsNone(spoken)', ~spoken'.canceled PROVE RemarkIsCurrent(spoken)'
  <2>1. PICK c : c = spoken
    OBVIOUS
  <2>2. spoken' = spoken /\ ~spoken.canceled /\ ~IsNone(spoken)
    BY <1>1, SpokenStays
  <2>3. RemarkIsCurrent(c)'
    BY <2>1, <2>2, IsBuilt DEF RemarksAreCurrent
  <2> QED BY <2>1, <2>2, <2>3 DEF RemarkIsCurrent
<1>2. ASSUME ~IsNone(slot)' PROVE RemarkIsCurrent(slot)'
  <2>1. PICK c : c = slot
    OBVIOUS
  <2>2. slot' = slot /\ ~IsNone(slot)
    BY <1>2, DropsType DEF IsNone
  <2>3. RemarkIsCurrent(c)'
    BY <2>1, <2>2, IsBuilt DEF RemarksAreCurrent
  <2> QED BY <2>1, <2>2, <2>3 DEF RemarkIsCurrent
<1>3. ASSUME NEW i \in 1..Len(messages') PROVE RemarkIsCurrent(messages[i])'
  <2>1. PICK c : c = messages[i]
    OBVIOUS
  <2>2. messages' = messages /\ c \in Built /\ c.trigger = "main_message"
    BY <2>1, DropsType, IsBuilt DEF PresenceDrops, PresenceTypeOK
  <2>3. RemarkIsCurrent(c)'
    BY <2>1, <2>2 DEF RemarksAreCurrent
  <2> QED BY <2>1, <2>2, <2>3 DEF RemarkIsCurrent
<1> QED BY <1>1, <1>2, <1>3 DEF RemarksAreCurrent

\* A step that drops only changes the scope, a turn, or what is seen or answered.
LEMMA PresenceQuiet ==
  ASSUME PresenceInv, PresenceTypeOK', PresenceDrops, UNCHANGED <<arriving, candidates>>,
         turnsBegun' >= turnsBegun, turnActive' \in {0, turnActive} \/ turnActive' > turnsBegun,
         turnActive' = turnActive /\ turnActive # 0 => seen \subseteq seen'
  PROVE  CandidatesAreTrue' /\ RemarksAreOrdered' /\ ArrivesLast'
BY DropsTrue, DropsOrder, DropsHeard DEF PresenceInv, PresenceTypeOK, CandidatesAreTrue

\* PresenceInv survives a change of scope and the shutdown, which drop all.
LEMMA PresenceLeaves ==
  ASSUME PresenceInv, (\E s \in Scopes \union {NoScope} : SetScope(s)) \/ CloseDirector
  PROVE  PresenceInv'
<1> USE DEF presenceScope, presenceTurn, presenceQueues, building, presencePast
<1>1. DropAll /\ UNCHANGED <<turnsBegun, arriving, candidates, failed, answered, published, worker>>
  BY DEF SetScope, CloseDirector
<1>2. era' \in Nat /\ scope' \in Scopes \union {NoScope} /\ closing' \in BOOLEAN
  <2>1. era \in Nat /\ closing \in BOOLEAN
    BY DEF PresenceInv, PresenceTypeOK
  <2>2. ASSUME NEW s \in Scopes \union {NoScope}, SetScope(s)
        PROVE  era' = era + 1 /\ scope' = s /\ closing' = closing
    BY <2>2 DEF SetScope
  <2>3. CASE CloseDirector
    BY <2>1, <2>3 DEF CloseDirector
  <2> QED BY <2>1, <2>2, <2>3
<1>3. PresenceDrops /\ turnActive' = 0 /\ messages' = <<>> /\ slot' = NoCandidate
  BY <1>1 DEF DropAll, CancelSpoken, PresenceDrops
<1>4. ~IsNone(spoken)' => spoken'.canceled
  <2>1. CASE IsNone(spoken)
    BY <1>1, <2>1 DEF DropAll, CancelSpoken
  <2>2. CASE ~IsNone(spoken)
    BY <1>1, <2>2, IsBuilt DEF DropAll, CancelSpoken, Built, PresenceInv
  <2> QED BY <2>1, <2>2
<1>5. PresenceTypeOK'
  BY <1>1, <1>2, <1>3, DropsType DEF PresenceInv, PresenceTypeOK
<1>6. CandidatesAreTrue' /\ RemarksAreOrdered' /\ ArrivesLast'
  BY <1>1, <1>3, <1>5, PresenceQuiet DEF PresenceInv, PresenceTypeOK
<1>7. RemarksAreCurrent'
  <2>1. IsNone(slot)' /\ Len(messages') = 0
    BY <1>3 DEF IsNone, NoCandidate
  <2> QED BY <1>4, <2>1 DEF RemarksAreCurrent
<1>8. ArrivingIsOne'
  <2>1. \A t \in failed : t # 0
    BY DEF PresenceInv, ArrivingIsOne, PresenceTypeOK
  <2> QED BY <1>1, <1>3, <2>1 DEF PresenceInv, ArrivingIsOne
<1> QED BY <1>5, <1>6, <1>7, <1>8 DEF PresenceInv

\* PresenceInv survives the start of a turn.
LEMMA PresenceStarts == ASSUME PresenceInv, StartTurn PROVE PresenceInv'
<1> USE DEF presenceScope, presenceTurn, presenceQueues, building, presencePast
<1>1. /\ UNCHANGED <<scope, era, closing, arriving, candidates, failed, answered, published, seen, worker>>
      /\ turnsBegun' = turnsBegun + 1 /\ turnActive' = turnsBegun + 1 /\ turnsBegun < MaxTurn
      /\ messages' = <<>>
  BY DEF StartTurn
<1>2. PresenceDrops
  BY DEF StartTurn, CancelSpoken, PresenceDrops
<1>3. turnsBegun \in Nat /\ turnActive \in 0..turnsBegun /\ MaxTurn \in Nat
  BY PresenceAssumption DEF PresenceInv, PresenceTypeOK
<1>4. PresenceTypeOK'
  BY <1>1, <1>2, <1>3, DropsType DEF PresenceInv, PresenceTypeOK
<1>5. CandidatesAreTrue' /\ RemarksAreOrdered' /\ ArrivesLast'
  BY <1>1, <1>2, <1>3, <1>4, PresenceQuiet
<1>6. RemarksAreCurrent'
  BY <1>1, <1>2, DropsCurrent DEF PresenceInv, RemarkIsCurrent
<1>7. ArrivingIsOne'
  <2>1. \A t \in 1..turnsBegun : t # turnsBegun + 1 /\ t \in 1..(turnsBegun + 1)
    BY <1>3
  <2> QED BY <1>1, <2>1 DEF PresenceInv, ArrivingIsOne
<1> QED BY <1>4, <1>5, <1>6, <1>7 DEF PresenceInv

\* PresenceInv survives the answer to a decision: what was to say it waits is dropped.
LEMMA PresenceAnswered ==
  ASSUME PresenceInv, NEW t \in PresenceTurns, ResolveDecision(t)
  PROVE  PresenceInv'
<1> USE DEF presenceScope, presenceTurn, presenceQueues, building, presencePast
<1>1. /\ UNCHANGED <<scope, era, closing, turnActive, turnsBegun, arriving, candidates, messages, failed,
                     published, seen, worker>>
      /\ answered' = answered \union {t} /\ ~Observing
      /\ slot' = IF ~IsNone(slot) /\ slot.trigger = "decision_wait" /\ slot.about = t
                 THEN NoCandidate ELSE slot
      /\ CancelSpoken(spoken.trigger = "decision_wait" /\ spoken.about = t)
  BY DEF ResolveDecision
<1>2. PresenceDrops
  BY <1>1 DEF CancelSpoken, PresenceDrops
<1>3. turnsBegun \in Nat /\ turnActive \in 0..turnsBegun
  BY DEF PresenceInv, PresenceTypeOK
<1>4. PresenceTypeOK'
  BY <1>1, <1>2, DropsType DEF PresenceInv, PresenceTypeOK
<1>5. CandidatesAreTrue' /\ RemarksAreOrdered' /\ ArrivesLast'
  BY <1>1, <1>2, <1>3, <1>4, PresenceQuiet
<1>6. RemarksAreCurrent'
  <2>1. ASSUME NEW c \in Built, RemarkIsCurrent(c), c = spoken, spoken' = spoken, ~spoken.canceled
        PROVE  ~(c.trigger = "decision_wait" /\ c.about = t)
    <3>1. spoken \in Built /\ ~IsNone(spoken)
      BY <2>1 DEF Built, IsNone
    <3> QED BY <1>1, <2>1, <3>1 DEF CancelSpoken, Built
  <2>2. ASSUME NEW c \in Built, RemarkIsCurrent(c), c = slot, slot' = slot
        PROVE  ~(c.trigger = "decision_wait" /\ c.about = t)
    <3>1. ~IsNone(slot) /\ slot # NoCandidate
      BY <2>2 DEF Built, IsNone, NoCandidate
    <3> QED BY <1>1, <2>2, <3>1
  <2>3. ASSUME NEW c \in Built, RemarkIsCurrent(c), ~(c.trigger = "decision_wait" /\ c.about = t)
        PROVE  RemarkIsCurrent(c)'
    BY <1>1, <2>3 DEF RemarkIsCurrent
  <2> QED BY <1>2, <2>1, <2>2, <2>3, DropsCurrent DEF PresenceInv
<1>7. ArrivingIsOne'
  <2>1. \A c \in arriving : c.trigger # "decision_wait"
    BY <1>1 DEF Observing
  <2> QED BY <1>1, <2>1 DEF PresenceInv, ArrivingIsOne
<1> QED BY <1>4, <1>5, <1>6, <1>7 DEF PresenceInv

\* The candidate that is built.
LEMMA BuiltIs ==
  ASSUME PresenceTypeOK, NEW trigger \in DOMAIN Rank, NEW about \in Abouts, NEW turn \in 0..MaxTurn,
         Builds(trigger, about, turn)
  PROVE  \E n \in Built : /\ n.id = candidates + 1 /\ n.trigger = trigger /\ n.about = about /\ n.turn = turn
                          /\ arriving' = arriving \union {n} /\ candidates' = candidates + 1
                          /\ candidates' \in Nat
<1> DEFINE n == Candidate(trigger, about, turn)
<1>1. scope \in Scopes /\ candidates \in Nat /\ candidates + 1 \in Nat \ {0}
  BY DEF PresenceTypeOK, Builds
<1>2. n \in Built
  BY <1>1 DEF Candidate, Built
<1>3. n.id = candidates + 1 /\ n.trigger = trigger /\ n.about = about /\ n.turn = turn
  BY DEF Candidate
<1>4. arriving' = arriving \union {n} /\ candidates' = candidates + 1
  BY DEF Builds
<1> HIDE DEF n
<1> QED BY <1>1, <1>2, <1>3, <1>4

\* PresenceInv survives a step that drops or builds: the candidate that is built is true,
\* comes alone if it is of an event, and after the messages that are there.
LEMMA PresenceBuilds ==
  ASSUME PresenceInv, PresenceTypeOK', PresenceDrops, RemarksAreCurrent',
         UNCHANGED <<turnsBegun, answered>>, turnActive' \in {0, turnActive},
         turnActive' = turnActive /\ turnActive # 0 => seen \subseteq seen',
         \A t \in failed' : t \in 1..turnsBegun /\ t # turnActive',
         NEW n \in Built, n.id = candidates + 1, arriving' = arriving \union {n}, candidates' = candidates + 1,
         ~Interleaves(n) => ~Observing,
         n.trigger = "decision_wait" => n.about \notin answered,
         CandidateIsTrue(n)',
         n.trigger = "main_message" =>
           \A m \in Built : CandidateIsTrue(m) /\ m.trigger = "main_message" => m.about # n.about
  PROVE  PresenceInv'
<1>1. candidates \in Nat /\ turnsBegun \in Nat /\ \A m \in Built : m.id \in Nat
  BY DEF PresenceInv, PresenceTypeOK, Built
<1>2. CandidatesAreTrue'
  BY <1>1, DropsTrue DEF PresenceInv
<1>3. RemarksAreOrdered'
  BY DropsOrder DEF PresenceInv
<1>4. ArrivesLast'
  <2>1. \A m \in Built : CandidateIsTrue(m) => m.id < candidates + 1
    BY <1>1 DEF CandidateIsTrue
  <2> QED BY <2>1, DropsHeard DEF PresenceInv
<1>5. ArrivingIsOne'
  <2>1. \A c \in arriving : ~Interleaves(n) => Interleaves(c)
    BY DEF Observing, Interleaves
  <2>2. \A c, d \in arriving' : ~Interleaves(c) /\ ~Interleaves(d) => c = d
    BY <2>1 DEF PresenceInv, ArrivingIsOne
  <2> QED BY <2>2 DEF PresenceInv, ArrivingIsOne
<1> QED BY <1>2, <1>3, <1>4, <1>5 DEF PresenceInv

\* A candidate with these values, and what PresenceBuilds asks of its trigger.
LEMMA KindsOfTriggers ==
  /\ "main_message" \in DOMAIN Rank /\ "turn_completed" \in DOMAIN Rank /\ "terminal_failure" \in DOMAIN Rank
  /\ "decision_wait" \in DOMAIN Rank /\ "recoverable_failure" \in DOMAIN Rank
  /\ "commit_ready" \in DOMAIN Rank /\ "long_milestone" \in DOMAIN Rank
  /\ \A t \in 0..MaxTurn : t \in Abouts
  /\ \A t \in PresenceTurns, i \in Items : <<t, i>> \in Abouts
BY DEF Rank, Abouts

\* A candidate other than a message or a completion has nothing that can become false.
LEMMA OtherIsTrue ==
  ASSUME NEW c, c.id <= candidates, c.trigger # "main_message", c.trigger # "turn_completed"
  PROVE  CandidateIsTrue(c)
BY DEF CandidateIsTrue

\* PresenceInv survives the arrival of a message.
LEMMA PresenceHears == ASSUME PresenceInv, NEW i \in Items, ObserveMessage(i) PROVE PresenceInv'
<1> USE DEF presenceScope, presenceTurn, presenceQueues, building, presencePast
<1>1. /\ UNCHANGED <<scope, era, closing, turnActive, turnsBegun, slot, messages, failed, answered,
                     published, spoken, worker>>
      /\ ~Observing /\ turnActive # 0 /\ <<turnActive, i>> \notin seen
      /\ seen' = seen \union {<<turnActive, i>>}
      /\ Builds("main_message", <<turnActive, i>>, turnActive)
  BY DEF ObserveMessage
<1>2. /\ PresenceTypeOK /\ turnsBegun \in 0..MaxTurn /\ turnActive \in 0..turnsBegun /\ candidates \in Nat
      /\ MaxTurn \in Nat
  BY PresenceAssumption DEF PresenceInv, PresenceTypeOK
<1>3. turnActive \in PresenceTurns /\ turnActive \in 1..turnsBegun /\ turnActive \in 0..MaxTurn
  BY <1>1, <1>2 DEF PresenceTurns
<1>4. PICK n \in Built : /\ n.id = candidates + 1 /\ n.trigger = "main_message"
                         /\ n.about = <<turnActive, i>> /\ n.turn = turnActive
                         /\ arriving' = arriving \union {n} /\ candidates' = candidates + 1
                         /\ candidates' \in Nat
  BY <1>1, <1>2, <1>3, BuiltIs, KindsOfTriggers
<1>5. PresenceDrops /\ RemarksAreCurrent' /\ PresenceTypeOK'
  <2>1. PresenceDrops
    BY <1>1 DEF PresenceDrops
  <2>2. RemarksAreCurrent'
    BY <1>1 DEF PresenceInv, RemarksAreCurrent, RemarkIsCurrent
  <2> QED BY <1>1, <1>2, <1>4, <2>1, <2>2 DEF PresenceTypeOK
<1>6. CandidateIsTrue(n)'
  <2>1. n.about[1] = n.turn
    BY <1>4
  <2> QED BY <1>1, <1>2, <1>3, <1>4, <2>1 DEF CandidateIsTrue
<1>7. ASSUME NEW m \in Built, CandidateIsTrue(m), m.trigger = "main_message" PROVE m.about # n.about
  <2>1. SUFFICES ASSUME m.about = <<turnActive, i>> PROVE FALSE
    BY <1>4
  <2>2. m.about[1] = turnActive
    BY <2>1
  <2> QED BY <1>1, <1>7, <2>1, <2>2 DEF CandidateIsTrue
<1>8. /\ ~Interleaves(n) => ~Observing
      /\ n.trigger = "decision_wait" => n.about \notin answered
      /\ \A t \in failed' : t \in 1..turnsBegun /\ t # turnActive'
  BY <1>1, <1>4 DEF PresenceInv, ArrivingIsOne
<1> QED BY <1>1, <1>4, <1>5, <1>6, <1>7, <1>8, PresenceBuilds

\* PresenceInv survives the other candidates of a running session.
LEMMA PresenceObserves == ASSUME PresenceInv, ObserveEvent \/ Elsewhere PROVE PresenceInv'
<1> USE DEF presenceScope, presenceTurn, presenceQueues, building, presencePast
<1>1. UNCHANGED <<scope, era, closing, turnActive, turnsBegun, slot, messages, failed, answered,
                  published, spoken, seen, worker>>
  BY DEF ObserveEvent, Elsewhere
<1>2. /\ PresenceTypeOK /\ turnsBegun \in 0..MaxTurn /\ turnActive \in 0..turnsBegun /\ candidates \in Nat
      /\ MaxTurn \in Nat
  BY PresenceAssumption DEF PresenceInv, PresenceTypeOK
<1>3. turnActive \in 0..MaxTurn /\ turnActive \in Abouts /\ 0 \in Abouts
  BY <1>2, KindsOfTriggers
<1>4. \E n \in Built : /\ n.id = candidates + 1 /\ n.trigger \notin {"main_message", "turn_completed"}
                       /\ arriving' = arriving \union {n} /\ candidates' = candidates + 1
                       /\ candidates' \in Nat
                       /\ n.trigger = "decision_wait" => n.about \notin answered
                       /\ ~Interleaves(n) => ~Observing
  <2>1. CASE turnActive \notin answered /\ Builds("decision_wait", turnActive, turnActive) /\ ~Observing
    BY <1>2, <1>3, <2>1, BuiltIs, KindsOfTriggers
  <2>2. CASE Builds("recoverable_failure", 0, turnActive) /\ ~Observing
    BY <1>2, <1>3, <2>2, BuiltIs, KindsOfTriggers
  <2>3. CASE Builds("commit_ready", 0, turnActive)
    BY <1>2, <1>3, <2>3, BuiltIs, KindsOfTriggers DEF Interleaves
  <2>4. CASE Builds("long_milestone", turnActive, turnActive)
    BY <1>2, <1>3, <2>4, BuiltIs, KindsOfTriggers DEF Interleaves
  <2> QED BY <2>1, <2>2, <2>3, <2>4 DEF ObserveEvent, Elsewhere
<1>5. PICK n \in Built : /\ n.id = candidates + 1 /\ n.trigger \notin {"main_message", "turn_completed"}
                         /\ arriving' = arriving \union {n} /\ candidates' = candidates + 1
                         /\ candidates' \in Nat
                         /\ n.trigger = "decision_wait" => n.about \notin answered
                         /\ ~Interleaves(n) => ~Observing
  BY <1>4
<1>6. PresenceDrops /\ RemarksAreCurrent' /\ PresenceTypeOK'
  <2>1. PresenceDrops
    BY <1>1 DEF PresenceDrops
  <2>2. RemarksAreCurrent'
    BY <1>1 DEF PresenceInv, RemarksAreCurrent, RemarkIsCurrent
  <2> QED BY <1>1, <1>2, <1>5, <2>1, <2>2 DEF PresenceTypeOK
<1>7. CandidateIsTrue(n)'
  BY <1>2, <1>5 DEF CandidateIsTrue
<1>8. \A t \in failed' : t \in 1..turnsBegun /\ t # turnActive'
  BY <1>1 DEF PresenceInv, ArrivingIsOne
<1> QED BY <1>1, <1>5, <1>6, <1>7, <1>8, PresenceBuilds

\* PresenceInv survives the end of a turn. A turn that failed takes its messages with
\* it; of one that completed nothing is said to be before its messages are gone.
LEMMA PresenceEnds ==
  ASSUME PresenceInv, NEW t \in PresenceTurns, NEW status \in {"completed", "failed", "interrupted"},
         EndTurn(t, status)
  PROVE  PresenceInv'
<1> USE DEF presenceScope, presenceTurn, presenceQueues, building, presencePast
<1>1. /\ UNCHANGED <<scope, era, closing, turnsBegun, answered, published, worker>>
      /\ ~Observing /\ t = turnActive /\ StopPresenceTurn(t, status = "completed")
  BY DEF EndTurn
<1>2. /\ PresenceTypeOK /\ turnsBegun \in 0..MaxTurn /\ turnActive \in 0..turnsBegun /\ candidates \in Nat
      /\ MaxTurn \in Nat /\ t \in 1..turnsBegun /\ t \in 0..MaxTurn /\ t \in Abouts /\ 0 \in 0..MaxTurn
  BY <1>1, PresenceAssumption, KindsOfTriggers DEF PresenceInv, PresenceTypeOK, PresenceTurns
<1>3. /\ turnActive' = 0 /\ PresenceDrops
      /\ status = "completed" => failed' = failed
      /\ status # "completed" => failed' = failed \union {t} /\ messages' = <<>>
  BY <1>1 DEF StopPresenceTurn, CancelSpoken, PresenceDrops
<1>4. \A u \in failed' : u \in 1..turnsBegun /\ u # turnActive'
  <2>1. \A u \in 1..turnsBegun : u # 0
    BY <1>2
  <2> QED BY <1>2, <1>3, <2>1 DEF PresenceInv, ArrivingIsOne
<1>5. RemarksAreCurrent'
  <2>1. ASSUME NEW c \in Built, RemarkIsCurrent(c), c.trigger = "main_message" => c.turn \notin failed'
        PROVE  RemarkIsCurrent(c)'
    BY <1>1, <2>1 DEF RemarkIsCurrent
  <2>2. ASSUME NEW c \in Built, RemarkIsCurrent(c), c = spoken, spoken' = spoken, ~spoken.canceled,
               c.trigger = "main_message"
        PROVE  c.turn \notin failed'
    <3>1. spoken \in Built /\ ~IsNone(spoken)
      BY <2>2 DEF Built, IsNone
    <3>2. c.scope = scope /\ c.turn \notin failed
      BY <2>2 DEF RemarkIsCurrent
    <3>3. CASE status = "completed"
      BY <1>3, <3>2, <3>3
    <3>4. CASE status # "completed"
      <4>1. CancelSpoken(spoken.scope = scope /\ spoken.turn = t
                           /\ ~(FALSE /\ spoken.trigger \in {"commit_ready", "main_message"}))
        BY <1>1, <3>4 DEF StopPresenceTurn
      <4>2. spoken.turn # t
        <5>1. [spoken EXCEPT !.canceled = TRUE].canceled = TRUE
          BY <3>1 DEF Built
        <5> QED BY <2>2, <3>1, <3>2, <4>1, <5>1 DEF CancelSpoken
      <4> QED BY <1>3, <2>2, <3>2, <3>4, <4>2
    <3> QED BY <3>3, <3>4
  <2>3. ASSUME NEW c \in Built, RemarkIsCurrent(c), c = slot PROVE c.trigger # "main_message"
    BY <2>3 DEF PresenceInv, PresenceTypeOK, Built, IsNone
  <2>4. ASSUME messages' = messages, messages # <<>>, NEW c \in Built, RemarkIsCurrent(c), c.trigger = "main_message"
        PROVE  c.turn \notin failed'
    BY <1>3, <2>4 DEF RemarkIsCurrent
  <2>5. CASE messages # <<>>
    BY <1>3, <2>1, <2>2, <2>3, <2>4, <2>5, DropsCurrent DEF PresenceInv
  <2>6. CASE messages = <<>>
    <3>1. messages' = <<>> /\ Len(messages') = 0
      BY <1>3, <2>6 DEF PresenceDrops
    <3>2. ASSUME ~IsNone(spoken)', ~spoken'.canceled PROVE RemarkIsCurrent(spoken)'
      <4>1. PICK c : c = spoken
        OBVIOUS
      <4>2. c \in Built /\ RemarkIsCurrent(c) /\ spoken' = spoken /\ ~spoken.canceled
        BY <1>3, <3>2, <4>1, SpokenStays, IsBuilt DEF PresenceInv, RemarksAreCurrent
      <4>3. RemarkIsCurrent(c)'
        BY <2>1, <2>2, <4>1, <4>2
      <4> QED BY <4>1, <4>2, <4>3 DEF RemarkIsCurrent
    <3>3. ASSUME ~IsNone(slot)' PROVE RemarkIsCurrent(slot)'
      <4>1. PICK c : c = slot
        OBVIOUS
      <4>2. c \in Built /\ RemarkIsCurrent(c) /\ slot' = slot
        BY <1>3, <3>3, <4>1, DropsType, IsBuilt DEF PresenceInv, RemarksAreCurrent, IsNone
      <4>3. RemarkIsCurrent(c)'
        BY <2>1, <2>3, <4>1, <4>2
      <4> QED BY <4>1, <4>2, <4>3 DEF RemarkIsCurrent
    <3> QED BY <3>1, <3>2, <3>3 DEF RemarksAreCurrent
  <2> QED BY <2>5, <2>6
<1>6. CASE status = "interrupted"
  <2>1. UNCHANGED <<arriving, candidates>>
    BY <1>6 DEF EndTurn
  <2>2. PresenceTypeOK'
    BY <1>1, <1>2, <1>3, <2>1, DropsType DEF PresenceTypeOK
  <2>3. CandidatesAreTrue' /\ RemarksAreOrdered' /\ ArrivesLast'
    BY <1>1, <1>2, <1>3, <2>1, <2>2, PresenceQuiet
  <2>4. ArrivingIsOne'
    BY <1>1, <1>4, <2>1 DEF PresenceInv, ArrivingIsOne
  <2> QED BY <1>5, <2>2, <2>3, <2>4 DEF PresenceInv
<1>7. CASE status \in {"completed", "failed"}
  <2>1. \E n \in Built : /\ n.id = candidates + 1 /\ n.trigger \in {"terminal_failure", "turn_completed"}
                         /\ n.about = t /\ arriving' = arriving \union {n}
                         /\ candidates' = candidates + 1 /\ candidates' \in Nat
    <3>1. CASE status = "completed"
      <4>1. Builds("turn_completed", t, 0)
        BY <3>1 DEF EndTurn
      <4> QED BY <1>2, <4>1, BuiltIs, KindsOfTriggers
    <3>2. CASE status = "failed"
      <4>1. Builds("terminal_failure", t, 0)
        BY <3>2 DEF EndTurn
      <4> QED BY <1>2, <4>1, BuiltIs, KindsOfTriggers
    <3> QED BY <1>7, <3>1, <3>2
  <2>2. PICK n \in Built : /\ n.id = candidates + 1 /\ n.trigger \in {"terminal_failure", "turn_completed"}
                           /\ n.about = t /\ arriving' = arriving \union {n}
                           /\ candidates' = candidates + 1 /\ candidates' \in Nat
    BY <2>1
  <2>3. PresenceTypeOK'
    BY <1>1, <1>2, <1>3, <2>2, DropsType DEF PresenceTypeOK
  <2>4. CandidateIsTrue(n)'
    BY <1>1, <1>2, <1>3, <2>2 DEF CandidateIsTrue
  <2> QED BY <1>1, <1>3, <1>4, <1>5, <2>2, <2>3, <2>4, PresenceBuilds
<1> QED BY <1>6, <1>7

\* PresenceInv survives the admission of a candidate, which is now of the present scope.
LEMMA PresenceAdmits == ASSUME PresenceInv, NEW c \in arriving, Admit(c) PROVE PresenceInv'
<1> USE DEF presenceScope, presenceTurn, presenceQueues, building, presencePast
<1>0. PICK e : e = [c EXCEPT !.era = era]
  OBVIOUS
<1>1. /\ UNCHANGED <<scope, era, closing, turnActive, turnsBegun, candidates, failed, answered, published,
                     spoken, seen>>
      /\ arriving' = arriving \ {c} /\ (worker' = "execute" => worker = "execute")
      /\ messages' = IF Admissible(c) /\ c.trigger = "main_message" THEN Append(messages, e) ELSE messages
      /\ slot' = IF Admissible(c) /\ c.trigger # "main_message" /\ Displaces(c) THEN e ELSE slot
  BY <1>0 DEF Admit
<1>2. PresenceTypeOK /\ c \in Built /\ CandidateIsTrue(c)
  BY DEF PresenceInv, PresenceTypeOK, CandidatesAreTrue
<1>3. /\ e \in Built /\ e.id = c.id /\ e.trigger = c.trigger /\ e.about = c.about /\ e.turn = c.turn
      /\ e.scope = c.scope /\ e.era = era
  BY <1>0, <1>2 DEF Built, PresenceTypeOK
<1>4. Len(messages) \in Nat /\ messages \in Seq(Built) /\ Len(published) \in Nat
  BY <1>2, IsBuilt DEF PresenceTypeOK
<1>5. Append(messages, e) \in Seq(Built) /\ Len(Append(messages, e)) = Len(messages) + 1
  BY <1>3, <1>4
<1>6. /\ Append(messages, e)[Len(messages) + 1] = e
      /\ \A i \in 1..Len(messages) : Append(messages, e)[i] = messages[i]
  BY <1>3, <1>4
<1>7. PICK l \in Nat : l = Len(messages)
  BY <1>4
<1>8. CandidateIsTrue(e)' /\ CandidateIsTrue(e)
  BY <1>1, <1>2, <1>3 DEF CandidateIsTrue
<1>9. ASSUME Admissible(c) PROVE RemarkIsCurrent(e)
  <2>1. c.trigger = "decision_wait" => c.about \notin answered
    BY DEF PresenceInv, ArrivingIsOne
  <2>2. c.trigger = "main_message" => c.turn \notin failed
    BY <1>9 DEF Admissible, PresenceInv, ArrivingIsOne
  <2> QED BY <1>3, <1>9, <2>1, <2>2 DEF Admissible, RemarkIsCurrent
<1>10. ~IsNone(e) /\ e # NoCandidate
  BY <1>3 DEF Built, IsNone, NoCandidate
<1>11. ArrivingIsOne'
  BY <1>1 DEF PresenceInv, ArrivingIsOne
<1>12. ASSUME messages' = messages, slot' = slot \/ (slot' = e /\ c.trigger # "main_message" /\ Admissible(c))
       PROVE  PresenceInv'
  <2>1. PresenceTypeOK'
    BY <1>1, <1>2, <1>3, <1>12 DEF PresenceTypeOK
  <2>2. CandidatesAreTrue'
    <3>1. ~IsNone(slot)' => CandidateIsTrue(slot)'
      <4>1. CASE slot' = slot
        BY <1>1, <4>1 DEF PresenceInv, CandidatesAreTrue, CandidateIsTrue, IsNone
      <4>2. CASE slot' = e
        BY <1>8, <4>2 DEF CandidateIsTrue
      <4> QED BY <1>12, <4>1, <4>2
    <3> QED BY <1>1, <1>12, <3>1 DEF PresenceInv, CandidatesAreTrue, CandidateIsTrue, IsNone
  <2>3. RemarksAreCurrent'
    <3>1. ~IsNone(slot)' => RemarkIsCurrent(slot)'
      <4>1. CASE slot' = slot
        BY <1>1, <4>1 DEF PresenceInv, RemarksAreCurrent, RemarkIsCurrent, IsNone
      <4>2. CASE slot' = e /\ Admissible(c)
        BY <1>1, <1>9, <4>2 DEF RemarkIsCurrent
      <4> QED BY <1>12, <4>1, <4>2
    <3> QED BY <1>1, <1>12, <3>1 DEF PresenceInv, RemarksAreCurrent, RemarkIsCurrent, IsNone
  <2>4. RemarksAreOrdered'
    BY <1>1, <1>12 DEF PresenceInv, RemarksAreOrdered, ComesBefore, IsNone
  <2>5. ArrivesLast'
    BY <1>1, <1>12 DEF PresenceInv, ArrivesLast, Heard, IsNone
  <2> QED BY <1>11, <2>1, <2>2, <2>3, <2>4, <2>5 DEF PresenceInv
<1>13. ASSUME messages' = Append(messages, e), slot' = slot, c.trigger = "main_message", Admissible(c)
       PROVE  PresenceInv'
  <2>1. \A i \in 1..Len(messages') : i \in 1..l \/ i = l + 1
    BY <1>5, <1>7, <1>13
  <2>2. /\ \A i \in 1..l : i \in 1..Len(messages) /\ messages'[i] = messages[i]
        /\ messages'[l + 1] = e
    BY <1>6, <1>7, <1>13
  <2>3. PresenceTypeOK'
    BY <1>1, <1>2, <1>3, <1>5, <1>13, <2>1, <2>2 DEF PresenceTypeOK
  <2>4. CandidatesAreTrue'
    <3>1. ASSUME NEW i \in 1..Len(messages') PROVE CandidateIsTrue(messages[i])'
      <4>1. CASE i \in 1..l
        BY <1>1, <2>2, <4>1 DEF PresenceInv, CandidatesAreTrue, CandidateIsTrue
      <4>2. CASE i = l + 1
        BY <1>8, <2>2, <4>2 DEF CandidateIsTrue
      <4> QED BY <2>1, <3>1, <4>1, <4>2
    <3> QED BY <1>1, <1>13, <3>1 DEF PresenceInv, CandidatesAreTrue, CandidateIsTrue, IsNone
  <2>5. RemarksAreCurrent'
    <3>1. ASSUME NEW i \in 1..Len(messages') PROVE RemarkIsCurrent(messages[i])'
      <4>1. CASE i \in 1..l
        BY <1>1, <2>2, <4>1 DEF PresenceInv, RemarksAreCurrent, RemarkIsCurrent
      <4>2. CASE i = l + 1
        BY <1>1, <1>9, <1>13, <2>2, <4>2 DEF RemarkIsCurrent
      <4> QED BY <2>1, <3>1, <4>1, <4>2
    <3> QED BY <1>1, <1>13, <3>1 DEF PresenceInv, RemarksAreCurrent, RemarkIsCurrent, IsNone
  <2>6. ASSUME NEW m \in Built, CandidateIsTrue(m), Heard(m) PROVE ComesBefore(m, e)
    <3>1. c.turn = turnActive
      BY <1>13 DEF Admissible
    <3> QED BY <1>3, <1>13, <2>6, <3>1 DEF ComesBefore, Heard, CandidateIsTrue
  <2>7. RemarksAreOrdered'
    <3>1. ASSUME NEW i \in 1..Len(published), NEW j \in 1..Len(messages')
          PROVE  ComesBefore(published[i], messages'[j])
      <4>1. CASE j \in 1..l
        BY <2>2, <4>1 DEF PresenceInv, RemarksAreOrdered
      <4>2. CASE j = l + 1
        BY <1>2, <2>2, <2>6, <4>2, IsBuilt DEF PresenceInv, CandidatesAreTrue, ArrivesLast
      <4> QED BY <2>1, <3>1, <4>1, <4>2
    <3>2. ASSUME ~IsNone(spoken), NEW j \in 1..Len(messages') PROVE ComesBefore(spoken, messages'[j])
      <4>1. CASE j \in 1..l
        BY <2>2, <3>2, <4>1 DEF PresenceInv, RemarksAreOrdered
      <4>2. CASE j = l + 1
        BY <1>2, <2>2, <2>6, <3>2, <4>2, IsBuilt DEF PresenceInv, CandidatesAreTrue, ArrivesLast
      <4> QED BY <2>1, <3>2, <4>1, <4>2
    <3>3. ASSUME NEW i \in 1..Len(messages'), NEW j \in 1..Len(messages'), i < j
          PROVE  ComesBefore(messages'[i], messages'[j])
      <4>1. i \in 1..l
        BY <2>1, <3>3, <1>5, <1>7, <1>13
      <4>2. CASE j \in 1..l
        BY <2>2, <3>3, <4>1, <4>2 DEF PresenceInv, RemarksAreOrdered
      <4>3. CASE j = l + 1
        BY <1>2, <2>2, <2>6, <4>1, <4>3, IsBuilt DEF PresenceInv, CandidatesAreTrue, ArrivesLast
      <4> QED BY <2>1, <3>3, <4>2, <4>3
    <3> QED BY <1>1, <3>1, <3>2, <3>3 DEF PresenceInv, RemarksAreOrdered, ComesBefore, IsNone
  <2>8. ArrivesLast'
    <3>1. ASSUME NEW d \in arriving', d.trigger = "main_message" PROVE FALSE
      BY <1>1, <1>13, <3>1 DEF PresenceInv, ArrivingIsOne, Interleaves
    <3> QED BY <3>1 DEF ArrivesLast, Heard
  <2> QED BY <1>11, <2>3, <2>4, <2>5, <2>7, <2>8 DEF PresenceInv
<1> QED BY <1>1, <1>12, <1>13

\* Taking up c: what is spoken is c, and before what still waits.
LEMMA PresenceTakes ==
  ASSUME PresenceInv, NEW c \in Built, CandidateIsTrue(c), Heard(c), Take(c),
         UNCHANGED <<presenceScope, presenceTurn, building, presencePast, seen, cooling>>,
         slot' \in {slot, NoCandidate}, messages' \in Seq(Built),
         \A i \in 1..Len(messages') : \E j \in 1..Len(messages) : messages'[i] = messages[j],
         \A i, j \in 1..Len(messages') : i < j => ComesBefore(messages'[i], messages'[j]),
         RemarkIsCurrent(c),
         \A i \in 1..Len(messages') : ComesBefore(c, messages'[i]),
         \A i \in 1..Len(published) : ComesBefore(published[i], c)
  PROVE  PresenceInv'
<1> USE DEF presenceScope, presenceTurn, presenceQueues, building, presencePast
<1>1. spoken' = c /\ worker' = "execute" /\ NoCandidate.id = 0 /\ c.id # 0
  BY DEF Take, NoCandidate, Built
<1>2. PresenceTypeOK'
  BY <1>1 DEF PresenceInv, PresenceTypeOK, IsNone
<1>3. CandidatesAreTrue'
  BY <1>1 DEF PresenceInv, CandidatesAreTrue, CandidateIsTrue, IsNone
<1>4. ArrivingIsOne'
  BY DEF PresenceInv, ArrivingIsOne
<1>5. RemarksAreCurrent'
  <2>1. \A i \in 1..Len(messages') : RemarkIsCurrent(messages'[i])
    BY DEF PresenceInv, RemarksAreCurrent
  <2>2. ~IsNone(slot)' => RemarkIsCurrent(slot')
    BY <1>1 DEF PresenceInv, RemarksAreCurrent, IsNone
  <2> QED BY <1>1, <2>1, <2>2 DEF RemarksAreCurrent, RemarkIsCurrent
<1>6. RemarksAreOrdered'
  <2>1. ASSUME NEW i \in 1..Len(published), NEW j \in 1..Len(messages')
        PROVE  ComesBefore(published[i], messages'[j])
    BY <2>1 DEF PresenceInv, RemarksAreOrdered
  <2> QED BY <1>1, <2>1 DEF PresenceInv, RemarksAreOrdered, ComesBefore, IsNone
<1>7. ArrivesLast'
  BY <1>1 DEF PresenceInv, ArrivesLast, Heard, IsNone
<1> QED BY <1>2, <1>3, <1>4, <1>5, <1>6, <1>7 DEF PresenceInv

\* PresenceInv survives the worker's choice. What is said to be completed is taken up
\* only when no message waits.
LEMMA PresencePicks == ASSUME PresenceInv, Pick PROVE PresenceInv'
<1>1. UNCHANGED <<presenceScope, presenceTurn, building, presencePast, seen, cooling>>
  BY DEF Pick
<1>2. PresenceTypeOK /\ messages \in Seq(Built) /\ Len(messages) \in Nat
  BY IsBuilt DEF PresenceInv, PresenceTypeOK
<1>3. CASE TakesSlot /\ Take(slot) /\ slot' = NoCandidate /\ UNCHANGED messages
  <2>1. slot \in Built /\ ~IsNone(slot) /\ slot.trigger # "main_message"
    BY <1>2, <1>3, IsBuilt DEF TakesSlot, PresenceTypeOK
  <2>2. CandidateIsTrue(slot) /\ RemarkIsCurrent(slot) /\ Heard(slot)
    BY <2>1 DEF PresenceInv, CandidatesAreTrue, RemarksAreCurrent, Heard
  <2>3. \A i \in 1..Len(published) : ComesBefore(published[i], slot)
    BY <2>1 DEF ComesBefore
  <2>4. ASSUME NEW i \in 1..Len(messages) PROVE ComesBefore(slot, messages[i])
    <3>1. messages # <<>>
      BY <1>2, <2>4
    <3>2. Rank[slot.trigger] > Rank["main_message"]
      BY <1>3, <3>1 DEF TakesSlot
    <3>3. slot.trigger # "turn_completed"
      <4>1. ~(Rank["turn_completed"] > Rank["main_message"])
        BY DEF Rank
      <4> QED BY <3>2, <4>1
    <3> QED BY <2>1, <3>3 DEF ComesBefore
  <2>5. \A i, j \in 1..Len(messages) : i < j => ComesBefore(messages[i], messages[j])
    BY DEF PresenceInv, RemarksAreOrdered
  <2> QED BY <1>1, <1>2, <1>3, <2>1, <2>2, <2>3, <2>4, <2>5, PresenceTakes
<1>4. CASE messages # <<>> /\ Take(Head(messages)) /\ messages' = Tail(messages) /\ UNCHANGED slot
  <2>1. PICK l \in Nat : l = Len(messages) /\ l # 0
    BY <1>2, <1>4
  <2>2. /\ Head(messages) = messages[1] /\ 1 \in 1..Len(messages)
        /\ messages' \in Seq(Built) /\ Len(messages') = l - 1
        /\ \A i \in 1..Len(messages') : messages'[i] = messages[i + 1] /\ i + 1 \in 1..Len(messages) /\ 1 < i + 1
    BY <1>2, <1>4, <2>1
  <2>3. PICK c : c = Head(messages)
    OBVIOUS
  <2>4. c \in Built /\ CandidateIsTrue(c) /\ RemarkIsCurrent(c) /\ Heard(c)
    BY <1>2, <2>2, <2>3, IsBuilt DEF PresenceInv, CandidatesAreTrue, RemarksAreCurrent, ArrivesLast
  <2>5. \A i \in 1..Len(published) : ComesBefore(published[i], c)
    BY <2>2, <2>3 DEF PresenceInv, RemarksAreOrdered
  <2>6. \A i \in 1..Len(messages') : ComesBefore(c, messages'[i])
    BY <2>2, <2>3 DEF PresenceInv, RemarksAreOrdered
  <2>7. ASSUME NEW i \in 1..Len(messages'), NEW j \in 1..Len(messages'), i < j
        PROVE  ComesBefore(messages'[i], messages'[j])
    <3>1. i + 1 < j + 1
      BY <2>1, <2>2, <2>7
    <3> QED BY <2>2, <3>1 DEF PresenceInv, RemarksAreOrdered
  <2> QED BY <1>1, <1>4, <2>2, <2>3, <2>4, <2>5, <2>6, <2>7, PresenceTakes
<1>5. CASE UNCHANGED <<presenceQueues, spoken>> /\ worker' \in {"wait", "none"}
  <2> USE DEF presenceScope, presenceTurn, presenceQueues, building, presencePast
  <2>1. PresenceTypeOK'
    BY <1>1, <1>2, <1>5 DEF PresenceTypeOK
  <2>2. CandidatesAreTrue' /\ ArrivingIsOne' /\ RemarksAreCurrent'
    BY <1>1, <1>5 DEF PresenceInv, CandidatesAreTrue, CandidateIsTrue, ArrivingIsOne,
                      RemarksAreCurrent, RemarkIsCurrent, IsNone
  <2>3. RemarksAreOrdered' /\ ArrivesLast'
    BY <1>1, <1>5 DEF PresenceInv, RemarksAreOrdered, ComesBefore, ArrivesLast, Heard, IsNone
  <2> QED BY <2>1, <2>2, <2>3 DEF PresenceInv
<1> QED BY <1>3, <1>4, <1>5 DEF Pick

\* What is published comes after what was.
LEMMA PublishedLast ==
  ASSUME PresenceInv, ~IsNone(spoken), published' \in {published, Append(published, spoken)}
  PROVE  /\ published' \in Seq(Built)
         /\ \A i \in 1..Len(published') :
              published'[i] = spoken \/ \E j \in 1..Len(published) : published'[i] = published[j]
         /\ \A i, j \in 1..Len(published') : i < j => ComesBefore(published'[i], published'[j])
<1>1. published \in Seq(Built) /\ spoken \in Built /\ Len(published) \in Nat
  BY IsBuilt DEF PresenceInv, PresenceTypeOK
<1>2. CASE published' = published
  BY <1>1, <1>2 DEF PresenceInv, RemarksAreOrdered
<1>3. CASE published' = Append(published, spoken)
  <2>1. PICK l \in Nat : l = Len(published)
    BY <1>1
  <2>2. /\ published' \in Seq(Built) /\ Len(published') = l + 1 /\ published'[l + 1] = spoken
        /\ \A i \in 1..l : published'[i] = published[i]
    BY <1>1, <1>3, <2>1
  <2>3. \A i \in 1..(l + 1) : i \in 1..l \/ i = l + 1
    OBVIOUS
  <2>4. ASSUME NEW i \in 1..(l + 1), NEW j \in 1..(l + 1), i < j PROVE ComesBefore(published'[i], published'[j])
    <3>1. i \in 1..l
      BY <2>4
    <3>2. CASE j \in 1..l
      BY <2>1, <2>2, <2>4, <3>1, <3>2 DEF PresenceInv, RemarksAreOrdered
    <3>3. CASE j = l + 1
      BY <2>1, <2>2, <3>1, <3>3 DEF PresenceInv, RemarksAreOrdered
    <3> QED BY <2>3, <3>2, <3>3
  <2> QED BY <2>1, <2>2, <2>3, <2>4
<1> QED BY <1>2, <1>3

\* PresenceInv survives the end of a run.
LEMMA PresenceFinishes == ASSUME PresenceInv, NEW ok \in BOOLEAN, Finish(ok) PROVE PresenceInv'
<1> USE DEF presenceScope, presenceTurn, presenceQueues, building, presencePast
<1>1. /\ UNCHANGED <<scope, era, closing, turnActive, turnsBegun, slot, messages, arriving, candidates,
                     failed, answered, seen>>
      /\ published' \in {published, Append(published, spoken)} /\ spoken' = NoCandidate
      /\ worker' = "pick" /\ ~IsNone(spoken)
  BY DEF Finish, PresenceInv, PresenceTypeOK
<1>2. IsNone(spoken)'
  BY <1>1 DEF IsNone, NoCandidate
<1>3. PresenceTypeOK'
  BY <1>1, PublishedLast DEF PresenceInv, PresenceTypeOK
<1>4. CandidatesAreTrue'
  <2>1. \A i \in 1..Len(published') : CandidateIsTrue(published'[i])
    BY <1>1, PublishedLast DEF PresenceInv, CandidatesAreTrue
  <2> QED BY <1>1, <1>2, <2>1 DEF PresenceInv, CandidatesAreTrue, CandidateIsTrue, IsNone
<1>5. ArrivingIsOne' /\ RemarksAreCurrent'
  BY <1>1, <1>2 DEF PresenceInv, ArrivingIsOne, RemarksAreCurrent, RemarkIsCurrent, IsNone
<1>6. RemarksAreOrdered'
  <2>1. ASSUME NEW i \in 1..Len(published'), NEW j \in 1..Len(messages)
        PROVE  ComesBefore(published'[i], messages[j])
    BY <1>1, <2>1, PublishedLast DEF PresenceInv, RemarksAreOrdered
  <2> QED BY <1>1, <1>2, <2>1, PublishedLast DEF PresenceInv, RemarksAreOrdered, ComesBefore
<1>7. ArrivesLast'
  <2>1. \A i \in 1..Len(published') : Heard(published'[i])
    BY <1>1, PublishedLast DEF PresenceInv, ArrivesLast
  <2> QED BY <1>1, <1>2, <2>1 DEF PresenceInv, ArrivesLast, Heard
<1> QED BY <1>3, <1>4, <1>5, <1>6, <1>7 DEF PresenceInv

\* PresenceInv survives the waits of the worker.
LEMMA PresenceWaits == ASSUME PresenceInv, WakeUp \/ CoolDown \/ UNCHANGED presenceVars PROVE PresenceInv'
<1> USE DEF presenceScope, presenceTurn, presenceQueues, building, presencePast, presenceVars
<1>1. /\ UNCHANGED <<presenceScope, presenceTurn, presenceQueues, building, presencePast, seen, spoken>>
      /\ worker' \in {"pick", worker}
  BY DEF WakeUp, CoolDown
<1>2. PresenceTypeOK'
  BY <1>1 DEF PresenceInv, PresenceTypeOK, IsNone
<1>3. CandidatesAreTrue' /\ ArrivingIsOne' /\ RemarksAreCurrent'
  BY <1>1 DEF PresenceInv, CandidatesAreTrue, CandidateIsTrue, ArrivingIsOne, RemarksAreCurrent,
              RemarkIsCurrent, IsNone
<1>4. RemarksAreOrdered' /\ ArrivesLast'
  BY <1>1 DEF PresenceInv, RemarksAreOrdered, ComesBefore, ArrivesLast, Heard, IsNone
<1> QED BY <1>2, <1>3, <1>4 DEF PresenceInv

\* PresenceInv survives every step.
LEMMA PresenceKept == PresenceInv /\ [PresenceNext]_presenceVars => PresenceInv'
<1> SUFFICES ASSUME PresenceInv, [PresenceNext]_presenceVars PROVE PresenceInv'
  OBVIOUS
<1> QED BY PresenceLeaves, PresenceStarts, PresenceEnds, PresenceHears, PresenceObserves, PresenceAnswered,
           PresenceAdmits, PresencePicks, PresenceFinishes, PresenceWaits DEF PresenceNext

\* PresenceInv holds before anything is observed.
LEMMA PresenceBegins == PresenceInit => PresenceInv
<1> SUFFICES ASSUME PresenceInit PROVE PresenceInv
  OBVIOUS
<1>1. IsNone(NoCandidate) /\ <<>> \in Seq(Built) /\ Len(<<>>) = 0 /\ MaxTurn \in Nat
  BY PresenceAssumption DEF IsNone, NoCandidate
<1>2. PresenceTypeOK
  <2>1. 0 \in 0..MaxTurn /\ 0 \in 0..0 /\ 0 \in Nat
    BY <1>1
  <2>2. /\ scope = NoScope /\ era = 0 /\ closing = FALSE /\ turnActive = 0 /\ turnsBegun = 0
        /\ slot = NoCandidate /\ messages = <<>> /\ arriving = {} /\ candidates = 0 /\ published = <<>>
        /\ spoken = NoCandidate /\ worker = "none"
    BY DEF PresenceInit
  <2>3. \A i \in 1..Len(messages) : FALSE
    BY <1>1, <2>2
  <2>4. IsNone(slot) /\ worker # "execute"
    BY <1>1, <2>2
  <2> QED BY <1>1, <2>1, <2>2, <2>3, <2>4 DEF PresenceTypeOK
<1>3. CandidatesAreTrue /\ ArrivingIsOne /\ RemarksAreCurrent
  BY <1>1 DEF PresenceInit, CandidatesAreTrue, ArrivingIsOne, RemarksAreCurrent
<1>4. RemarksAreOrdered /\ ArrivesLast
  BY <1>1 DEF PresenceInit, RemarksAreOrdered, ArrivesLast
<1> QED BY <1>2, <1>3, <1>4 DEF PresenceInv

\* What PresenceInv says of the order is what MessagesInOrder asks for.
LEMMA OrderedMessages == ASSUME PresenceInv PROVE MessagesInOrder
<1>1. DOMAIN published = 1..Len(published)
  BY DEF PresenceInv, PresenceTypeOK
<1>2. SUFFICES ASSUME NEW i \in 1..Len(published), NEW j \in 1..Len(published), i < j,
                      published[j].trigger = "main_message"
               PROVE  CASE published[i].trigger = "main_message" ->
                             published[i].id < published[j].id /\ published[i].about # published[j].about
                        [] published[i].trigger = "turn_completed" -> published[i].about # published[j].turn
                        [] OTHER -> TRUE
  BY <1>1 DEF MessagesInOrder
<1>3. ComesBefore(published[i], published[j])
  BY <1>2 DEF PresenceInv, RemarksAreOrdered
<1> QED BY <1>2, <1>3 DEF ComesBefore

\* What is published is current when it is published and keeps the order of its turn's
\* messages, however scopes, turns, answers and the worker meet.
THEOREM RemarksAreSoundHolds == PresenceInit /\ [][PresenceNext]_presenceVars => RemarksAreSound
<1>1. PresenceInv /\ PresenceInv' /\ [PresenceNext]_presenceVars
        => [published' # published => SpokenIsCurrent /\ MessagesInOrder']_presenceVars
  <2> SUFFICES ASSUME PresenceInv, PresenceInv', PresenceNext, published' # published
               PROVE  SpokenIsCurrent /\ MessagesInOrder'
    BY DEF presenceVars, presencePast
  <2>1. MessagesInOrder'
    <3>1. PresenceInv => MessagesInOrder
      BY OrderedMessages
    <3> QED BY <3>1, OrderedMessages, PTL
  <2>2. PICK ok \in BOOLEAN : Finish(ok)
    BY DEF PresenceNext, SetScope, CloseDirector, StartTurn, EndTurn, StopPresenceTurn, ObserveMessage,
           ObserveEvent, Elsewhere, ResolveDecision, Admit, Pick, WakeUp, CoolDown, presencePast
  <2>3. worker = "execute" /\ Publishable
    BY <2>2 DEF Finish
  <2>4. RemarkIsCurrent(spoken)
    BY <2>3 DEF PresenceInv, PresenceTypeOK, RemarksAreCurrent, Publishable
  <2> QED BY <2>1, <2>4 DEF RemarkIsCurrent, SpokenIsCurrent
<1> QED BY <1>1, PresenceBegins, PresenceKept, PTL DEF RemarksAreSound
=============================================================================
