----------------------------- MODULE StoresProofs -----------------------------
(***************************************************************************)
(* Proofs about what is kept: the history of workspaces, the preferences,  *)
(* the files behind the support features and the library of packs. Each    *)
(* part has an inductive invariant of its own; no lemma is about two.      *)
(***************************************************************************)
EXTENDS WorkspaceHistory, Preferences, SupportFiles, CharacterLibrary,
        SequenceTheorems, TLAPS

-----------------------------------------------------------------------------
(* Workspaces and their history.                                           *)

Tasks == {Restore, [Restore EXCEPT !.at = "activate"], ShutdownTask}
Appends ==
  [op : {"append"}, at : {"write"}, turn : Turns, ws : Worktrees,
   st : {"running", "waiting", "completed"}]
Creates ==
  [op : {"create"}, at : {"lookup", "persist", "activate", "select"},
   request : CreateRequests, project : Projects, ws : Worktrees \union {NoWorkspace}]
Deletes == [op : {"delete"}, at : {"write"}, ws : Worktrees]
Selects == [op : {"select", "recheck"}, at : {"preflight", "select", "keep"}, ws : Worktrees]
Archives == [op : {"archive"}, at : {"untrust", "remove", "forget"}, ws : Worktrees]
Registers == [op : {"register"}, at : {"pick"}, project : Projects]
Unregisters == [op : {"unregister"}, at : {"untrust", "write"}, project : Projects]
Commands ==
  Tasks \union Appends \union Creates \union Deletes \union Selects \union Archives
    \union Registers \union Unregisters

StoredRows == [project : Projects, request : CreateRequests \union {"forgotten"}]
StoredTurns == [ws : Worktrees, st : {"running", "waiting", "completed", "interrupted"}]

HistoryTypeOK ==
  /\ registered \subseteq Projects
  /\ rows \in [Worktrees -> {NoRow} \union StoredRows]
  /\ turns \in [Turns -> {NoTurn} \union StoredTurns]
  /\ line \in Seq(Commands)
  /\ startup \in {"pending", "ready"}

\* A command that waits for the lock has done nothing yet.
Waits(c) ==
  /\ c.op # "restore"
  /\ c.at \notin {"persist", "activate", "select", "keep", "remove", "forget"}
  /\ c.op = "unregister" => c.at # "write"

LineWaits == \A i \in 2..Len(line) : Waits(line[i])

\* What the command that holds the lock relies on between two of its steps.
HolderIsSound ==
  LET c == Head(line) IN
  /\ At("create", "persist") => c.ws \in Worktrees \ (Existing \union trusted)
  /\ At("create", "activate") => c.ws \in Visible \ trusted
  /\ At("create", "select") => c.ws \in Visible
  /\ At("select", "select") \/ At("select", "keep") => c.ws \in Visible
  /\ At("unregister", "write") => trusted \intersect OfProject(c.project) = {}
  /\ At("archive", "remove") \/ At("archive", "forget") => c.ws \notin trusted

\* The start is under way exactly while its task holds the lock; nothing comes before it.
StartHoldsLock == startup = "pending" <=> line # <<>> /\ Head(line).op = "restore"

\* Behind the recovery an unfinished turn is one of this run.
RecoveryHolds ==
  (startup = "ready" \/ At("restore", "activate")) /\ recovered =>
    \A t \in Turns : turns[t].st \in Unfinished => t \in fresh

LineInv == LineWaits /\ HolderIsSound /\ StartHoldsLock

HistoryInv == HistoryTypeOK /\ LineInv /\ RecoveryHolds /\ WorkspacesAgree

\* A command that arrives waits at the end of the line, and the holder of the lock stays.
LEMMA LineAppends ==
  ASSUME HistoryTypeOK, LineWaits, NEW c \in Commands, Waits(c), line' = Append(line, c)
  PROVE  /\ line' \in Seq(Commands) /\ LineWaits' /\ line' # <<>>
         /\ Head(line') = IF line = <<>> THEN c ELSE Head(line)
<1>1. /\ line \in Seq(Commands)
      /\ line' \in Seq(Commands) /\ Len(line') = Len(line) + 1 /\ line'[Len(line) + 1] = c
      /\ \A i \in 1..Len(line) : line'[i] = line[i]
  BY AppendProperties DEF HistoryTypeOK
<1>2. Len(line) \in Nat /\ (line = <<>> <=> Len(line) = 0)
  BY <1>1, LenProperties, EmptySeq
<1>3. LineWaits'
  BY <1>1, <1>2 DEF LineWaits
<1>4. line' # <<>> /\ Head(line') = line'[1] /\ (line # <<>> => Head(line) = line[1])
  BY <1>1, <1>2
<1> QED BY <1>1, <1>2, <1>3, <1>4

\* When the holder of the lock is answered, the next in the line holds it, at its first step.
LEMMA LineAnswered ==
  ASSUME HistoryTypeOK, LineWaits, line # <<>>, Answered
  PROVE  line' \in Seq(Commands) /\ LineWaits' /\ (line' # <<>> => Waits(Head(line')))
<1>1. /\ line \in Seq(Commands) /\ line' \in Seq(Commands) /\ Len(line') = Len(line) - 1
      /\ \A i \in 1..Len(line') : line'[i] = line[i + 1]
  BY HeadTailProperties DEF HistoryTypeOK, Answered
<1>2. Len(line) \in Nat /\ Len(line') \in Nat
  BY <1>1, LenProperties
<1>3. \A i \in 1..Len(line') : Waits(line'[i])
  BY <1>1, <1>2 DEF LineWaits
<1>4. line' # <<>> => Head(line') = line'[1] /\ 1 \in 1..Len(line')
  BY <1>1, <1>2, EmptySeq
<1> QED BY <1>1, <1>2, <1>3, <1>4 DEF LineWaits

\* When the holder goes on to its next step, it keeps the lock.
LEMMA LineSteps ==
  ASSUME HistoryTypeOK, LineWaits, line # <<>>, NEW c \in Commands, Step(c)
  PROVE  line' \in Seq(Commands) /\ LineWaits' /\ line' # <<>> /\ Head(line') = c
<1>1. line \in Seq(Commands) /\ Len(line) \in Nat \ {0}
  BY LenProperties, EmptySeq DEF HistoryTypeOK
<1>2. /\ line' \in Seq(Commands) /\ Len(line') = Len(line) /\ line'[1] = c
      /\ \A i \in 2..Len(line) : line'[i] = line[i]
  BY <1>1, ExceptSeq DEF Step
<1>3. line' # <<>> /\ Head(line') = line'[1]
  BY <1>1, <1>2
<1> QED BY <1>1, <1>2, <1>3 DEF LineWaits

\* With nothing, or a command at its first step, in front there is nothing to rely on.
LEMMA NothingBegun ==
  ASSUME line' # <<>> => Waits(Head(line'))
  PROVE  HolderIsSound' /\ ~At("restore", "activate")'
         /\ ~(line' # <<>> /\ Head(line').op = "restore")
BY DEF HolderIsSound, At, Waits

\* Before the start of the history nothing is registered, trusted or unfinished.
LEMMA HistoryBegins == HistoryInit => HistoryInv
<1> SUFFICES ASSUME HistoryInit PROVE HistoryInv
  OBVIOUS
<1>1. Existing = {} /\ Visible = {}
  BY DEF HistoryInit, Existing, Visible
<1>2. line = <<Restore>> /\ Len(line) = 1 /\ Head(line) = Restore /\ Restore \in Commands
  BY DEF HistoryInit, Commands, Tasks
<1>3. HistoryTypeOK
  BY <1>2 DEF HistoryInit, HistoryTypeOK
<1>4. LineInv /\ RecoveryHolds
  BY <1>2 DEF HistoryInit, LineInv, LineWaits, HolderIsSound, At, Restore, StartHoldsLock,
              RecoveryHolds
<1>5. WorkspacesAgree
  BY <1>1 DEF HistoryInit, WorkspacesAgree, ActiveIsVisible, TrustedIsVisible,
              OneWorkspacePerRequest
<1> QED BY <1>3, <1>4, <1>5 DEF HistoryInv

\* A command joins the line.
LEMMA ArrivalKeeps ==
  ASSUME HistoryInv, NEW c \in Commands, Waits(c), line' = Append(line, c),
         UNCHANGED <<database, trusted, startup, historyPast>>
  PROVE  HistoryInv'
<1> USE DEF HistoryInv, LineInv
<1>1. /\ line' \in Seq(Commands) /\ LineWaits' /\ line' # <<>>
      /\ Head(line') = IF line = <<>> THEN c ELSE Head(line)
  BY LineAppends
<1>2. UNCHANGED <<registered, rows, activeWorkspace, turns, trusted, startup, fresh, recovered>>
  BY DEF database, historyPast
<1>3. HistoryTypeOK'
  BY <1>1, <1>2 DEF HistoryTypeOK
<1>4. Existing' = Existing /\ Visible' = Visible
  BY <1>2 DEF Existing, Visible
<1>5. WorkspacesAgree'
  BY <1>2, <1>4 DEF WorkspacesAgree, ActiveIsVisible, TrustedIsVisible, OneWorkspacePerRequest
<1>6. CASE line = <<>>
  <2>1. Waits(Head(line'))
    BY <1>1, <1>6
  <2>2. startup = "ready"
    BY <1>6 DEF StartHoldsLock, HistoryTypeOK
  <2>3. StartHoldsLock' /\ RecoveryHolds' /\ HolderIsSound'
    BY <1>2, <2>1, <2>2, NothingBegun DEF StartHoldsLock, RecoveryHolds
  <2> QED BY <1>1, <1>3, <1>5, <2>3
<1>7. CASE line # <<>>
  <2>1. Head(line') = Head(line) /\ line' # <<>>
    BY <1>1, <1>7
  <2>2. HolderIsSound'
    BY <1>2, <1>4, <1>7, <2>1 DEF HolderIsSound, At, OfProject
  <2>3. StartHoldsLock' /\ RecoveryHolds'
    BY <1>2, <1>7, <2>1 DEF StartHoldsLock, RecoveryHolds, At
  <2> QED BY <1>1, <1>3, <1>5, <2>2, <2>3
<1> QED BY <1>6, <1>7

\* The answer of a command that is not the start.
LEMMA AnswerKeeps ==
  ASSUME HistoryInv, line # <<>>, Head(line).op # "restore", Answered, UNCHANGED startup
  PROVE  line' \in Seq(Commands) /\ LineInv' /\ startup = "ready" /\ startup' = "ready"
<1> USE DEF HistoryInv, LineInv
<1>1. line' \in Seq(Commands) /\ LineWaits' /\ (line' # <<>> => Waits(Head(line')))
  BY LineAnswered
<1>2. startup = "ready"
  BY DEF StartHoldsLock, HistoryTypeOK
<1>3. StartHoldsLock' /\ HolderIsSound'
  BY <1>1, <1>2, NothingBegun DEF StartHoldsLock
<1> QED BY <1>1, <1>2, <1>3

\* The next step of a command that is not the start: what it relies on is left to show.
LEMMA StepKeeps ==
  ASSUME HistoryInv, line # <<>>, Head(line).op # "restore", UNCHANGED startup,
         NEW c \in Commands, c.op # "restore", Step(c)
  PROVE  /\ line' \in Seq(Commands) /\ LineWaits' /\ StartHoldsLock'
         /\ startup = "ready" /\ startup' = "ready" /\ line' # <<>> /\ Head(line') = c
<1> USE DEF HistoryInv, LineInv
<1>1. line' \in Seq(Commands) /\ LineWaits' /\ line' # <<>> /\ Head(line') = c
  BY LineSteps
<1>2. startup = "ready"
  BY DEF StartHoldsLock, HistoryTypeOK
<1> QED BY <1>1, <1>2 DEF StartHoldsLock

\* What the holder of the lock is doing is of its kind of command.
LEMMA HolderTyped ==
  ASSUME HistoryTypeOK, line # <<>>, NEW c, c = Head(line)
  PROVE  /\ c \in Commands
         /\ c.op = "append" => c \in Appends
         /\ c.op = "create" => c \in Creates
         /\ c.op = "delete" => c \in Deletes
         /\ c.op \in {"select", "recheck"} => c \in Selects
         /\ c.op = "archive" => c \in Archives
         /\ c.op = "register" => c \in Registers
         /\ c.op = "unregister" => c \in Unregisters
<1>1. c \in Commands
  BY HeadTailProperties DEF HistoryTypeOK
<1> QED BY <1>1 DEF Commands, Tasks, Restore, ShutdownTask, Appends, Creates, Deletes, Selects,
                    Archives, Registers, Unregisters

\* A stored row is one that exists.
LEMMA RowsExist ==
  ASSUME HistoryTypeOK
  PROVE  /\ \A r \in StoredRows : r # NoRow
         /\ \A w \in Existing : w \in Worktrees /\ rows[w] \in StoredRows
         /\ Visible \subseteq Existing
<1>1. ASSUME NEW r \in StoredRows PROVE r # NoRow
  <2>1. DOMAIN r = {"project", "request"} /\ DOMAIN NoRow = {"project"}
    BY DEF StoredRows, NoRow
  <2> QED BY <2>1
<1>2. \A w \in Existing : w \in Worktrees /\ rows[w] \in StoredRows
  BY DEF HistoryTypeOK, Existing
<1> QED BY <1>1, <1>2 DEF Visible

\* Where no row and no registration changes, what is visible stays.
LEMMA SameRows ==
  ASSUME UNCHANGED <<rows, registered>>
  PROVE  /\ Existing' = Existing /\ Visible' = Visible
         /\ \A p : OfProject(p)' = OfProject(p)
         /\ OneWorkspacePerRequest => OneWorkspacePerRequest'
BY DEF Existing, Visible, OfProject, OneWorkspacePerRequest

\* A command that arrives changes nothing but the line.
LEMMA CallsKeep ==
  ASSUME HistoryInv,
         \/ CallAppend \/ CallDelete \/ CallRegister \/ CallCreate \/ CallSelect
         \/ CallUnregister \/ CallArchive \/ CallShutdown
  PROVE  HistoryInv'
<1>1. ASSUME NEW c \in Commands, Waits(c), Arrives(c) PROVE HistoryInv'
  <2>1. line' = Append(line, c) /\ UNCHANGED <<database, trusted, startup, historyPast>>
    BY <1>1 DEF Arrives, memory, gates
  <2> QED BY <1>1, <2>1, ArrivalKeeps
<1>2. CASE CallAppend
  <2>1. PICK t \in Turns, w \in Worktrees, st \in {"running", "waiting", "completed"} :
          Arrives([op |-> "append", at |-> "write", turn |-> t, ws |-> w, st |-> st])
    BY <1>2 DEF CallAppend
  <2> QED BY <1>1, <2>1 DEF Commands, Appends, Waits
<1>3. CASE CallDelete
  BY <1>1, <1>3 DEF CallDelete, Commands, Deletes, Waits
<1>4. CASE CallRegister
  BY <1>1, <1>4 DEF CallRegister, Commands, Registers, Waits
<1>5. CASE CallCreate
  BY <1>1, <1>5 DEF CallCreate, Commands, Creates, Waits
<1>6. CASE CallSelect
  BY <1>1, <1>6 DEF CallSelect, Commands, Selects, Waits
<1>7. CASE CallUnregister
  BY <1>1, <1>7 DEF CallUnregister, Commands, Unregisters, Waits
<1>8. CASE CallArchive
  BY <1>1, <1>8 DEF CallArchive, Commands, Archives, Waits
<1>9. CASE CallShutdown
  <2>1. /\ line' = Append(line, ShutdownTask)
        /\ UNCHANGED <<database, trusted, startup, historyPast>>
    BY <1>9 DEF CallShutdown
  <2>2. ShutdownTask \in Commands /\ Waits(ShutdownTask)
    BY DEF Commands, Tasks, ShutdownTask, Waits
  <2> QED BY <2>1, <2>2, ArrivalKeeps
<1> QED BY <1>2, <1>3, <1>4, <1>5, <1>6, <1>7, <1>8, <1>9

\* An event of a turn, a challenge and a registration.
LEMMA WritesKeep ==
  ASSUME HistoryInv,
         AppendEvent \/ (\E w \in Worktrees : IssueChallenge(w)) \/ Register
  PROVE  HistoryInv'
<1> USE DEF HistoryInv, LineInv
<1>1. CASE AppendEvent
  <2> DEFINE c == Head(line)
  <2>1. /\ line # <<>> /\ c.op = "append" /\ Answered
        /\ UNCHANGED <<registered, rows, activeWorkspace, trusted, startup, recovered>>
    BY <1>1 DEF AppendEvent, At, memory, Unmoved, gates
  <2>2. line' \in Seq(Commands) /\ LineInv' /\ startup = "ready" /\ startup' = "ready"
    BY <2>1, AnswerKeeps
  <2>3. c.turn \in Turns /\ [ws |-> c.ws, st |-> c.st] \in StoredTurns
    BY <2>1, HolderTyped DEF Appends, StoredTurns
  <2>4. \/ turns' = [turns EXCEPT ![c.turn] = [ws |-> c.ws, st |-> c.st]]
             /\ fresh' = fresh \union {c.turn}
        \/ UNCHANGED <<turns, fresh>>
    BY <1>1 DEF AppendEvent
  <2>5. HistoryTypeOK'
    BY <2>1, <2>2, <2>3, <2>4 DEF HistoryTypeOK
  <2>6. RecoveryHolds'
    BY <2>1, <2>2, <2>3, <2>4 DEF HistoryTypeOK, RecoveryHolds
  <2>7. WorkspacesAgree'
    BY <2>1, SameRows DEF WorkspacesAgree, ActiveIsVisible, TrustedIsVisible
  <2> QED BY <2>2, <2>5, <2>6, <2>7
<1>2. CASE \E w \in Worktrees : IssueChallenge(w)
  <2>1. UNCHANGED <<registered, rows, activeWorkspace, turns, trusted, line, startup, historyPast>>
    BY <1>2 DEF IssueChallenge, database, Unmoved, gates
  <2>2. HistoryTypeOK' /\ LineWaits' /\ StartHoldsLock'
    BY <2>1 DEF HistoryTypeOK, LineWaits, StartHoldsLock
  <2>3. HolderIsSound'
    BY <2>1, SameRows DEF HolderIsSound, At
  <2>4. RecoveryHolds' /\ WorkspacesAgree'
    BY <2>1, SameRows
       DEF historyPast, RecoveryHolds, At, WorkspacesAgree, ActiveIsVisible, TrustedIsVisible
  <2> QED BY <2>2, <2>3, <2>4
<1>3. CASE Register
  <2> DEFINE c == Head(line)
  <2>1. /\ line # <<>> /\ c.op = "register" /\ Answered
        /\ UNCHANGED <<rows, activeWorkspace, turns, trusted, startup, fresh, recovered>>
        /\ registered' \in {registered, registered \union {c.project}}
    BY <1>3 DEF Register, At, memory, Unmoved, gates, historyPast
  <2>2. line' \in Seq(Commands) /\ LineInv' /\ startup = "ready" /\ startup' = "ready"
    BY <2>1, AnswerKeeps
  <2>3. c.project \in Projects
    BY <2>1, HolderTyped DEF Registers
  <2>4. HistoryTypeOK' /\ RecoveryHolds'
    BY <2>1, <2>2, <2>3 DEF HistoryTypeOK, RecoveryHolds
  <2>5. Existing' = Existing /\ Visible \subseteq Visible'
    BY <2>1 DEF Existing, Visible
  <2>6. WorkspacesAgree'
    BY <2>1, <2>5 DEF WorkspacesAgree, ActiveIsVisible, TrustedIsVisible, OneWorkspacePerRequest
  <2> QED BY <2>2, <2>4, <2>6
<1> QED BY <1>1, <1>2, <1>3

\* Turns that are forgotten are not unfinished.
LEMMA TurnsGo ==
  ASSUME HistoryTypeOK, NEW w,
         turns' = [t \in Turns |->
           IF turns[t] # NoTurn /\ turns[t].ws = w THEN NoTurn ELSE turns[t]]
  PROVE  /\ turns' \in [Turns -> {NoTurn} \union StoredTurns]
         /\ \A t \in Turns : turns'[t].st \in Unfinished => turns[t].st \in Unfinished
<1>1. NoTurn.st \notin Unfinished
  BY DEF NoTurn, Unfinished
<1> QED BY <1>1 DEF HistoryTypeOK

\* A deletion takes the row and ends the trust in it together.
LEMMA DeleteKeeps ==
  ASSUME HistoryInv, DeleteHistory
  PROVE  HistoryInv'
<1> USE DEF HistoryInv, LineInv
<1> DEFINE w == Head(line).ws
<1>1. /\ line # <<>> /\ Head(line).op = "delete" /\ Answered
      /\ UNCHANGED <<registered, activeWorkspace, trusted, startup, fresh, recovered>>
  BY DEF DeleteHistory, At, Unmoved, gates, historyPast
<1>2. line' \in Seq(Commands) /\ LineInv' /\ startup = "ready" /\ startup' = "ready"
  BY <1>1, AnswerKeeps
<1>3. CASE UNCHANGED <<turns, rows>>
  <2>1. HistoryTypeOK' /\ RecoveryHolds' /\ WorkspacesAgree'
    BY <1>1, <1>2, <1>3, SameRows
       DEF HistoryTypeOK, RecoveryHolds, WorkspacesAgree, ActiveIsVisible, TrustedIsVisible
  <2> QED BY <1>2, <2>1
<1>4. CASE /\ w \in Visible
           /\ turns' = [t \in Turns |->
                IF turns[t] # NoTurn /\ turns[t].ws = w THEN NoTurn ELSE turns[t]]
           /\ rows' = [rows EXCEPT ![w].request = "forgotten"]
  <2>1. w \in Worktrees /\ rows[w] \in StoredRows /\ rows \in [Worktrees -> {NoRow} \union StoredRows]
    BY <1>4, RowsExist DEF HistoryTypeOK
  <2>2. /\ rows'[w] \in StoredRows /\ rows'[w].project = rows[w].project
        /\ rows'[w].request = "forgotten"
        /\ \A v \in Worktrees \ {w} : rows'[v] = rows[v]
        /\ rows' \in [Worktrees -> {NoRow} \union StoredRows]
    BY <1>4, <2>1 DEF StoredRows
  <2>3. /\ turns' \in [Turns -> {NoTurn} \union StoredTurns]
        /\ \A t \in Turns : turns'[t].st \in Unfinished => turns[t].st \in Unfinished
    BY <1>4, TurnsGo
  <2>4. Existing' = Existing /\ Visible' = Visible
    BY <1>1, <1>4, <2>1, <2>2, RowsExist DEF Existing, Visible
  <2>5. OneWorkspacePerRequest'
    BY <2>1, <2>2, <2>4, RowsExist DEF WorkspacesAgree, OneWorkspacePerRequest
  <2>6. HistoryTypeOK' /\ RecoveryHolds' /\ WorkspacesAgree'
    BY <1>1, <1>2, <2>2, <2>3, <2>4, <2>5
       DEF HistoryTypeOK, RecoveryHolds, WorkspacesAgree, ActiveIsVisible, TrustedIsVisible
  <2> QED BY <1>2, <2>6
<1> QED BY <1>3, <1>4 DEF DeleteHistory

\* A row goes, with its turns, and the active workspace is another.
LEMMA RowGoes ==
  ASSUME HistoryTypeOK, WorkspacesAgree, NEW w \in Worktrees, Forgets(w), UNCHANGED registered
  PROVE  /\ rows' \in [Worktrees -> {NoRow} \union StoredRows]
         /\ turns' \in [Turns -> {NoTurn} \union StoredTurns]
         /\ \A t \in Turns : turns'[t].st \in Unfinished => turns[t].st \in Unfinished
         /\ Visible' = Visible \ {w}
         /\ ActiveIsVisible' /\ OneWorkspacePerRequest'
<1>1. /\ rows' = [rows EXCEPT ![w] = NoRow]
      /\ turns' = [t \in Turns |->
           IF turns[t] # NoTurn /\ turns[t].ws = w THEN NoTurn ELSE turns[t]]
      /\ IF activeWorkspace = w THEN activeWorkspace' \in Fallback(Visible \ {w})
         ELSE activeWorkspace' = activeWorkspace
  BY DEF Forgets
<1>2. /\ rows' \in [Worktrees -> {NoRow} \union StoredRows] /\ rows'[w] = NoRow
      /\ \A v \in Worktrees \ {w} : rows'[v] = rows[v]
  BY <1>1 DEF HistoryTypeOK
<1>3. Existing' = Existing \ {w}
  BY <1>2 DEF Existing
<1>4. Visible' = Visible \ {w}
  BY <1>2, <1>3 DEF Visible, Existing
<1>5. ActiveIsVisible'
  BY <1>1, <1>4 DEF WorkspacesAgree, ActiveIsVisible, Fallback
<1>6. OneWorkspacePerRequest'
  BY <1>2, <1>3, RowsExist DEF WorkspacesAgree, OneWorkspacePerRequest
<1> QED BY <1>1, <1>2, <1>4, <1>5, <1>6, TurnsGo

-----------------------------------------------------------------------------

\* A create selects the workspace its request has, or makes a worktree for it.
LEMMA LookupKeeps ==
  ASSUME HistoryInv, Lookup
  PROVE  HistoryInv'
<1> USE DEF HistoryInv, LineInv
<1> DEFINE c == Head(line)
<1>1. /\ line # <<>> /\ c.op = "create" /\ c.at = "lookup" /\ c \in Creates
      /\ UNCHANGED <<registered, rows, turns, trusted, startup, fresh, recovered>>
  BY HolderTyped DEF Lookup, At, Unmoved, memory, gates, historyPast
<1>2. CASE Answered /\ (UNCHANGED activeWorkspace \/ activeWorkspace' \in Visible)
  <2>1. line' \in Seq(Commands) /\ LineInv' /\ startup = "ready" /\ startup' = "ready"
    BY <1>1, <1>2, AnswerKeeps
  <2>2. HistoryTypeOK' /\ RecoveryHolds' /\ WorkspacesAgree'
    BY <1>1, <1>2, <2>1, SameRows
       DEF HistoryTypeOK, RecoveryHolds, WorkspacesAgree, ActiveIsVisible, TrustedIsVisible
  <2> QED BY <2>1, <2>2
<1>3. ASSUME UNCHANGED activeWorkspace, NEW w \in Worktrees \ (Existing \union worktrees),
             Step([c EXCEPT !.at = "persist", !.ws = w])
      PROVE  HistoryInv'
  <2> DEFINE d == [c EXCEPT !.at = "persist", !.ws = w]
  <2>1. Step(d) /\ d \in Creates /\ d.op = "create" /\ d.at = "persist" /\ d.ws = w
    BY <1>1, <1>3 DEF Creates
  <2> HIDE DEF d
  <2>2. d \in Commands /\ c.op # "restore" /\ d.op # "restore"
    BY <1>1, <2>1 DEF Commands
  <2>3. /\ line' \in Seq(Commands) /\ LineWaits' /\ StartHoldsLock'
        /\ startup = "ready" /\ startup' = "ready" /\ line' # <<>> /\ Head(line') = d
    BY <1>1, <2>1, <2>2, StepKeeps
  <2>4. w \notin Existing' \union trusted'
    BY <1>1, SameRows, RowsExist DEF WorkspacesAgree, TrustedIsVisible
  <2>5. HolderIsSound'
    BY <2>1, <2>3, <2>4 DEF HolderIsSound, At
  <2>6. HistoryTypeOK' /\ RecoveryHolds' /\ WorkspacesAgree'
    BY <1>1, <1>3, <2>3, SameRows
       DEF HistoryTypeOK, RecoveryHolds, WorkspacesAgree, ActiveIsVisible, TrustedIsVisible
  <2> QED BY <2>3, <2>5, <2>6
<1> QED BY <1>2, <1>3 DEF Lookup

\* A create stores a new worktree's row, which nobody trusts yet.
LEMMA PersistKeeps ==
  ASSUME HistoryInv, Persist
  PROVE  HistoryInv'
<1> USE DEF HistoryInv, LineInv
<1> DEFINE c == Head(line)
<1>1. /\ line # <<>> /\ c.op = "create" /\ c.at = "persist" /\ c \in Creates
      /\ c.ws \in Worktrees \ (Existing \union trusted)
      /\ UNCHANGED <<registered, activeWorkspace, turns, trusted, startup, fresh, recovered>>
  BY HolderTyped DEF Persist, At, Unmoved, memory, gates, historyPast, HolderIsSound
<1>2. CASE Answered /\ UNCHANGED rows
  <2>1. line' \in Seq(Commands) /\ LineInv' /\ startup = "ready" /\ startup' = "ready"
    BY <1>1, <1>2, AnswerKeeps
  <2>2. HistoryTypeOK' /\ RecoveryHolds' /\ WorkspacesAgree'
    BY <1>1, <1>2, <2>1, SameRows
       DEF HistoryTypeOK, RecoveryHolds, WorkspacesAgree, ActiveIsVisible, TrustedIsVisible
  <2> QED BY <2>1, <2>2
<1>3. CASE /\ c.project \in registered /\ Known(c.request) = {}
           /\ rows' = [rows EXCEPT ![c.ws] = [project |-> c.project, request |-> c.request]]
           /\ Step([c EXCEPT !.at = "activate"])
  <2> DEFINE d == [c EXCEPT !.at = "activate"]
  <2>1. Step(d) /\ d \in Creates /\ d.op = "create" /\ d.at = "activate" /\ d.ws = c.ws
    BY <1>1, <1>3 DEF Creates
  <2> HIDE DEF d
  <2>2. d \in Commands /\ c.op # "restore" /\ d.op # "restore"
    BY <1>1, <2>1 DEF Commands
  <2>3. /\ line' \in Seq(Commands) /\ LineWaits' /\ StartHoldsLock'
        /\ startup = "ready" /\ startup' = "ready" /\ line' # <<>> /\ Head(line') = d
    BY <1>1, <2>1, <2>2, StepKeeps
  <2>4. PICK r \in StoredRows : /\ r.project = c.project /\ r.request = c.request
                                /\ rows' = [rows EXCEPT ![c.ws] = r]
    BY <1>1, <1>3 DEF Creates, StoredRows
  <2>5. /\ rows' \in [Worktrees -> {NoRow} \union StoredRows] /\ rows'[c.ws] = r
        /\ \A v \in Worktrees \ {c.ws} : rows'[v] = rows[v]
    BY <1>1, <2>4 DEF HistoryTypeOK
  <2>6. Existing' = Existing \union {c.ws}
    BY <1>1, <2>5, RowsExist DEF Existing
  <2>7. Visible' = Visible \union {c.ws}
    BY <1>1, <1>3, <2>4, <2>5, <2>6, RowsExist DEF Visible
  <2>8. HolderIsSound'
    BY <1>1, <2>1, <2>3, <2>7 DEF HolderIsSound, At
  <2>9. OneWorkspacePerRequest'
    BY <1>1, <1>3, <2>4, <2>5, <2>6, RowsExist DEF WorkspacesAgree, OneWorkspacePerRequest, Known
  <2>10. HistoryTypeOK' /\ RecoveryHolds' /\ ActiveIsVisible' /\ TrustedIsVisible'
    BY <1>1, <2>3, <2>5, <2>7
       DEF HistoryTypeOK, RecoveryHolds, WorkspacesAgree, ActiveIsVisible, TrustedIsVisible
  <2> QED BY <2>3, <2>8, <2>9, <2>10 DEF WorkspacesAgree
<1> QED BY <1>2, <1>3 DEF Persist

\* What a creation made is taken back, and its trust with it.
LEMMA TakeBackKeeps ==
  ASSUME HistoryInv, line # <<>>, Head(line).op # "restore", NEW w \in Worktrees, TakesBack(w),
         trusted' = trusted \ {w}, UNCHANGED <<registered, startup, fresh, recovered>>
  PROVE  HistoryInv'
<1> USE DEF HistoryInv, LineInv
<1>1. line' \in Seq(Commands) /\ LineInv' /\ startup = "ready" /\ startup' = "ready"
  BY AnswerKeeps DEF TakesBack
<1>2. CASE UNCHANGED <<rows, turns, activeWorkspace>>
  BY <1>1, <1>2, SameRows
     DEF HistoryTypeOK, RecoveryHolds, WorkspacesAgree, ActiveIsVisible, TrustedIsVisible
<1>3. CASE Forgets(w)
  <2>1. /\ rows' \in [Worktrees -> {NoRow} \union StoredRows]
        /\ turns' \in [Turns -> {NoTurn} \union StoredTurns]
        /\ \A t \in Turns : turns'[t].st \in Unfinished => turns[t].st \in Unfinished
        /\ Visible' = Visible \ {w}
        /\ ActiveIsVisible' /\ OneWorkspacePerRequest'
    BY <1>3, RowGoes
  <2>2. HistoryTypeOK' /\ RecoveryHolds' /\ TrustedIsVisible'
    BY <1>1, <2>1 DEF HistoryTypeOK, RecoveryHolds, WorkspacesAgree, TrustedIsVisible
  <2> QED BY <1>1, <2>1, <2>2 DEF WorkspacesAgree
<1> QED BY <1>2, <1>3 DEF TakesBack

\* A created workspace is made the active one, and trusted, only while its row is visible.
LEMMA ActivateKeeps ==
  ASSUME HistoryInv, Activate
  PROVE  HistoryInv'
<1> USE DEF HistoryInv, LineInv
<1> DEFINE c == Head(line)
<1>1. /\ line # <<>> /\ c.op = "create" /\ c.at = "activate" /\ c \in Creates
      /\ c.ws \in Visible \ trusted /\ c.ws \in Worktrees
      /\ UNCHANGED <<registered, startup, fresh, recovered>>
  BY HolderTyped, RowsExist DEF Activate, At, Unmoved, gates, historyPast, HolderIsSound
<1>2. CASE TakesBack(c.ws) /\ UNCHANGED trusted
  BY <1>1, <1>2, TakeBackKeeps
<1>3. CASE /\ trusted' = trusted \union {c.ws} /\ Step([c EXCEPT !.at = "select"])
           /\ UNCHANGED <<rows, turns, activeWorkspace, worktrees>>
  <2> DEFINE d == [c EXCEPT !.at = "select"]
  <2>1. Step(d) /\ d \in Creates /\ d.op = "create" /\ d.at = "select" /\ d.ws = c.ws
    BY <1>1, <1>3 DEF Creates
  <2> HIDE DEF d
  <2>2. d \in Commands /\ c.op # "restore" /\ d.op # "restore"
    BY <1>1, <2>1 DEF Commands
  <2>3. /\ line' \in Seq(Commands) /\ LineWaits' /\ StartHoldsLock'
        /\ startup = "ready" /\ startup' = "ready" /\ line' # <<>> /\ Head(line') = d
    BY <1>1, <2>1, <2>2, StepKeeps
  <2>4. HolderIsSound'
    BY <1>1, <1>3, <2>1, <2>3, SameRows DEF HolderIsSound, At
  <2>5. HistoryTypeOK' /\ RecoveryHolds' /\ WorkspacesAgree'
    BY <1>1, <1>3, <2>3, SameRows
       DEF HistoryTypeOK, RecoveryHolds, WorkspacesAgree, ActiveIsVisible, TrustedIsVisible
  <2> QED BY <2>3, <2>4, <2>5
<1> QED BY <1>2, <1>3 DEF Activate

\* So it is when the create only has to select what it made earlier.
LEMMA SelectCreatedKeeps ==
  ASSUME HistoryInv, SelectCreated
  PROVE  HistoryInv'
<1> USE DEF HistoryInv, LineInv
<1> DEFINE c == Head(line)
<1>1. /\ line # <<>> /\ c.op = "create" /\ c.ws \in Visible /\ c.ws \in Worktrees
      /\ UNCHANGED <<registered, startup, fresh, recovered>>
  BY RowsExist DEF SelectCreated, At, Unmoved, gates, historyPast, HolderIsSound
<1>2. CASE TakesBack(c.ws) /\ trusted' = trusted \ {c.ws}
  BY <1>1, <1>2, TakeBackKeeps
<1>3. CASE /\ activeWorkspace' = c.ws /\ Answered
           /\ UNCHANGED <<rows, turns, worktrees, trusted>>
  <2>1. line' \in Seq(Commands) /\ LineInv' /\ startup = "ready" /\ startup' = "ready"
    BY <1>1, <1>3, AnswerKeeps
  <2>2. HistoryTypeOK' /\ RecoveryHolds' /\ WorkspacesAgree'
    BY <1>1, <1>3, <2>1, SameRows
       DEF HistoryTypeOK, RecoveryHolds, WorkspacesAgree, ActiveIsVisible, TrustedIsVisible
  <2> QED BY <2>1, <2>2
<1> QED BY <1>2, <1>3 DEF SelectCreated

-----------------------------------------------------------------------------
\* What is answered, or goes on, without touching the rows; what is trusted stays visible.
LEMMA TrustAnswered ==
  ASSUME HistoryInv, line # <<>>, Head(line).op # "restore", Answered,
         UNCHANGED <<registered, rows, turns, startup, fresh, recovered>>,
         activeWorkspace' \in Visible \union {activeWorkspace}, trusted' \subseteq Visible
  PROVE  HistoryInv'
<1> USE DEF HistoryInv, LineInv
<1>1. line' \in Seq(Commands) /\ LineInv' /\ startup = "ready" /\ startup' = "ready"
  BY AnswerKeeps
<1>2. HistoryTypeOK' /\ RecoveryHolds' /\ WorkspacesAgree'
  BY <1>1, SameRows
     DEF HistoryTypeOK, RecoveryHolds, WorkspacesAgree, ActiveIsVisible, TrustedIsVisible
<1> QED BY <1>1, <1>2

\* A step that changes what is trusted to something visible, and keeps the lock, is sound.
LEMMA TrustSteps ==
  ASSUME HistoryInv, line # <<>>, Head(line).op # "restore",
         NEW d \in Commands, d.op # "restore", Step(d),
         UNCHANGED <<registered, rows, turns, activeWorkspace, startup, fresh, recovered>>,
         trusted' \subseteq Visible, HolderIsSound'
  PROVE  HistoryInv'
<1> USE DEF HistoryInv, LineInv
<1>1. /\ line' \in Seq(Commands) /\ LineWaits' /\ StartHoldsLock'
      /\ startup = "ready" /\ startup' = "ready" /\ line' # <<>> /\ Head(line') = d
  BY StepKeeps
<1>2. HistoryTypeOK' /\ RecoveryHolds' /\ WorkspacesAgree'
  BY <1>1, SameRows
     DEF HistoryTypeOK, RecoveryHolds, WorkspacesAgree, ActiveIsVisible, TrustedIsVisible
<1> QED BY <1>1, <1>2

\* The preflight of a selection trusts only a workspace that is visible.
LEMMA PreflightKeeps ==
  ASSUME HistoryInv, Preflight
  PROVE  HistoryInv'
<1> USE DEF HistoryInv, LineInv
<1> DEFINE c == Head(line)
<1>1. /\ line # <<>> /\ c.op \in {"select", "recheck"} /\ c \in Selects /\ c.op # "restore"
      /\ UNCHANGED <<registered, rows, turns, activeWorkspace, startup, fresh, recovered>>
      /\ trusted \subseteq Visible
  BY HolderTyped
     DEF Preflight, At, Unmoved, database, gates, historyPast, WorkspacesAgree, TrustedIsVisible
<1>2. CASE Answered /\ (UNCHANGED trusted \/ trusted' \subseteq Visible)
  BY <1>1, <1>2, TrustAnswered
<1>3. ASSUME c.ws \in Visible, trusted' \subseteq Visible, c.op = "select",
             NEW at \in {"keep", "select"}, Step([c EXCEPT !.at = at])
      PROVE  HistoryInv'
  <2> DEFINE d == [c EXCEPT !.at = at]
  <2>1. Step(d) /\ d \in Selects /\ d.op = "select" /\ d.at = at /\ d.ws = c.ws
    BY <1>1, <1>3 DEF Selects
  <2> HIDE DEF d
  <2>2. d \in Commands /\ d.op # "restore"
    BY <2>1 DEF Commands
  <2>3. line' # <<>> /\ Head(line') = d
    BY <1>1, <2>1, <2>2, StepKeeps
  <2>4. HolderIsSound'
    BY <1>1, <1>3, <2>1, <2>3, SameRows DEF HolderIsSound, At
  <2> QED BY <1>1, <1>3, <2>1, <2>2, <2>4, TrustSteps
<1>4. CASE /\ c.ws \in Visible
           /\ trusted' \in {trusted, IF c.ws \in worktrees THEN trusted \union {c.ws} ELSE trusted}
           /\ IF c.op = "recheck" THEN Answered
              ELSE Step([c EXCEPT !.at = IF c.ws \in trusted THEN "keep" ELSE "select"])
  <2>1. trusted' \subseteq Visible
    BY <1>1, <1>4
  <2> QED BY <1>1, <1>2, <1>3, <1>4, <2>1
<1> QED BY <1>2, <1>4 DEF Preflight

\* A selection ends with a visible active workspace.
LEMMA SelectKeeps ==
  ASSUME HistoryInv, Select
  PROVE  HistoryInv'
<1>1. /\ line # <<>> /\ Head(line).op # "restore" /\ Answered /\ Head(line).ws \in Visible
      /\ UNCHANGED <<registered, rows, turns, startup, fresh, recovered>>
      /\ activeWorkspace' \in {activeWorkspace, Head(line).ws}
      /\ trusted' \subseteq trusted /\ trusted \subseteq Visible
  BY DEF Select, At, Unmoved, gates, historyPast, HistoryInv, LineInv, HolderIsSound,
         WorkspacesAgree, TrustedIsVisible
<1> QED BY <1>1, TrustAnswered

\* An unregistration first ends the trust, then takes the project.
LEMMA UnregisterKeeps ==
  ASSUME HistoryInv, Untrust \/ Unregister
  PROVE  HistoryInv'
<1> USE DEF HistoryInv, LineInv
<1> DEFINE c == Head(line)
<1>1. /\ line # <<>> /\ c.op = "unregister" /\ c \in Unregisters
      /\ UNCHANGED <<rows, turns, startup, fresh, recovered>>
      /\ trusted \subseteq Visible
  BY HolderTyped
     DEF Untrust, Unregister, At, Unmoved, database, gates, historyPast, WorkspacesAgree,
         TrustedIsVisible
<1>2. CASE Untrust
  <2>1. UNCHANGED <<registered, activeWorkspace>>
    BY <1>2 DEF Untrust, database
  <2>2. CASE Answered /\ trusted' \in {trusted \ s : s \in SUBSET OfProject(c.project)}
    BY <1>1, <2>1, <2>2, TrustAnswered
  <2>3. CASE trusted' = trusted \ OfProject(c.project) /\ Step([c EXCEPT !.at = "write"])
    <3> DEFINE d == [c EXCEPT !.at = "write"]
    <3>1. /\ Step(d) /\ d \in Unregisters /\ d.op = "unregister" /\ d.at = "write"
          /\ d.project = c.project
      BY <1>1, <2>3 DEF Unregisters
    <3> HIDE DEF d
    <3>2. d \in Commands /\ d.op # "restore"
      BY <3>1 DEF Commands
    <3>3. line' # <<>> /\ Head(line') = d
      BY <1>1, <3>1, <3>2, StepKeeps
    <3>4. HolderIsSound'
      BY <1>1, <2>1, <2>3, <3>1, <3>3, SameRows DEF HolderIsSound, At
    <3> QED BY <1>1, <2>1, <2>3, <3>1, <3>2, <3>4, TrustSteps
  <2> QED BY <1>2, <2>2, <2>3 DEF Untrust
<1>3. CASE Unregister
  <2> DEFINE p == c.project
  <2>1. Answered /\ trusted \intersect OfProject(p) = {}
    BY <1>3, <1>1 DEF Unregister, At, HolderIsSound
  <2>2. CASE /\ trusted' \in (IF p \in registered THEN Restored(OfProject(p)) ELSE {trusted})
             /\ UNCHANGED <<registered, activeWorkspace>>
    <3>1. p \in registered => OfProject(p) \subseteq Visible
      BY DEF OfProject, Visible
    <3>2. trusted' \subseteq Visible
      BY <1>1, <2>2, <3>1 DEF Restored
    <3> QED BY <1>1, <2>1, <2>2, <3>2, TrustAnswered
  <2>3. CASE /\ registered' = registered \ {p}
             /\ IF activeWorkspace \in OfProject(p)
                THEN activeWorkspace' \in Fallback(Visible \ OfProject(p))
                ELSE UNCHANGED activeWorkspace
             /\ UNCHANGED trusted
    <3>1. line' \in Seq(Commands) /\ LineInv' /\ startup = "ready" /\ startup' = "ready"
      BY <1>1, <2>1, AnswerKeeps
    <3>2. Existing' = Existing /\ Visible' = Visible \ OfProject(p)
      BY <1>1, <2>3 DEF Existing, Visible, OfProject
    <3>3. ActiveIsVisible' /\ TrustedIsVisible' /\ OneWorkspacePerRequest'
      BY <1>1, <2>1, <2>3, <3>2
         DEF Fallback, WorkspacesAgree, ActiveIsVisible, TrustedIsVisible, OneWorkspacePerRequest
    <3>4. HistoryTypeOK' /\ RecoveryHolds'
      BY <1>1, <2>3, <3>1 DEF HistoryTypeOK, RecoveryHolds
    <3> QED BY <3>1, <3>3, <3>4 DEF WorkspacesAgree
  <2> QED BY <1>3, <2>2, <2>3 DEF Unregister
<1> QED BY <1>2, <1>3

\* An archive ends the trust before it removes the worktree and the row.
LEMMA ArchiveKeeps ==
  ASSUME HistoryInv, ArchiveUntrust \/ ArchiveRemove \/ ArchiveForget
  PROVE  HistoryInv'
<1> USE DEF HistoryInv, LineInv
<1> DEFINE c == Head(line)
<1>1. /\ line # <<>> /\ c.op = "archive" /\ c \in Archives
      /\ UNCHANGED <<registered, startup, fresh, recovered>>
      /\ trusted \subseteq Visible
  BY HolderTyped
     DEF ArchiveUntrust, ArchiveRemove, ArchiveForget, At, Unmoved, database, gates, historyPast,
         WorkspacesAgree, TrustedIsVisible
<1>2. ASSUME NEW at \in {"remove", "forget"}, Step([c EXCEPT !.at = at]),
             UNCHANGED <<rows, turns, activeWorkspace>>, trusted' = trusted \ {c.ws}
      PROVE  HistoryInv'
  <2> DEFINE d == [c EXCEPT !.at = at]
  <2>1. Step(d) /\ d \in Archives /\ d.op = "archive" /\ d.at = at /\ d.ws = c.ws
    BY <1>1, <1>2 DEF Archives
  <2> HIDE DEF d
  <2>2. d \in Commands /\ d.op # "restore"
    BY <2>1 DEF Commands
  <2>3. line' # <<>> /\ Head(line') = d
    BY <1>1, <2>1, <2>2, StepKeeps
  <2>4. HolderIsSound'
    BY <1>1, <1>2, <2>1, <2>3 DEF HolderIsSound, At
  <2> QED BY <1>1, <1>2, <2>1, <2>2, <2>4, TrustSteps
<1>3. CASE ArchiveUntrust
  BY <1>1, <1>2, <1>3, TrustAnswered DEF ArchiveUntrust, database
<1>4. CASE ArchiveRemove
  <2>1. c.ws \notin trusted /\ UNCHANGED <<rows, turns, activeWorkspace, trusted>>
    BY <1>4 DEF ArchiveRemove, At, HolderIsSound, database, memory
  <2>2. trusted' = trusted \ {c.ws}
    BY <2>1
  <2> QED BY <1>1, <1>2, <1>4, <2>1, <2>2, TrustAnswered DEF ArchiveRemove
<1>5. CASE ArchiveForget
  <2>1. c.ws \notin trusted /\ c.ws \in Worktrees /\ Answered /\ UNCHANGED trusted
    BY <1>1, <1>5 DEF ArchiveForget, At, HolderIsSound, memory, Archives
  <2>2. CASE UNCHANGED <<rows, turns, activeWorkspace>>
    BY <1>1, <2>1, <2>2, TrustAnswered
  <2>3. CASE Forgets(c.ws)
    <3>1. line' \in Seq(Commands) /\ LineInv' /\ startup = "ready" /\ startup' = "ready"
      BY <1>1, <2>1, AnswerKeeps
    <3>2. /\ rows' \in [Worktrees -> {NoRow} \union StoredRows]
          /\ turns' \in [Turns -> {NoTurn} \union StoredTurns]
          /\ \A t \in Turns : turns'[t].st \in Unfinished => turns[t].st \in Unfinished
          /\ Visible' = Visible \ {c.ws}
          /\ ActiveIsVisible' /\ OneWorkspacePerRequest'
      BY <1>1, <2>1, <2>3, RowGoes
    <3>3. HistoryTypeOK' /\ RecoveryHolds' /\ TrustedIsVisible'
      BY <1>1, <2>1, <3>1, <3>2 DEF HistoryTypeOK, RecoveryHolds, TrustedIsVisible
    <3> QED BY <3>1, <3>2, <3>3 DEF WorkspacesAgree
  <2> QED BY <1>5, <2>2, <2>3 DEF ArchiveForget
<1> QED BY <1>3, <1>4, <1>5

-----------------------------------------------------------------------------
\* Interrupting the turns leaves no unfinished one.
LEMMA TurnsInterrupted ==
  ASSUME HistoryTypeOK, InterruptsTurns
  PROVE  /\ turns' \in [Turns -> {NoTurn} \union StoredTurns]
         /\ \A t \in Turns : turns'[t].st \notin Unfinished
<1> SUFFICES ASSUME NEW t \in Turns
             PROVE  turns'[t] \in {NoTurn} \union StoredTurns /\ turns'[t].st \notin Unfinished
  BY DEF InterruptsTurns
<1>1. turns[t] \in {NoTurn} \union StoredTurns
      /\ turns'[t] = IF turns[t].st \in Unfinished THEN [turns[t] EXCEPT !.st = "interrupted"]
                     ELSE turns[t]
  BY DEF InterruptsTurns, HistoryTypeOK
<1>2. CASE turns[t].st \in Unfinished
  <2>1. turns[t] \in StoredTurns
    BY <1>1, <1>2 DEF NoTurn, Unfinished
  <2> QED BY <1>1, <1>2, <2>1 DEF StoredTurns, Unfinished
<1> QED BY <1>1, <1>2

\* The recovery, its end, and the shutdown's.
LEMMA RecoverKeeps ==
  ASSUME HistoryInv, Recover
  PROVE  HistoryInv'
<1> USE DEF HistoryInv, LineInv
<1>1. /\ line # <<>> /\ Head(line).op = "restore"
      /\ UNCHANGED <<registered, rows, activeWorkspace, trusted, fresh>>
  BY DEF Recover, At, memory
<1>2. WorkspacesAgree'
  BY <1>1, SameRows DEF WorkspacesAgree, ActiveIsVisible, TrustedIsVisible
<1>3. CASE InterruptsTurns /\ Step([op |-> "restore", at |-> "activate"]) /\ UNCHANGED startup
  <2> DEFINE d == [op |-> "restore", at |-> "activate"]
  <2>1. d \in Commands /\ d.op = "restore" /\ d.at = "activate"
    BY DEF Commands, Tasks, Restore
  <2> HIDE DEF d
  <2>2. line' \in Seq(Commands) /\ LineWaits' /\ line' # <<>> /\ Head(line') = d
    BY <1>1, <1>3, <2>1, LineSteps DEF d
  <2>3. StartHoldsLock' /\ HolderIsSound'
    BY <1>1, <1>3, <2>1, <2>2 DEF StartHoldsLock, HolderIsSound, At
  <2>4. HistoryTypeOK' /\ RecoveryHolds'
    BY <1>1, <1>3, <2>2, TurnsInterrupted DEF HistoryTypeOK, RecoveryHolds
  <2> QED BY <1>2, <2>2, <2>3, <2>4
<1>4. CASE RestoreEnds /\ recovered' = FALSE /\ UNCHANGED turns
  <2>1. line' \in Seq(Commands) /\ LineWaits' /\ (line' # <<>> => Waits(Head(line')))
    BY <1>1, <1>4, LineAnswered DEF RestoreEnds
  <2>2. StartHoldsLock' /\ HolderIsSound' /\ RecoveryHolds' /\ HistoryTypeOK'
    BY <1>1, <1>4, <2>1, NothingBegun
       DEF RestoreEnds, StartHoldsLock, RecoveryHolds, HistoryTypeOK
  <2> QED BY <1>2, <2>1, <2>2
<1> QED BY <1>3, <1>4 DEF Recover

\* The end of the start trusts only what is visible.
LEMMA RestoreTrustKeeps ==
  ASSUME HistoryInv, RestoreTrust
  PROVE  HistoryInv'
<1> USE DEF HistoryInv, LineInv
<1>1. /\ line # <<>> /\ Answered /\ startup' = "ready" /\ At("restore", "activate")
      /\ UNCHANGED <<registered, rows, activeWorkspace, turns, fresh, recovered>>
      /\ trusted' \subseteq trusted \union Visible
  BY DEF RestoreTrust, RestoreEnds, At, database, historyPast
<1>2. line' \in Seq(Commands) /\ LineWaits' /\ (line' # <<>> => Waits(Head(line')))
  BY <1>1, LineAnswered
<1>3. WorkspacesAgree'
  BY <1>1, SameRows DEF WorkspacesAgree, ActiveIsVisible, TrustedIsVisible
<1>4. StartHoldsLock' /\ HolderIsSound' /\ RecoveryHolds' /\ HistoryTypeOK'
  BY <1>1, <1>2, NothingBegun DEF StartHoldsLock, RecoveryHolds, HistoryTypeOK
<1> QED BY <1>2, <1>3, <1>4

\* A shutdown interrupts turns and changes nothing else.
LEMMA ShutdownKeeps ==
  ASSUME HistoryInv, Shutdown
  PROVE  HistoryInv'
<1> USE DEF HistoryInv, LineInv
<1>1. /\ line # <<>> /\ Head(line).op # "restore" /\ Answered
      /\ UNCHANGED <<registered, rows, activeWorkspace, trusted, startup, fresh, recovered>>
      /\ InterruptsTurns \/ UNCHANGED turns
  BY DEF Shutdown, At, memory, historyPast
<1>2. line' \in Seq(Commands) /\ LineInv' /\ startup = "ready" /\ startup' = "ready"
  BY <1>1, AnswerKeeps
<1>3. HistoryTypeOK' /\ RecoveryHolds'
  BY <1>1, <1>2, TurnsInterrupted DEF HistoryTypeOK, RecoveryHolds
<1>4. WorkspacesAgree'
  BY <1>1, SameRows DEF WorkspacesAgree, ActiveIsVisible, TrustedIsVisible
<1> QED BY <1>2, <1>3, <1>4

\* After a crash nothing is trusted, and the start is the first to hold the lock.
LEMMA CrashKeeps ==
  ASSUME HistoryInv, CrashHistory
  PROVE  HistoryInv'
<1> USE DEF HistoryInv, LineInv
<1>1. /\ line' = <<Restore>> /\ startup' = "pending" /\ trusted' = {}
      /\ UNCHANGED <<registered, rows, activeWorkspace, turns, recovered>>
  BY DEF CrashHistory, database
<1>2. line' # <<>> /\ Len(line') = 1 /\ Head(line') = Restore /\ Restore \in Commands
  BY <1>1 DEF Commands, Tasks
<1>3. HistoryTypeOK'
  BY <1>1, <1>2 DEF HistoryTypeOK
<1>4. LineWaits' /\ StartHoldsLock' /\ HolderIsSound' /\ RecoveryHolds'
  BY <1>1, <1>2
     DEF LineWaits, StartHoldsLock, HolderIsSound, At, Restore, RecoveryHolds
<1>5. WorkspacesAgree'
  BY <1>1, SameRows DEF WorkspacesAgree, ActiveIsVisible, TrustedIsVisible
<1> QED BY <1>3, <1>4, <1>5

\* Every step keeps the invariant of the history.
LEMMA HistoryKept == HistoryInv /\ [HistoryNext]_historyVars => HistoryInv'
<1> SUFFICES ASSUME HistoryInv, [HistoryNext]_historyVars PROVE HistoryInv'
  OBVIOUS
<1>1. CASE HistoryNext
  BY <1>1, CallsKeep, WritesKeep, DeleteKeeps, LookupKeeps, PersistKeeps, ActivateKeeps,
     SelectCreatedKeeps, PreflightKeeps, SelectKeeps, UnregisterKeeps, ArchiveKeeps, RecoverKeeps,
     RestoreTrustKeeps, ShutdownKeeps, CrashKeeps
     DEF HistoryNext, HistoryStep
<1>2. CASE UNCHANGED historyVars
  BY <1>2
     DEF historyVars, database, memory, gates, historyPast, HistoryInv, LineInv, HistoryTypeOK,
         LineWaits, HolderIsSound, At, StartHoldsLock, RecoveryHolds, WorkspacesAgree,
         ActiveIsVisible, TrustedIsVisible, OneWorkspacePerRequest, Existing, Visible, OfProject
<1> QED BY <1>1, <1>2

\* The database, what is trusted in memory and the line of commands keep their types.
THEOREM HistoryTypeCorrect == HistorySpec => []HistoryTypeOK
<1>1. HistoryInv => HistoryTypeOK
  BY DEF HistoryInv
<1> QED BY <1>1, HistoryBegins, HistoryKept, PTL DEF HistorySpec

\* Wherever a command is cut short by a failure, a shutdown or a crash: the active workspace
\* is one the user sees, trust does not outlive a row or its project, a request makes one
\* workspace, and after the start no turn of an earlier run is left open.
THEOREM HistoryIsSoundHolds == HistorySpec => []HistoryIsSound
<1>1. HistoryInv => HistoryIsSound
  BY DEF HistoryInv, HistoryIsSound, RecoveryHolds, TurnsAreClosed
<1> QED BY <1>1, HistoryBegins, HistoryKept, PTL DEF HistorySpec

-----------------------------------------------------------------------------
(* The preferences.                                                        *)

StoredPrefs == [n : Nat, l : PrefLocales]
ChoiceOrNone == PrefLocales \union {NoLocale}
Controllers ==
  [status : {"loading", "ready", "recovery", "saving", "error"},
   shown : StoredPrefs, recovery : BOOLEAN, desired : ChoiceOrNone, retry : ChoiceOrNone,
   begun : {"no", "asked", "yes", "failed"}, drain : {"none", "start", "write", "refresh"},
   tries : Nat, retrying : BOOLEAN]

PrefCalls ==
  [kind : {"none", "get", "update"}, at : {"rest", "asked", "answer", "error"},
   n : Nat, l : PrefLocales, prefs : StoredPrefs, recovery : BOOLEAN]

PrefTypeOK ==
  /\ prefFile \in [kind : {"missing", "unreadable", "legacy", "current"}, n : Nat, l : PrefLocales]
  /\ prefService \in [up : BOOLEAN, store : BOOLEAN, prefs : StoredPrefs, recovery : BOOLEAN]
  /\ prefUi \in Controllers
  /\ lastChoice \in ChoiceOrNone
  /\ prefCall \in PrefCalls

\* A version that one has seen is the version that another has, or an older one.
Agree(a, b) == a.n <= b.n /\ (a.n = b.n => a.l = b.l)

\* What is on its way to the UI came from the service that is there.
AnswersAgree ==
  /\ ~prefService.up => prefUi.shown.n = 0 /\ prefService.prefs.n = 0 /\ prefCall.at # "answer"
  /\ prefCall.at = "answer" /\ prefCall.prefs.n > 0 => Agree(prefCall.prefs, prefService.prefs)

\* The one choice the controller holds, and when it holds none.
HeldOnce ==
  /\ prefUi.desired # NoLocale => prefUi.retry = NoLocale
  /\ prefUi.drain # "none" => prefUi.desired # NoLocale
  /\ prefUi.drain \in {"write", "refresh"} => prefUi.begun # "asked"
  /\ prefUi.status = "error" => prefUi.desired = NoLocale

\* Where the answer to a get may replace what is shown, nothing was chosen yet, or the choice
\* is still held.
NothingChosen ==
  /\ prefUi.begun = "no" =>
       /\ prefUi.status = "loading" /\ ~prefUi.retrying
       /\ prefUi.desired = NoLocale /\ prefUi.retry = NoLocale
  /\ prefUi.begun = "asked" /\ prefUi.desired = NoLocale => prefUi.status = "loading"
  /\ prefUi.desired = NoLocale /\ prefUi.begun \in {"no", "asked"} => lastChoice = NoLocale
  /\ prefUi.status = "error" /\ prefUi.retry = NoLocale => lastChoice = NoLocale

PrefInv == PrefTypeOK /\ AnswersAgree /\ HeldOnce /\ NothingChosen /\ PreferencesAreKept

\* That nothing is chosen is no locale.
LEMMA NoLocaleIsNone == NoLocale \notin PrefLocales /\ DefaultLocale \in PrefLocales
BY PreferencesAssumption DEF NoLocale

\* A window that opens first finds neither a choice nor a call.
LEMMA PrefBegins == PrefInit => PrefInv
BY NoLocaleIsNone
   DEF PrefInit, PrefInv, PrefTypeOK, Controllers, StoredPrefs, ChoiceOrNone, PrefCalls,
       NewController, NoPrefCall, NoPrefService, Prefs, AnswersAgree, HeldOnce, NothingChosen,
       PreferencesAreKept, ChoiceIsKept, VersionsAgree

\* The choice in the terms of what the controller holds.
LEMMA ChoiceHeld ==
  ASSUME PrefTypeOK
  PROVE  ChoiceIsKept <=>
           (lastChoice # NoLocale =>
              lastChoice = IF prefUi.desired # NoLocale THEN prefUi.desired
                           ELSE IF prefUi.retry # NoLocale THEN prefUi.retry ELSE prefUi.shown.l)
BY DEF ChoiceIsKept

\* Steps of the service leave the controller alone, and those of the controller the service.
LEMMA ServiceStepKeeps ==
  ASSUME PrefInv, OpenService \/ GetPreferences \/ UpdatePreferences \/ LoseCall
  PROVE  PrefInv'
<1> USE DEF PrefInv
<1>1. UNCHANGED <<prefUi, lastChoice>>
  BY DEF OpenService, GetPreferences, UpdatePreferences, LoseCall
<1>2. HeldOnce' /\ NothingChosen' /\ ChoiceIsKept'
  BY <1>1 DEF HeldOnce, NothingChosen, PreferencesAreKept, ChoiceIsKept
<1>3. /\ prefFile.kind \in {"missing", "unreadable", "legacy", "current"}
      /\ prefFile.n \in Nat /\ prefFile.l \in PrefLocales
      /\ prefService.prefs \in StoredPrefs
      /\ prefService.prefs.n \in Nat /\ prefService.prefs.l \in PrefLocales
      /\ prefCall.n \in Nat /\ prefCall.l \in PrefLocales
      /\ prefUi.shown \in StoredPrefs /\ prefUi.shown.n \in Nat /\ prefUi.shown.l \in PrefLocales
  BY DEF PrefTypeOK, Controllers, PrefCalls, StoredPrefs
<1>4. CASE OpenService
  <2>1. ~prefService.up /\ UNCHANGED prefCall
    BY <1>4 DEF OpenService
  <2>2. /\ prefService'.up /\ prefService'.prefs \in StoredPrefs
        /\ prefService' \in [up : BOOLEAN, store : BOOLEAN, prefs : StoredPrefs, recovery : BOOLEAN]
        /\ prefService'.prefs.n > 0 =>
             /\ prefFile'.kind = "current"
             /\ prefFile'.n = prefService'.prefs.n /\ prefFile'.l = prefService'.prefs.l
    <3> DEFINE opened(p, ok) == [up |-> TRUE, store |-> TRUE, prefs |-> p, recovery |-> ~ok]
    <3>1. /\ Prefs(0, DefaultLocale) \in StoredPrefs /\ Prefs(0, DefaultLocale).n = 0
          /\ Prefs(prefFile.n, prefFile.l) \in StoredPrefs
          /\ Prefs(prefFile.n + 1, prefFile.l) \in StoredPrefs
      BY <1>3, NoLocaleIsNone DEF Prefs, StoredPrefs
    <3>2. CASE prefService' = opened(Prefs(0, DefaultLocale), FALSE)
      BY <3>1, <3>2
    <3>3. CASE prefService' = [NoPrefService EXCEPT !.up = TRUE]
      <4>1. prefService' = [up |-> TRUE, store |-> FALSE, prefs |-> Prefs(0, DefaultLocale),
                            recovery |-> TRUE]
        BY <3>3 DEF NoPrefService
      <4> QED BY <3>1, <4>1
    <3>4. CASE /\ prefFile.kind = "current" /\ UNCHANGED prefFile
               /\ prefService' = opened(Prefs(prefFile.n, prefFile.l), TRUE)
      BY <3>1, <3>4 DEF Prefs
    <3>5. CASE /\ Saves(Prefs(prefFile.n + 1, prefFile.l))
               /\ prefService' = opened(Prefs(prefFile.n + 1, prefFile.l), TRUE)
      BY <3>1, <3>5 DEF Prefs, Saves, AsFile
    <3> QED BY <1>4, <3>2, <3>3, <3>4, <3>5 DEF OpenService
  <2>3. prefFile' \in [kind : {"missing", "unreadable", "legacy", "current"}, n : Nat, l : PrefLocales]
    BY <1>3, <1>4 DEF OpenService, Saves, SaveFails, AsFile, Prefs, PrefTypeOK
  <2>4. PrefTypeOK'
    BY <1>1, <2>1, <2>2, <2>3 DEF PrefTypeOK
  <2>5. prefUi.shown.n = 0 /\ prefCall.at # "answer"
    BY <2>1 DEF AnswersAgree
  <2>6. AnswersAgree' /\ VersionsAgree'
    BY <1>1, <1>3, <2>1, <2>2, <2>5 DEF AnswersAgree, VersionsAgree, StoredPrefs
  <2> QED BY <1>2, <2>4, <2>6 DEF PreferencesAreKept
<1>5. CASE GetPreferences \/ UpdatePreferences \/ LoseCall
  <2>1. /\ prefService' \in [up : BOOLEAN, store : BOOLEAN, prefs : StoredPrefs, recovery : BOOLEAN]
        /\ prefService'.up = prefService.up
        /\ prefCall' \in PrefCalls
        /\ prefFile' \in [kind : {"missing", "unreadable", "legacy", "current"}, n : Nat, l : PrefLocales]
        /\ prefCall'.at = "answer" => prefService.up /\ prefCall'.prefs = prefService'.prefs
        /\ \/ UNCHANGED <<prefService, prefFile>>
           \/ /\ prefFile'.kind = "current" /\ prefFile'.n = prefService.prefs.n + 1
              /\ \/ UNCHANGED prefService
                 \/ /\ prefService'.prefs.n = prefFile'.n /\ prefService'.prefs.l = prefFile'.l
                    /\ prefService.up
    <3>1. CASE GetPreferences
      BY <3>1 DEF GetPreferences, PrefAnswers, PrefTypeOK, PrefCalls
    <3>2. CASE LoseCall
      BY <3>2 DEF LoseCall, PrefError, PrefTypeOK, PrefCalls
    <3>3. CASE UpdatePreferences
      <4> DEFINE p == Prefs(prefCall.n + 1, prefCall.l)
                 stored == [prefService EXCEPT !.prefs = p, !.recovery = FALSE]
      <4>1. /\ p \in StoredPrefs /\ p.n = prefCall.n + 1 /\ p.l = prefCall.l
            /\ AsFile(p) \in [kind : {"current"}, n : Nat, l : PrefLocales]
            /\ AsFile(p).kind = "current" /\ AsFile(p).n = p.n /\ AsFile(p).l = p.l
        BY <1>3 DEF Prefs, StoredPrefs, AsFile
      <4>2. CASE IsExpected /\ prefService.store /\ Saves(p) /\ prefService' = stored /\ PrefAnswers(stored)
        <5> HIDE DEF p
        <5>1. /\ prefService' \in [up : BOOLEAN, store : BOOLEAN, prefs : StoredPrefs, recovery : BOOLEAN]
              /\ prefService'.prefs = p /\ prefService'.up = prefService.up /\ prefService.up
          BY <3>3, <4>1, <4>2 DEF PrefTypeOK, UpdatePreferences
        <5>2. /\ prefCall' \in PrefCalls /\ prefCall'.prefs = p
          BY <4>1, <4>2 DEF PrefTypeOK, PrefCalls, PrefAnswers
        <5>3. prefFile' = AsFile(p) /\ p.n = prefService.prefs.n + 1
          BY <4>1, <4>2 DEF Saves, IsExpected
        <5> QED BY <4>1, <5>1, <5>2, <5>3
      <4>3. CASE /\ IsExpected /\ prefService.store /\ SaveFails(p)
                 /\ prefService' = prefService /\ PrefError
        <5> HIDE DEF p
        <5>1. prefFile' \in {prefFile, AsFile(p)} /\ p.n = prefService.prefs.n + 1
          BY <4>1, <4>3 DEF SaveFails, IsExpected
        <5>2. prefCall' \in PrefCalls /\ prefCall'.at = "error"
          BY <4>3 DEF PrefTypeOK, PrefCalls, PrefError
        <5> QED BY <4>1, <4>3, <5>1, <5>2 DEF PrefTypeOK
      <4>4. CASE PrefError /\ UNCHANGED <<prefFile, prefService, troubles>>
        BY <4>4 DEF PrefTypeOK, PrefCalls, PrefError
      <4> QED BY <3>3, <4>2, <4>3, <4>4 DEF UpdatePreferences, AfterFailedSave
    <3> QED BY <1>5, <3>1, <3>2, <3>3
  <2>2. PrefTypeOK'
    BY <1>1, <2>1 DEF PrefTypeOK
  <2>3. ~prefService.up => prefUi.shown.n = 0 /\ prefService.prefs.n = 0
    BY DEF AnswersAgree
  <2>4. /\ prefService'.prefs.n \in Nat /\ prefFile'.n \in Nat
        /\ ~prefService.up => UNCHANGED prefService
    BY <1>5, <2>1 DEF StoredPrefs, GetPreferences, UpdatePreferences, LoseCall
  <2>5. AnswersAgree'
    BY <1>1, <2>1, <2>3, <2>4 DEF AnswersAgree, Agree
  <2>6. VersionsAgree'
    BY <1>1, <1>3, <2>1, <2>3, <2>4 DEF PreferencesAreKept, VersionsAgree
  <2> QED BY <1>2, <2>2, <2>5, <2>6 DEF PreferencesAreKept
<1> QED BY <1>4, <1>5

\* What the controller shows is what it showed, or the answer it has.
LEMMA ControllerStep ==
  ASSUME PrefInv, prefUi' \in Controllers, lastChoice' \in ChoiceOrNone,
         prefUi'.shown = prefUi.shown
           \/ (prefCall.at = "answer" /\ prefUi'.shown = prefCall.prefs),
         UNCHANGED prefCall \/ (prefCall' \in PrefCalls /\ prefCall'.at # "answer"),
         UNCHANGED <<prefFile, prefService>>
  PROVE  PrefTypeOK' /\ AnswersAgree' /\ VersionsAgree'
<1> USE DEF PrefInv
<1>1. PrefTypeOK'
  BY DEF PrefTypeOK
<1>2. AnswersAgree'
  BY DEF AnswersAgree, Agree
<1>3. VersionsAgree'
  BY DEF PreferencesAreKept, VersionsAgree, AnswersAgree, Agree
<1> QED BY <1>1, <1>2, <1>3

\* The loop goes on with a choice, or ends without one.
LEMMA LoopsTo ==
  ASSUME NEW u \in Controllers, Loops(u)
  PROVE  /\ prefUi' \in Controllers /\ prefUi'.shown = u.shown
         /\ prefUi'.retry = u.retry /\ prefUi'.begun = u.begun
         /\ prefCall' \in PrefCalls /\ prefCall'.at # "answer"
         /\ prefUi'.status \in {"ready", "recovery", "saving"}
         /\ \/ /\ u.desired = NoLocale \/ u.desired = u.shown.l
               /\ prefUi'.desired = NoLocale /\ prefUi'.drain = "none"
            \/ /\ u.desired # NoLocale /\ prefUi'.desired = u.desired /\ prefUi'.drain = "write"
<1>0. NoPrefCall \in PrefCalls /\ NoPrefCall.at # "answer"
  BY NoLocaleIsNone DEF NoPrefCall, PrefCalls, StoredPrefs, Prefs
<1>1. CASE u.desired = NoLocale \/ IsStored(u)
  <2>1. prefUi' = Drained(u) /\ prefCall' = NoPrefCall
    BY <1>1 DEF Loops
  <2>2. /\ prefUi' \in Controllers /\ prefUi'.shown = u.shown
        /\ prefUi'.retry = u.retry /\ prefUi'.begun = u.begun
        /\ prefUi'.status \in {"ready", "recovery"}
        /\ prefUi'.desired = NoLocale /\ prefUi'.drain = "none"
    BY <2>1 DEF Drained, StatusFor, Controllers, ChoiceOrNone
  <2> QED BY <1>0, <1>1, <2>1, <2>2 DEF IsStored
<1>2. CASE ~(u.desired = NoLocale \/ IsStored(u))
  <2>1. prefUi' = [u EXCEPT !.drain = "write", !.status = "saving"] /\ prefCall' = AskUpdate(u)
    BY <1>2 DEF Loops
  <2>2. u.desired \in PrefLocales /\ u.shown.n \in Nat
    BY <1>2 DEF Controllers, ChoiceOrNone, StoredPrefs
  <2>3. prefCall' \in PrefCalls /\ prefCall'.at = "asked"
    BY <1>0, <2>1, <2>2 DEF AskUpdate, PrefCalls
  <2> QED BY <1>2, <2>1, <2>3 DEF Controllers
<1> QED BY <1>1, <1>2

\* A choice that could not be stored waits for a retry.
LEMMA FailsTo ==
  ASSUME NEW u \in Controllers, NEW v, v = PrefFail(u)
  PROVE  /\ v \in Controllers /\ v.shown = u.shown /\ v.begun = u.begun
         /\ v.desired = NoLocale /\ v.drain = "none" /\ v.status = "error"
         /\ v.retry = IF u.desired # NoLocale THEN u.desired ELSE u.retry
BY DEF PrefFail, Controllers, ChoiceOrNone

\* The start of the controller, a retry and a choice keep the invariant.
LEMMA InitializeKeeps ==
  ASSUME PrefInv, Initialize \/ RetryPreferences \/ (\E l \in PrefLocales : Choose(l))
  PROVE  PrefInv'
<1> USE DEF PrefInv
<1>0. prefUi \in Controllers /\ UNCHANGED <<prefFile, prefService>>
  BY DEF PrefTypeOK, Initialize, RetryPreferences, Choose, PrefUnmoved
<1>1. AskGet \in PrefCalls /\ AskGet.at = "asked"
  BY NoLocaleIsNone DEF AskGet, NoPrefCall, PrefCalls, StoredPrefs, Prefs
<1>2. ASSUME NEW p \in ChoiceOrNone, Retries(p)
      PROVE  /\ prefUi' \in Controllers /\ prefUi'.shown = prefUi.shown
             /\ prefUi'.desired = p /\ prefUi'.retry = NoLocale /\ prefUi'.status = "loading"
             /\ prefUi'.begun = "asked" /\ prefUi'.drain = prefUi.drain /\ prefCall' = AskGet
  BY <1>0, <1>2 DEF Retries, Controllers, ChoiceOrNone
<1>3. CASE Initialize
  <2>1. /\ prefUi' \in Controllers /\ prefUi.begun = "no"
        /\ prefUi' = [prefUi EXCEPT !.begun = "asked"] /\ prefCall' = AskGet
        /\ UNCHANGED lastChoice
    BY <1>0, <1>3 DEF Initialize, Controllers
  <2>2. PrefTypeOK' /\ AnswersAgree' /\ VersionsAgree'
    BY <1>0, <1>1, <2>1, ControllerStep DEF Controllers, PrefTypeOK
  <2>3. HeldOnce' /\ NothingChosen' /\ ChoiceIsKept'
    BY <1>0, <2>1
       DEF Controllers, HeldOnce, NothingChosen, PreferencesAreKept, ChoiceIsKept
  <2> QED BY <2>2, <2>3 DEF PreferencesAreKept
<1>4. CASE RetryPreferences
  <2>1. prefUi.status = "error" /\ Retries(prefUi.retry) /\ UNCHANGED lastChoice
    BY <1>4 DEF RetryPreferences
  <2>2. /\ prefUi' \in Controllers /\ prefUi'.shown = prefUi.shown
        /\ prefUi'.desired = prefUi.retry /\ prefUi'.retry = NoLocale
        /\ prefUi'.status = "loading" /\ prefUi'.begun = "asked" /\ prefUi'.drain = "none"
        /\ prefCall' = AskGet
    BY <1>0, <1>2, <2>1 DEF Controllers, HeldOnce
  <2>3. PrefTypeOK' /\ AnswersAgree' /\ VersionsAgree'
    BY <1>0, <1>1, <2>1, <2>2, ControllerStep DEF PrefTypeOK
  <2>4. HeldOnce' /\ NothingChosen' /\ ChoiceIsKept'
    BY <2>1, <2>2, <2>3, ChoiceHeld
       DEF HeldOnce, NothingChosen, PreferencesAreKept, ChoiceIsKept
  <2> QED BY <2>3, <2>4 DEF PreferencesAreKept
<1>5. ASSUME NEW l \in PrefLocales, Choose(l) PROVE PrefInv'
  <2>1. lastChoice' = l /\ l # NoLocale /\ l \in ChoiceOrNone
    BY <1>5, NoLocaleIsNone DEF Choose, ChoiceOrNone
  <2>2. CASE prefUi.status = "error" /\ prefUi.retry # NoLocale /\ Retries(l)
    <3>1. /\ prefUi' \in Controllers /\ prefUi'.shown = prefUi.shown
          /\ prefUi'.desired = l /\ prefUi'.retry = NoLocale
          /\ prefUi'.status = "loading" /\ prefUi'.begun = "asked" /\ prefUi'.drain = "none"
          /\ prefCall' = AskGet
      BY <1>0, <1>2, <2>1, <2>2 DEF Controllers, HeldOnce
    <3>2. PrefTypeOK' /\ AnswersAgree' /\ VersionsAgree'
      BY <1>0, <1>1, <2>1, <3>1, ControllerStep
    <3>3. HeldOnce' /\ NothingChosen' /\ ChoiceIsKept'
      BY <2>1, <3>1 DEF HeldOnce, NothingChosen, ChoiceIsKept
    <3> QED BY <3>2, <3>3 DEF PreferencesAreKept
  <2>3. CASE /\ prefUi.status = "error" /\ prefUi.retry = NoLocale
             /\ prefUi' = [prefUi EXCEPT !.desired = l, !.status = "saving", !.begun = "asked",
                                         !.drain = "start", !.tries = 0]
             /\ prefCall' = AskGet
    <3>1. /\ prefUi' \in Controllers /\ prefUi'.shown = prefUi.shown
          /\ prefUi'.desired = l /\ prefUi'.retry = NoLocale
          /\ prefUi'.status = "saving" /\ prefUi'.begun = "asked" /\ prefUi'.drain = "start"
          /\ prefCall' = AskGet
      BY <1>0, <2>1, <2>3 DEF Controllers
    <3>2. PrefTypeOK' /\ AnswersAgree' /\ VersionsAgree'
      BY <1>0, <1>1, <2>1, <3>1, ControllerStep
    <3>3. HeldOnce' /\ NothingChosen' /\ ChoiceIsKept'
      BY <2>1, <3>1 DEF HeldOnce, NothingChosen, ChoiceIsKept
    <3> QED BY <3>2, <3>3 DEF PreferencesAreKept
  <2>4. CASE /\ prefUi.status # "error" /\ prefUi.desired = NoLocale /\ prefUi.shown.l = l
             /\ prefUi' = [prefUi EXCEPT !.retry = NoLocale] /\ UNCHANGED prefCall
    <3>1. prefUi.status = "loading" => prefUi.retrying /\ l = prefUi.desired
      BY <1>5 DEF Choose
    <3>2. prefUi.begun \notin {"no", "asked"}
      BY <2>1, <2>4, <3>1 DEF NothingChosen
    <3>3. /\ prefUi' \in Controllers /\ prefUi'.shown = prefUi.shown
          /\ prefUi'.desired = NoLocale /\ prefUi'.retry = NoLocale
          /\ prefUi'.status = prefUi.status /\ prefUi'.begun = prefUi.begun
          /\ prefUi'.drain = prefUi.drain
      BY <1>0, <2>4 DEF Controllers, ChoiceOrNone
    <3>4. PrefTypeOK' /\ AnswersAgree' /\ VersionsAgree'
      BY <1>0, <2>1, <2>4, <3>3, ControllerStep
    <3>5. HeldOnce' /\ NothingChosen' /\ ChoiceIsKept'
      BY <2>1, <2>4, <3>2, <3>3 DEF HeldOnce, NothingChosen, ChoiceIsKept
    <3> QED BY <3>4, <3>5 DEF PreferencesAreKept
  <2>5. CASE /\ prefUi.status # "error"
             /\ LET u == [prefUi EXCEPT !.desired = l, !.retry = NoLocale, !.status = "saving"] IN
                IF prefUi.begun = "asked" \/ prefUi.drain # "none"
                THEN /\ prefUi' = [u EXCEPT !.drain = IF @ = "none" THEN "start" ELSE @]
                     /\ UNCHANGED prefCall
                ELSE Loops([u EXCEPT !.tries = 0])
    <3> DEFINE u == [prefUi EXCEPT !.desired = l, !.retry = NoLocale, !.status = "saving"]
               w == [u EXCEPT !.tries = 0]
    <3>0. prefUi.begun # "no"
      <4>1. prefUi.status = "loading" => prefUi.retrying
        BY <1>5 DEF Choose
      <4> QED BY <4>1 DEF NothingChosen
    <3>1. /\ u \in Controllers /\ u.shown = prefUi.shown /\ u.desired = l /\ u.retry = NoLocale
          /\ u.status = "saving" /\ u.begun = prefUi.begun /\ u.drain = prefUi.drain
      BY <1>0, <2>1 DEF Controllers, ChoiceOrNone
    <3>2. /\ w \in Controllers /\ w.shown = prefUi.shown /\ w.desired = l /\ w.retry = NoLocale
          /\ w.begun = prefUi.begun
      BY <1>0, <2>1 DEF Controllers, ChoiceOrNone
    <3>3. CASE /\ prefUi.begun = "asked" \/ prefUi.drain # "none"
               /\ prefUi' = [u EXCEPT !.drain = IF @ = "none" THEN "start" ELSE @]
               /\ UNCHANGED prefCall
      <4> HIDE DEF u, w
      <4>1. /\ prefUi' \in Controllers /\ prefUi'.shown = prefUi.shown
            /\ prefUi'.desired = l /\ prefUi'.retry = NoLocale
            /\ prefUi'.status = "saving" /\ prefUi'.begun = prefUi.begun
            /\ prefUi'.drain = IF prefUi.drain = "none" THEN "start" ELSE prefUi.drain
        BY <3>1, <3>3 DEF Controllers
      <4>2. PrefTypeOK' /\ AnswersAgree' /\ VersionsAgree'
        BY <1>0, <2>1, <3>3, <4>1, ControllerStep
      <4>3. HeldOnce' /\ NothingChosen' /\ ChoiceIsKept'
        BY <2>1, <3>0, <4>1 DEF HeldOnce, NothingChosen, ChoiceIsKept
      <4> QED BY <4>2, <4>3 DEF PreferencesAreKept
    <3>4. CASE prefUi.begun # "asked" /\ Loops(w)
      <4> HIDE DEF u, w
      <4>1. /\ prefUi' \in Controllers /\ prefUi'.shown = w.shown
            /\ prefUi'.retry = w.retry /\ prefUi'.begun = w.begun
            /\ prefCall' \in PrefCalls /\ prefCall'.at # "answer"
            /\ prefUi'.status \in {"ready", "recovery", "saving"}
            /\ \/ /\ w.desired = NoLocale \/ w.desired = w.shown.l
                  /\ prefUi'.desired = NoLocale /\ prefUi'.drain = "none"
               \/ /\ w.desired # NoLocale /\ prefUi'.desired = w.desired
                  /\ prefUi'.drain = "write"
        BY <3>2, <3>4, LoopsTo
      <4>2. PrefTypeOK' /\ AnswersAgree' /\ VersionsAgree'
        BY <1>0, <2>1, <3>2, <4>1, ControllerStep
      <4>3. HeldOnce' /\ NothingChosen' /\ ChoiceIsKept'
        BY <2>1, <3>0, <3>2, <3>4, <4>1 DEF HeldOnce, NothingChosen, ChoiceIsKept
      <4> QED BY <4>2, <4>3 DEF PreferencesAreKept
    <3> QED BY <2>5, <3>3, <3>4
  <2> QED BY <1>5, <2>2, <2>3, <2>4, <2>5 DEF Choose
<1> QED BY <1>3, <1>4, <1>5

\* The answer to the first get does not overwrite a choice that was made meanwhile.
LEMMA InitializedKeeps ==
  ASSUME PrefInv, Initialized
  PROVE  PrefInv'
<1> USE DEF PrefInv
<1>0. /\ prefUi \in Controllers /\ UNCHANGED <<prefFile, prefService, lastChoice>>
      /\ prefUi.begun = "asked" /\ lastChoice' \in ChoiceOrNone
  BY DEF PrefTypeOK, Initialized, PrefUnmoved
<1>1. NoPrefCall \in PrefCalls /\ NoPrefCall.at # "answer"
  BY NoLocaleIsNone DEF NoPrefCall, PrefCalls, StoredPrefs, Prefs
<1>2. prefUi.drain \notin {"write", "refresh"}
  BY <1>0 DEF HeldOnce
<1>3. CASE /\ prefUi' = [PrefFail(prefUi) EXCEPT !.begun = "failed"] /\ prefCall' = NoPrefCall
  <2> DEFINE v == PrefFail(prefUi)
  <2>1. /\ v \in Controllers /\ v.shown = prefUi.shown
        /\ v.desired = NoLocale /\ v.drain = "none" /\ v.status = "error"
        /\ v.retry = IF prefUi.desired # NoLocale THEN prefUi.desired ELSE prefUi.retry
    BY <1>0, FailsTo
  <2> HIDE DEF v
  <2>2. /\ prefUi' \in Controllers /\ prefUi'.shown = prefUi.shown
        /\ prefUi'.desired = NoLocale /\ prefUi'.drain = "none" /\ prefUi'.status = "error"
        /\ prefUi'.retry = IF prefUi.desired # NoLocale THEN prefUi.desired ELSE prefUi.retry
        /\ prefUi'.begun = "failed"
    <3>1. prefUi' = [v EXCEPT !.begun = "failed"]
      BY <1>3 DEF v
    <3> QED BY <2>1, <3>1 DEF Controllers
  <2>3. PrefTypeOK' /\ AnswersAgree' /\ VersionsAgree'
    BY <1>0, <1>1, <1>3, <2>2, ControllerStep
  <2>4. HeldOnce' /\ NothingChosen' /\ ChoiceIsKept'
    BY <1>0, <2>2 DEF HeldOnce, NothingChosen, PreferencesAreKept, ChoiceIsKept
  <2> QED BY <2>3, <2>4 DEF PreferencesAreKept
<1>4. ASSUME prefCall.at = "answer",
             NEW u, u = [prefUi EXCEPT !.shown = prefCall.prefs, !.recovery = prefCall.recovery,
                                       !.begun = "yes", !.retrying = FALSE, !.tries = 0],
             IF u.desired = NoLocale
             THEN prefUi' = [u EXCEPT !.status = StatusFor(u)] /\ prefCall' = NoPrefCall
             ELSE Loops(u)
      PROVE  PrefInv'
  <2>1. /\ u \in Controllers /\ u.shown = prefCall.prefs /\ u.begun = "yes"
        /\ u.desired = prefUi.desired /\ u.retry = prefUi.retry /\ u.drain = prefUi.drain
    BY <1>0, <1>4 DEF PrefTypeOK, PrefCalls, Controllers
  <2>2. CASE u.desired = NoLocale
    <3>1. /\ prefUi' \in Controllers /\ prefUi'.shown = prefCall.prefs /\ prefUi'.begun = "yes"
          /\ prefUi'.desired = NoLocale /\ prefUi'.retry = prefUi.retry
          /\ prefUi'.drain = prefUi.drain /\ prefUi'.status \in {"ready", "recovery"}
      <4>1. StatusFor(u) \in {"ready", "recovery"}
        BY DEF StatusFor
      <4>2. PICK st \in {"ready", "recovery"} : prefUi' = [u EXCEPT !.status = st]
        BY <1>4, <2>2, <4>1
      <4> QED BY <2>1, <2>2, <4>2 DEF Controllers
    <3>2. lastChoice = NoLocale
      BY <1>0, <2>1, <2>2 DEF NothingChosen
    <3>3. PrefTypeOK' /\ AnswersAgree' /\ VersionsAgree'
      BY <1>0, <1>1, <1>4, <2>2, <3>1, ControllerStep
    <3>4. HeldOnce' /\ NothingChosen' /\ ChoiceIsKept'
      BY <1>0, <2>1, <2>2, <3>1, <3>2 DEF HeldOnce, NothingChosen, ChoiceIsKept
    <3> QED BY <3>3, <3>4 DEF PreferencesAreKept
  <2>3. CASE u.desired # NoLocale
    <3>0. Loops(u) /\ prefUi.retry = NoLocale
      BY <1>4, <2>1, <2>3 DEF HeldOnce
    <3>1. /\ prefUi' \in Controllers /\ prefUi'.shown = u.shown
          /\ prefUi'.retry = u.retry /\ prefUi'.begun = u.begun
          /\ prefCall' \in PrefCalls /\ prefCall'.at # "answer"
          /\ prefUi'.status \in {"ready", "recovery", "saving"}
          /\ \/ /\ u.desired = NoLocale \/ u.desired = u.shown.l
                /\ prefUi'.desired = NoLocale /\ prefUi'.drain = "none"
             \/ /\ u.desired # NoLocale /\ prefUi'.desired = u.desired /\ prefUi'.drain = "write"
      BY <2>1, <3>0, LoopsTo
    <3>2. PrefTypeOK' /\ AnswersAgree' /\ VersionsAgree'
      BY <1>0, <1>4, <2>1, <3>1, ControllerStep
    <3>3. HeldOnce' /\ NothingChosen'
      BY <2>1, <3>0, <3>1 DEF HeldOnce, NothingChosen
    <3>4. ChoiceIsKept'
      BY <1>0, <2>1, <2>3, <3>0, <3>1 DEF PreferencesAreKept, ChoiceIsKept
    <3> QED BY <3>2, <3>3, <3>4 DEF PreferencesAreKept
  <2> QED BY <2>2, <2>3
<1>5. CASE prefCall.at = "answer"
  <2> DEFINE u == [prefUi EXCEPT !.shown = prefCall.prefs, !.recovery = prefCall.recovery,
                                 !.begun = "yes", !.retrying = FALSE, !.tries = 0]
  <2>1. IF u.desired = NoLocale
        THEN prefUi' = [u EXCEPT !.status = StatusFor(u)] /\ prefCall' = NoPrefCall
        ELSE Loops(u)
    BY <1>5 DEF Initialized
  <2> QED BY <1>4, <1>5, <2>1
<1> QED BY <1>3, <1>5 DEF Initialized

\* Behind a write: the choice is stored, held, or waits for a retry.
LEMMA WrittenKeeps ==
  ASSUME PrefInv, NEW u \in Controllers, Written(u),
         prefUi.drain \in {"write", "refresh"}, prefCall.at = "answer",
         u.shown = prefCall.prefs, u.desired = prefUi.desired, u.retry = prefUi.retry,
         u.begun = prefUi.begun, UNCHANGED <<prefFile, prefService, lastChoice>>
  PROVE  PrefInv'
<1> USE DEF PrefInv
<1>0. /\ u.desired # NoLocale /\ u.retry = NoLocale /\ u.begun \notin {"no", "asked"}
      /\ lastChoice' \in ChoiceOrNone
  BY DEF HeldOnce, NothingChosen, PrefTypeOK
<1>1. CASE prefUi' = PrefFail(u) /\ prefCall' = NoPrefCall
  <2>1. /\ prefUi' \in Controllers /\ prefUi'.shown = u.shown /\ prefUi'.begun = u.begun
        /\ prefUi'.desired = NoLocale /\ prefUi'.drain = "none" /\ prefUi'.status = "error"
        /\ prefUi'.retry = u.desired
    BY <1>0, <1>1, FailsTo
  <2>2. NoPrefCall \in PrefCalls /\ NoPrefCall.at # "answer"
    BY NoLocaleIsNone DEF NoPrefCall, PrefCalls, StoredPrefs, Prefs
  <2>3. PrefTypeOK' /\ AnswersAgree' /\ VersionsAgree'
    BY <1>0, <1>1, <2>1, <2>2, ControllerStep
  <2>4. HeldOnce' /\ NothingChosen' /\ ChoiceIsKept'
    BY <1>0, <2>1 DEF HeldOnce, NothingChosen, PreferencesAreKept, ChoiceIsKept
  <2> QED BY <2>3, <2>4 DEF PreferencesAreKept
<1>2. CASE Loops(u)
  <2>1. /\ prefUi' \in Controllers /\ prefUi'.shown = u.shown
        /\ prefUi'.retry = u.retry /\ prefUi'.begun = u.begun
        /\ prefCall' \in PrefCalls /\ prefCall'.at # "answer"
        /\ prefUi'.status \in {"ready", "recovery", "saving"}
        /\ \/ /\ u.desired = u.shown.l
              /\ prefUi'.desired = NoLocale /\ prefUi'.drain = "none"
           \/ /\ prefUi'.desired = u.desired /\ prefUi'.drain = "write"
    BY <1>0, <1>2, LoopsTo
  <2>2. PrefTypeOK' /\ AnswersAgree' /\ VersionsAgree'
    BY <1>0, <2>1, ControllerStep
  <2>3. HeldOnce' /\ NothingChosen' /\ ChoiceIsKept'
    BY <1>0, <2>1 DEF HeldOnce, NothingChosen, PreferencesAreKept, ChoiceIsKept
  <2> QED BY <2>2, <2>3 DEF PreferencesAreKept
<1> QED BY <1>1, <1>2 DEF Written

\* The answer to a write, and to the get that follows one of unknown outcome, keep the choice.
LEMMA WriteAnsweredKeeps ==
  ASSUME PrefInv, WriteAnswered \/ RefreshAnswered
  PROVE  PrefInv'
<1> USE DEF PrefInv
<1>0. /\ prefUi \in Controllers /\ UNCHANGED <<prefFile, prefService, lastChoice>>
      /\ prefUi.drain \in {"write", "refresh"} /\ lastChoice' \in ChoiceOrNone
      /\ prefUi.desired # NoLocale /\ prefUi.retry = NoLocale
      /\ prefUi.begun \notin {"no", "asked"}
  BY DEF PrefTypeOK, WriteAnswered, RefreshAnswered, PrefUnmoved, HeldOnce, NothingChosen
<1>1. CASE WriteAnswered
  <2>1. CASE IsAccepted
    <3> DEFINE u == [prefUi EXCEPT !.shown = prefCall.prefs, !.recovery = FALSE, !.tries = 0]
    <3>1. /\ u \in Controllers /\ u.shown = prefCall.prefs /\ u.begun = prefUi.begun
          /\ u.desired = prefUi.desired /\ u.retry = prefUi.retry
      BY <1>0, <2>1 DEF PrefTypeOK, PrefCalls, Controllers
    <3>2. Written(u) /\ prefCall.at = "answer"
      BY <1>1, <2>1 DEF WriteAnswered, IsAccepted
    <3> HIDE DEF u
    <3> QED BY <1>0, <3>1, <3>2, WrittenKeeps
  <2>2. CASE ~IsAccepted
    <3>1. /\ prefUi' = [prefUi EXCEPT !.tries = @ + 1, !.drain = "refresh"]
          /\ prefCall' = AskGet
      BY <1>1, <2>2 DEF WriteAnswered
    <3>2. AskGet \in PrefCalls /\ AskGet.at = "asked"
      BY NoLocaleIsNone DEF AskGet, NoPrefCall, PrefCalls, StoredPrefs, Prefs
    <3>3. /\ prefUi' \in Controllers /\ prefUi'.shown = prefUi.shown
          /\ prefUi'.desired = prefUi.desired /\ prefUi'.retry = prefUi.retry
          /\ prefUi'.begun = prefUi.begun /\ prefUi'.status = prefUi.status
          /\ prefUi'.drain = "refresh"
      <4>1. PICK k \in Nat : prefUi' = [prefUi EXCEPT !.tries = k, !.drain = "refresh"]
        <5>1. prefUi.tries + 1 \in Nat
          BY <1>0 DEF Controllers
        <5> QED BY <3>1, <5>1
      <4> QED BY <1>0, <4>1 DEF Controllers
    <3>4. PrefTypeOK' /\ AnswersAgree' /\ VersionsAgree'
      BY <1>0, <3>1, <3>2, <3>3, ControllerStep
    <3>5. HeldOnce' /\ NothingChosen' /\ ChoiceIsKept'
      BY <1>0, <3>3 DEF HeldOnce, NothingChosen, PreferencesAreKept, ChoiceIsKept
    <3> QED BY <3>4, <3>5 DEF PreferencesAreKept
  <2> QED BY <2>1, <2>2
<1>2. CASE RefreshAnswered
  <2>1. CASE prefCall.at = "error"
    <3>1. prefUi' = PrefFail(prefUi) /\ prefCall' = NoPrefCall
      BY <1>2, <2>1 DEF RefreshAnswered
    <3>2. /\ prefUi' \in Controllers /\ prefUi'.shown = prefUi.shown
          /\ prefUi'.begun = prefUi.begun
          /\ prefUi'.desired = NoLocale /\ prefUi'.drain = "none" /\ prefUi'.status = "error"
          /\ prefUi'.retry = prefUi.desired
      BY <1>0, <3>1, FailsTo
    <3>3. NoPrefCall \in PrefCalls /\ NoPrefCall.at # "answer"
      BY NoLocaleIsNone DEF NoPrefCall, PrefCalls, StoredPrefs, Prefs
    <3>4. PrefTypeOK' /\ AnswersAgree' /\ VersionsAgree'
      BY <1>0, <3>1, <3>2, <3>3, ControllerStep
    <3>5. HeldOnce' /\ NothingChosen' /\ ChoiceIsKept'
      BY <1>0, <3>2 DEF HeldOnce, NothingChosen, PreferencesAreKept, ChoiceIsKept
    <3> QED BY <3>4, <3>5 DEF PreferencesAreKept
  <2>2. CASE prefCall.at = "answer"
    <3> DEFINE u == [prefUi EXCEPT !.shown = prefCall.prefs, !.recovery = prefCall.recovery]
    <3>1. /\ u \in Controllers /\ u.shown = prefCall.prefs /\ u.begun = prefUi.begun
          /\ u.desired = prefUi.desired /\ u.retry = prefUi.retry
      BY <1>0, <2>2 DEF PrefTypeOK, PrefCalls, Controllers
    <3>2. Written(u)
      BY <1>2, <2>2 DEF RefreshAnswered
    <3> HIDE DEF u
    <3> QED BY <1>0, <2>2, <3>1, <3>2, WrittenKeeps
  <2> QED BY <1>2, <2>1, <2>2 DEF RefreshAnswered
<1> QED BY <1>1, <1>2

\* A window that opens again has nothing chosen.
LEMMA ReopenKeeps ==
  ASSUME PrefInv, Reopen
  PROVE  PrefInv'
<1>1. /\ prefService' = NoPrefService /\ prefUi' = NewController /\ prefCall' = NoPrefCall
      /\ lastChoice' = NoLocale /\ UNCHANGED prefFile
  BY DEF Reopen
<1>2. PrefTypeOK'
  BY <1>1, NoLocaleIsNone
     DEF PrefInv, PrefTypeOK, Controllers, StoredPrefs, ChoiceOrNone, PrefCalls, NewController,
         NoPrefCall, NoPrefService, Prefs
<1>3. AnswersAgree' /\ HeldOnce' /\ NothingChosen' /\ PreferencesAreKept'
  BY <1>1
     DEF NewController, NoPrefCall, NoPrefService, Prefs, AnswersAgree, HeldOnce, NothingChosen,
         PreferencesAreKept, ChoiceIsKept, VersionsAgree
<1> QED BY <1>2, <1>3 DEF PrefInv

\* Every step keeps the invariant of the preferences.
LEMMA PrefKept == PrefInv /\ [PrefNext]_prefVars => PrefInv'
<1> SUFFICES ASSUME PrefInv, [PrefNext]_prefVars PROVE PrefInv'
  OBVIOUS
<1>1. CASE PrefNext
  BY <1>1, ServiceStepKeeps, InitializeKeeps, InitializedKeeps, WriteAnsweredKeeps, ReopenKeeps
     DEF PrefNext, PrefProgress
<1>2. CASE UNCHANGED prefVars
  BY <1>2
     DEF prefVars, PrefInv, PrefTypeOK, AnswersAgree, HeldOnce, NothingChosen,
         PreferencesAreKept, ChoiceIsKept, VersionsAgree
<1> QED BY <1>1, <1>2

\* Whatever fails and whatever is chosen meanwhile, the user's last choice is about to be
\* written, kept for a retry, or shown as what is stored; and a version is one content, for
\* the UI, the service and the file.
THEOREM PreferencesAreKeptHolds == PrefSpec => []PreferencesAreKept
<1>1. PrefInv => PreferencesAreKept
  BY DEF PrefInv
<1> QED BY <1>1, PrefBegins, PrefKept, PTL DEF PrefSpec

-----------------------------------------------------------------------------
(* The files behind the support features.                                  *)

Inodes == 0..saving.inode
Phases ==
  {"rest", "temp", "place", "link", "before", "exchange", "unlinkTemp", "unlinkBackup",
   "restore", "settle", "sync", "clean"}

Savings ==
  [at : Phases, inode : Nat, expected : Nat, slips : Nat,
   answer : {"none", "ok", "unsafe", "sync", "failed"}]

FilesTypeOK ==
  /\ saving \in Savings
  /\ directory \in mayBe /\ mayBe \subseteq [Names -> Inodes]
  /\ whole \subseteq Nat /\ saved \in Inodes

\* What may stand under the name of the file.
IsGood(f) == (f # NoFile => f \in whole) /\ f >= saved

AllAreGood == \A d \in mayBe : IsGood(d["main"])

NotExchanged == saving.at \in {"temp", "place", "link", "before", "exchange"}
IsExchanged == saving.at \in {"unlinkTemp", "unlinkBackup", "sync"}

\* What a save that is under way relies on between two of its steps: the new inode is
\* nowhere until the names are exchanged, and the link is there until it is renamed back.
SaveIsSound ==
  LET f == saving.inode
      e == saving.expected
  IN
  /\ saving.at # "rest" => e < f
  /\ NotExchanged => directory["main"] = e /\ (\A d \in mayBe : d["main"] # f) /\ saving.slips = 0
  /\ IsExchanged => directory["main"] = f /\ saving.slips = 0
  /\ saving.at = "place" => e = NoFile
  /\ saving.at \in {"place", "link", "before", "exchange"} => directory["temp"] = f
  /\ saving.at \notin {"rest", "temp", "clean"} => f \in whole
  /\ saving.at \in {"before", "exchange", "unlinkTemp", "unlinkBackup", "restore"} =>
       directory["backup"] = e /\ IsGood(e)
  /\ saving.at = "restore" => directory["main"] \in {e, f} /\ saving.slips = 1
  /\ saving.at = "settle" => directory["main"] = e /\ saving.slips = 1

\* A save that ends as unsafe after one failure has left everything as it was.
UndoIsSound ==
  saving.at \in {"clean", "rest"} /\ saving.answer = "unsafe" /\ saving.slips = 1 =>
    /\ directory["main"] = saving.expected
    /\ \A d \in mayBe : d["main"] # saving.inode

FilesInv == FilesTypeOK /\ AllAreGood /\ SaveIsSound /\ UndoIsSound

\* A store that has never been written has no file, and all is well.
LEMMA FilesBegin == FilesInit => FilesInv
<1> SUFFICES ASSUME FilesInit PROVE FilesInv
  OBVIOUS
<1>1. /\ mayBe = {NoDirectory} /\ directory = NoDirectory /\ NoDirectory \in [Names -> Inodes]
      /\ NoDirectory["main"] = NoFile /\ NoFile = 0
  BY DEF FilesInit, NoDirectory, Names, Inodes, SaveRests, NoFile
<1>2. FilesTypeOK
  BY <1>1 DEF FilesInit, FilesTypeOK, Savings, Phases, SaveRests, Inodes
<1>3. AllAreGood
  BY <1>1 DEF FilesInit, AllAreGood, IsGood
<1>4. SaveIsSound /\ UndoIsSound
  BY DEF FilesInit, SaveRests, SaveIsSound, UndoIsSound, NotExchanged, IsExchanged
<1> QED BY <1>2, <1>3, <1>4 DEF FilesInv

\* A directory comes to be, or is flushed; no save is begun or answered with success.
LEMMA DirectoryStep ==
  ASSUME FilesInv, saving' \in Savings, saving'.inode = saving.inode, UNCHANGED saved,
         whole \subseteq whole', whole' \subseteq Nat,
         directory' \in [Names -> Inodes], IsGood(directory'["main"]),
         mayBe' \in {mayBe \union {directory'}, {directory'}}
  PROVE  FilesTypeOK' /\ AllAreGood'
BY DEF FilesInv, FilesTypeOK, AllAreGood, IsGood, Inodes

\* The facts that the steps of a save share.
LEMMA Steady ==
  ASSUME FilesInv
  PROVE  /\ saving \in Savings /\ saving.inode \in Nat /\ saving.expected \in Nat
         /\ saving.slips \in Nat
         /\ directory \in [Names -> Inodes] /\ directory \in mayBe
         /\ mayBe \union {directory} = mayBe
         /\ {"main", "temp", "backup"} = Names
         /\ saving.inode \in Inodes /\ NoFile \in Inodes /\ saved \in Nat /\ saved <= saving.inode
         /\ IsGood(directory["main"])
BY DEF FilesInv, FilesTypeOK, Inodes, Savings, Names, AllAreGood, NoFile

\* A save goes on, or fails.
LEMMA SavingGoes ==
  ASSUME saving \in Savings, NEW at \in Phases, GoesTo(at)
  PROVE  /\ saving' \in Savings /\ saving'.at = at /\ saving'.inode = saving.inode
         /\ saving'.expected = saving.expected /\ saving'.slips = saving.slips
         /\ saving'.answer = saving.answer
BY DEF GoesTo, Savings

\* A call that fails counts a slip and decides the answer.
LEMMA SavingFails ==
  ASSUME saving \in Savings, NEW at \in Phases, NEW answer \in {"unsafe", "sync", "failed"},
         FileFails(at, answer)
  PROVE  /\ saving' \in Savings /\ saving'.at = at /\ saving'.inode = saving.inode
         /\ saving'.expected = saving.expected /\ saving'.slips = saving.slips + 1
         /\ saving'.answer = answer
<1>1. saving.slips + 1 \in Nat
  BY DEF Savings
<1>2. PICK k \in Nat : /\ saving' = [saving EXCEPT !.at = at, !.answer = answer, !.slips = k]
                       /\ k = saving.slips + 1
  BY <1>1 DEF FileFails
<1> QED BY <1>2 DEF Savings

\* A save begins: its inode is new.
LEMMA SaveBegins ==
  ASSUME FilesInv, saving' = NewInode(directory["main"]),
         UNCHANGED <<directory, mayBe, whole, saved>>
  PROVE  FilesInv'
<1>1. /\ saving' \in Savings /\ saving'.at = "temp" /\ saving'.inode = saving.inode + 1
      /\ saving'.expected = directory["main"] /\ saving'.slips = 0 /\ saving'.answer = "none"
      /\ directory["main"] \in Inodes
  <2>1. directory["main"] \in Inodes /\ directory["main"] \in Nat /\ saving.inode + 1 \in Nat
    BY Steady DEF Inodes
  <2> QED BY <2>1 DEF NewInode, SaveRests, Savings, Phases
<1>2. Inodes \subseteq Inodes'
  BY <1>1, Steady DEF Inodes
<1>3. FilesTypeOK' /\ AllAreGood'
  BY <1>1, <1>2 DEF FilesInv, FilesTypeOK, AllAreGood, IsGood
<1>4. \A d \in mayBe : d["main"] # saving.inode + 1
  BY Steady DEF FilesInv, FilesTypeOK, Inodes
<1>5. SaveIsSound' /\ UndoIsSound'
  BY <1>1, <1>4, Steady DEF SaveIsSound, UndoIsSound, NotExchanged, IsExchanged, Inodes
<1> QED BY <1>3, <1>5 DEF FilesInv

\* Opening the store and beginning a save touch no file.
LEMMA BeginningKeeps ==
  ASSUME FilesInv, OpenStore \/ Save
  PROVE  FilesInv'
<1>1. UNCHANGED <<directory, mayBe, whole, saved>>
  BY DEF OpenStore, Save
<1>2. CASE saving' = NewInode(directory["main"])
  BY <1>1, <1>2, SaveBegins
<1>3. CASE UNCHANGED saving
  BY <1>1, <1>3
     DEF FilesInv, FilesTypeOK, Inodes, AllAreGood, IsGood, SaveIsSound, UndoIsSound,
         NotExchanged, IsExchanged
<1>4. CASE saving' = [SaveRests EXCEPT !.inode = saving.inode, !.answer = "unsafe"]
  <2>1. /\ saving' \in Savings /\ saving'.at = "rest" /\ saving'.inode = saving.inode
        /\ saving'.slips = 0
    BY <1>4, Steady DEF SaveRests, Savings, Phases, NoFile
  <2>2. FilesTypeOK' /\ AllAreGood'
    BY <1>1, <2>1 DEF FilesInv, FilesTypeOK, AllAreGood, IsGood, Inodes
  <2>3. SaveIsSound' /\ UndoIsSound'
    BY <2>1 DEF SaveIsSound, UndoIsSound, NotExchanged, IsExchanged
  <2> QED BY <2>2, <2>3 DEF FilesInv
<1> QED BY <1>2, <1>3, <1>4 DEF OpenStore, Save

\* What a call does to the directories.
LEMMA DirectoryBecomes ==
  ASSUME FilesInv, NEW d \in [Names -> Inodes], Becomes(d)
  PROVE  directory' = d /\ mayBe' = mayBe \union {directory'}
BY DEF Becomes

\* A call that does nothing leaves both the directory and what a power loss may leave.
LEMMA DirectoryStays ==
  ASSUME FilesInv, Stays
  PROVE  directory' = directory /\ mayBe' = mayBe /\ mayBe' = mayBe \union {directory'}
BY Steady DEF Stays

\* Writing the temporary file leaves the main one.
LEMMA WriteKeeps ==
  ASSUME FilesInv, WriteTemporary
  PROVE  FilesInv'
<1> DEFINE d == [directory EXCEPT !["temp"] = saving.inode]
<1>0. /\ saving.at = "temp" /\ saved' = saved /\ saving \in Savings /\ saving.inode \in Nat
      /\ NotExchanged /\ saving.slips = 0 /\ saving.expected < saving.inode
      /\ directory["main"] = saving.expected /\ \A x \in mayBe : x["main"] # saving.inode
      /\ whole \subseteq Nat
  BY DEF WriteTemporary, FilesInv, FilesTypeOK, SaveIsSound, NotExchanged, Savings
<1>1. /\ d \in [Names -> Inodes] /\ d["main"] = directory["main"] /\ d["temp"] = saving.inode
  BY Steady
<1> HIDE DEF d
<1>2. \/ directory' = d /\ mayBe' = mayBe \union {directory'}
      \/ directory' = directory /\ mayBe' = mayBe /\ mayBe' = mayBe \union {directory'}
  BY <1>1, DirectoryBecomes, DirectoryStays DEF WriteTemporary, d
<1>3. whole' \subseteq Nat /\ whole \subseteq whole'
  BY <1>0 DEF WriteTemporary
<1>4. CASE /\ GoesTo(IF saving.expected = NoFile THEN "place" ELSE "link")
           /\ directory' = d /\ whole' = whole \union {saving.inode}
  <2>1. PICK at \in {"place", "link"} : /\ GoesTo(at) /\ at \in Phases
                                        /\ at = "place" => saving.expected = NoFile
    BY <1>4 DEF Phases
  <2>2. /\ saving' \in Savings /\ saving'.at = at /\ saving'.inode = saving.inode
        /\ saving'.expected = saving.expected /\ saving'.slips = saving.slips
    BY <1>0, <2>1, SavingGoes
  <2>3. FilesTypeOK' /\ AllAreGood'
    BY <1>0, <1>1, <1>2, <1>3, <2>2, Steady, DirectoryStep
  <2>4. SaveIsSound' /\ UndoIsSound'
    BY <1>0, <1>1, <1>2, <1>4, <2>1, <2>2 DEF SaveIsSound, UndoIsSound, NotExchanged, IsExchanged
  <2> QED BY <2>3, <2>4 DEF FilesInv
<1>5. CASE FileFails("clean", "failed")
  <2>1. /\ saving' \in Savings /\ saving'.at = "clean" /\ saving'.inode = saving.inode
        /\ saving'.expected = saving.expected /\ saving'.answer = "failed"
    BY <1>0, <1>5, SavingFails DEF Phases
  <2>2. FilesTypeOK' /\ AllAreGood'
    BY <1>0, <1>1, <1>2, <1>3, <2>1, Steady, DirectoryStep
  <2>3. SaveIsSound' /\ UndoIsSound'
    BY <1>0, <2>1 DEF SaveIsSound, UndoIsSound, NotExchanged, IsExchanged
  <2> QED BY <2>2, <2>3 DEF FilesInv
<1> QED BY <1>4, <1>5, DirectoryBecomes, <1>1 DEF WriteTemporary, d

\* A call that fails before the names are exchanged has changed nothing.
LEMMA EarlyFailureKeeps ==
  ASSUME FilesInv, saving.at \in {"place", "link"}, Stays, FileFails("clean", "unsafe"),
         UNCHANGED <<whole, saved>>
  PROVE  FilesInv'
<1>1. /\ saving' \in Savings /\ saving'.at = "clean" /\ saving'.inode = saving.inode
      /\ saving'.expected = saving.expected /\ saving.expected < saving.inode
      /\ directory["main"] = saving.expected /\ \A x \in mayBe : x["main"] # saving.inode
  BY Steady, SavingFails DEF FilesInv, SaveIsSound, NotExchanged, Phases
<1>2. directory' = directory /\ mayBe' = mayBe /\ mayBe' = mayBe \union {directory'}
  BY DirectoryStays
<1>3. FilesTypeOK' /\ AllAreGood'
  BY <1>1, <1>2, Steady, DirectoryStep DEF FilesInv, FilesTypeOK
<1>4. SaveIsSound' /\ UndoIsSound'
  BY <1>1, <1>2 DEF SaveIsSound, UndoIsSound, NotExchanged, IsExchanged
<1> QED BY <1>3, <1>4 DEF FilesInv

\* Placing a first file, and linking the backup, leave a whole file in place.
LEMMA PlaceKeeps ==
  ASSUME FilesInv, Place \/ LinkBackup
  PROVE  FilesInv'
<1>0. /\ UNCHANGED <<whole, saved>> /\ saving.at \in {"place", "link"}
      /\ saving \in Savings /\ saving.expected < saving.inode /\ saving.slips = 0
      /\ directory["main"] = saving.expected /\ directory["temp"] = saving.inode
      /\ saving.inode \in whole /\ whole \subseteq Nat
      /\ \A x \in mayBe : x["main"] # saving.inode
  BY DEF Place, LinkBackup, Inside, FilesInv, FilesTypeOK, SaveIsSound, NotExchanged
<1>1. CASE Stays /\ FileFails("clean", "unsafe")
  BY <1>0, <1>1, EarlyFailureKeeps
<1>2. CASE /\ saving.at = "place" /\ GoesTo("sync")
           /\ Becomes([directory EXCEPT !["main"] = saving.inode, !["temp"] = NoFile])
  <2> DEFINE d == [directory EXCEPT !["main"] = saving.inode, !["temp"] = NoFile]
  <2>1. d \in [Names -> Inodes] /\ d["main"] = saving.inode
    BY Steady
  <2>2. directory' = d /\ mayBe' = mayBe \union {directory'}
    BY <1>2, <2>1, DirectoryBecomes
  <2> HIDE DEF d
  <2>3. /\ saving' \in Savings /\ saving'.at = "sync" /\ saving'.inode = saving.inode
        /\ saving'.expected = saving.expected /\ saving'.slips = saving.slips
    BY <1>0, <1>2, SavingGoes DEF Phases
  <2>4. IsGood(saving.inode)
    BY <1>0, Steady DEF IsGood
  <2>5. FilesTypeOK' /\ AllAreGood'
    BY <1>0, <2>1, <2>2, <2>3, <2>4, DirectoryStep
  <2>6. SaveIsSound' /\ UndoIsSound'
    BY <1>0, <2>1, <2>2, <2>3 DEF SaveIsSound, UndoIsSound, NotExchanged, IsExchanged
  <2> QED BY <2>5, <2>6 DEF FilesInv
<1>3. CASE /\ saving.at = "link" /\ GoesTo("before")
           /\ Becomes([directory EXCEPT !["backup"] = directory["main"]])
  <2> DEFINE d == [directory EXCEPT !["backup"] = directory["main"]]
  <2>1. /\ d \in [Names -> Inodes] /\ d["main"] = directory["main"]
        /\ d["backup"] = directory["main"] /\ d["temp"] = directory["temp"]
    BY Steady
  <2>2. directory' = d /\ mayBe' = mayBe \union {directory'}
    BY <1>3, <2>1, DirectoryBecomes
  <2> HIDE DEF d
  <2>3. /\ saving' \in Savings /\ saving'.at = "before" /\ saving'.inode = saving.inode
        /\ saving'.expected = saving.expected /\ saving'.slips = saving.slips
    BY <1>0, <1>3, SavingGoes DEF Phases
  <2>4. IsGood(saving.expected) /\ IsGood(saving.expected)'
    BY <1>0, <2>3, Steady DEF IsGood
  <2>5. FilesTypeOK' /\ AllAreGood'
    BY <1>0, <2>1, <2>2, <2>3, <2>4, DirectoryStep
  <2>6. saving.expected # saving.inode
    BY <1>0, Steady
  <2>7. \A x \in mayBe' : x["main"] # saving'.inode
    BY <1>0, <2>1, <2>2, <2>3, <2>6
  <2>8. SaveIsSound' /\ UndoIsSound'
    BY <1>0, <2>1, <2>2, <2>3, <2>4, <2>7
       DEF SaveIsSound, UndoIsSound, NotExchanged, IsExchanged
  <2> QED BY <2>5, <2>8 DEF FilesInv
<1> QED BY <1>1, <1>2, <1>3 DEF Place, LinkBackup

\* A call that fails from the exchange on leaves the link, which is renamed back next.
LEMMA LateFailureKeeps ==
  ASSUME FilesInv, saving.at \in {"exchange", "unlinkTemp", "unlinkBackup"}, Stays,
         FileFails("restore", "unsafe"), UNCHANGED <<whole, saved>>
  PROVE  FilesInv'
<1>1. /\ saving' \in Savings /\ saving'.at = "restore" /\ saving'.inode = saving.inode
      /\ saving'.expected = saving.expected /\ saving'.slips = saving.slips + 1
      /\ saving.expected < saving.inode /\ saving.slips = 0
      /\ directory["main"] \in {saving.expected, saving.inode}
      /\ saving.inode \in whole /\ directory["backup"] = saving.expected
      /\ IsGood(saving.expected)
  BY Steady, SavingFails DEF FilesInv, SaveIsSound, NotExchanged, IsExchanged, Phases
<1>2. directory' = directory /\ mayBe' = mayBe /\ mayBe' = mayBe \union {directory'}
  BY DirectoryStays
<1>3. FilesTypeOK' /\ AllAreGood'
  BY <1>1, <1>2, Steady, DirectoryStep DEF FilesInv, FilesTypeOK
<1>4. IsGood(saving.expected)'
  BY <1>1 DEF IsGood
<1>5. SaveIsSound' /\ UndoIsSound'
  BY <1>1, <1>2, <1>4 DEF SaveIsSound, UndoIsSound, NotExchanged, IsExchanged
<1> QED BY <1>3, <1>5 DEF FilesInv

\* Once the backup is synced, no power loss takes the old file.
LEMMA SyncBackupKeeps ==
  ASSUME FilesInv, SyncBackup
  PROVE  FilesInv'
<1>0. /\ UNCHANGED <<whole, saved>> /\ saving.at = "before" /\ whole \subseteq Nat
      /\ saving \in Savings /\ saving.expected < saving.inode /\ saving.slips = 0
      /\ directory["main"] = saving.expected /\ directory["temp"] = saving.inode
      /\ directory["backup"] = saving.expected /\ IsGood(saving.expected)
      /\ saving.inode \in whole /\ \A x \in mayBe : x["main"] # saving.inode
  BY DEF SyncBackup, Inside, FilesInv, FilesTypeOK, SaveIsSound, NotExchanged
<1>1. CASE Flushed /\ GoesTo("exchange")
  <2>1. /\ saving' \in Savings /\ saving'.at = "exchange" /\ saving'.inode = saving.inode
        /\ saving'.expected = saving.expected /\ saving'.slips = saving.slips
    BY <1>0, <1>1, SavingGoes DEF Phases
  <2>2. directory' = directory /\ mayBe' = {directory'} /\ directory \in mayBe
    BY <1>1, Steady DEF Flushed
  <2>3. FilesTypeOK' /\ AllAreGood'
    BY <1>0, <2>1, <2>2, Steady, DirectoryStep
  <2>4. IsGood(saving.expected)' /\ saving.expected # saving.inode
    BY <1>0, <2>1, Steady DEF IsGood
  <2>5. SaveIsSound' /\ UndoIsSound'
    BY <1>0, <2>1, <2>2, <2>4 DEF SaveIsSound, UndoIsSound, NotExchanged, IsExchanged
  <2> QED BY <2>3, <2>5 DEF FilesInv
<1>2. CASE Becomes(Unlinked("backup")) /\ FileFails("clean", "sync")
  <2>1. /\ saving' \in Savings /\ saving'.at = "clean" /\ saving'.inode = saving.inode
        /\ saving'.expected = saving.expected /\ saving'.answer = "sync"
    BY <1>0, <1>2, SavingFails DEF Phases
  <2>2. Unlinked("backup") \in [Names -> Inodes] /\ Unlinked("backup")["main"] = directory["main"]
    BY Steady DEF Unlinked
  <2>3. directory' = Unlinked("backup") /\ mayBe' = mayBe \union {directory'}
    BY <1>2, <2>2, DirectoryBecomes
  <2>4. FilesTypeOK' /\ AllAreGood'
    BY <1>0, <2>1, <2>2, <2>3, Steady, DirectoryStep
  <2>5. SaveIsSound' /\ UndoIsSound'
    BY <1>0, <2>1 DEF SaveIsSound, UndoIsSound, NotExchanged, IsExchanged
  <2> QED BY <2>4, <2>5 DEF FilesInv
<1> QED BY <1>1, <1>2 DEF SyncBackup

\* The names are exchanged, and the spare ones taken away.
LEMMA ExchangeKeeps ==
  ASSUME FilesInv, Exchange \/ UnlinkTemporary \/ UnlinkBackup
  PROVE  FilesInv'
<1>0. /\ UNCHANGED <<whole, saved>> /\ whole \subseteq Nat
      /\ saving.at \in {"exchange", "unlinkTemp", "unlinkBackup"}
      /\ saving \in Savings /\ saving.expected < saving.inode /\ saving.slips = 0
      /\ directory["backup"] = saving.expected /\ IsGood(saving.expected)
      /\ saving.inode \in whole
  BY DEF Exchange, UnlinkTemporary, UnlinkBackup, Inside, FilesInv, FilesTypeOK, SaveIsSound,
         NotExchanged, IsExchanged
<1>1. CASE Stays /\ FileFails("restore", "unsafe")
  BY <1>0, <1>1, LateFailureKeeps
<1>2. IsGood(saving.inode)
  BY <1>0, Steady DEF IsGood
<1>3. ASSUME NEW d \in [Names -> Inodes], d["main"] = saving.inode, Becomes(d),
             NEW at \in {"unlinkTemp", "unlinkBackup", "sync"}, GoesTo(at),
             at # "sync" => d["backup"] = saving.expected
      PROVE  FilesInv'
  <2>1. /\ saving' \in Savings /\ saving'.at = at /\ saving'.inode = saving.inode
        /\ saving'.expected = saving.expected /\ saving'.slips = saving.slips
    BY <1>0, <1>3, SavingGoes DEF Phases
  <2>2. directory' = d /\ mayBe' = mayBe \union {directory'}
    BY <1>3, DirectoryBecomes
  <2>3. FilesTypeOK' /\ AllAreGood'
    BY <1>0, <1>2, <1>3, <2>1, <2>2, DirectoryStep
  <2>4. IsGood(saving.expected)'
    BY <1>0, <2>1 DEF IsGood
  <2>5. SaveIsSound' /\ UndoIsSound'
    BY <1>0, <1>3, <2>1, <2>2, <2>4 DEF SaveIsSound, UndoIsSound, NotExchanged, IsExchanged
  <2> QED BY <2>3, <2>5 DEF FilesInv
<1>4. CASE Exchange
  <2> DEFINE d == [directory EXCEPT !["main"] = directory["temp"], !["temp"] = directory["main"]]
  <2>1. directory["temp"] = saving.inode
    BY <1>4 DEF Exchange, FilesInv, SaveIsSound
  <2>2. /\ d \in [Names -> Inodes] /\ d["main"] = saving.inode
        /\ d["backup"] = saving.expected
    BY <1>0, <2>1, Steady
  <2>3. \/ Becomes(d) /\ GoesTo("unlinkTemp")
        \/ Stays /\ FileFails("restore", "unsafe")
    BY <1>4 DEF Exchange
  <2> HIDE DEF d
  <2> QED BY <1>1, <1>3, <2>2, <2>3
<1>5. CASE UnlinkTemporary
  <2>1. directory["main"] = saving.inode
    BY <1>5 DEF UnlinkTemporary, FilesInv, SaveIsSound, IsExchanged
  <2>2. /\ Unlinked("temp") \in [Names -> Inodes] /\ Unlinked("temp")["main"] = saving.inode
        /\ Unlinked("temp")["backup"] = saving.expected
    BY <1>0, <2>1, Steady DEF Unlinked
  <2> QED BY <1>1, <1>3, <1>5, <2>2 DEF UnlinkTemporary
<1>6. CASE UnlinkBackup
  <2>1. directory["main"] = saving.inode
    BY <1>6 DEF UnlinkBackup, FilesInv, SaveIsSound, IsExchanged
  <2>2. /\ Unlinked("backup") \in [Names -> Inodes] /\ Unlinked("backup")["main"] = saving.inode
    BY <1>0, <2>1, Steady DEF Unlinked
  <2> QED BY <1>1, <1>3, <1>6, <2>2 DEF UnlinkBackup
<1> QED BY <1>4, <1>5, <1>6

\* Putting the old file back undoes an exchange.
LEMMA RestoreKeeps ==
  ASSUME FilesInv, RestoreMain \/ SyncRestored
  PROVE  FilesInv'
<1>0. /\ UNCHANGED <<whole, saved>> /\ whole \subseteq Nat
      /\ saving.at \in {"restore", "settle"} /\ saving.slips = 1
      /\ saving \in Savings /\ saving.expected < saving.inode /\ saving.inode \in whole
      /\ saving.expected # saving.inode
  BY Steady DEF RestoreMain, SyncRestored, Inside, FilesInv, FilesTypeOK, SaveIsSound
<1>1. CASE Stays /\ FileFails("clean", "unsafe")
  <2>1. /\ saving' \in Savings /\ saving'.at = "clean" /\ saving'.inode = saving.inode
        /\ saving'.expected = saving.expected /\ saving'.slips = 2
    BY <1>0, <1>1, SavingFails DEF Phases
  <2>2. directory' = directory /\ mayBe' = mayBe \union {directory'}
    BY <1>1, DirectoryStays
  <2>3. FilesTypeOK' /\ AllAreGood'
    BY <1>0, <2>1, <2>2, Steady, DirectoryStep
  <2>4. SaveIsSound' /\ UndoIsSound'
    BY <1>0, <2>1 DEF SaveIsSound, UndoIsSound, NotExchanged, IsExchanged
  <2> QED BY <2>3, <2>4 DEF FilesInv
<1>2. CASE saving.at = "restore" /\ Becomes(RenamedBack) /\ GoesTo("settle")
  <2>1. directory["backup"] = saving.expected /\ IsGood(saving.expected)
    BY <1>2 DEF FilesInv, SaveIsSound
  <2>2. RenamedBack \in [Names -> Inodes] /\ RenamedBack["main"] = saving.expected
    BY <2>1, Steady DEF RenamedBack
  <2>3. directory' = RenamedBack /\ mayBe' = mayBe \union {directory'}
    BY <1>2, <2>2, DirectoryBecomes
  <2>4. /\ saving' \in Savings /\ saving'.at = "settle" /\ saving'.inode = saving.inode
        /\ saving'.expected = saving.expected /\ saving'.slips = saving.slips
    BY <1>0, <1>2, SavingGoes DEF Phases
  <2>5. FilesTypeOK' /\ AllAreGood'
    BY <1>0, <2>1, <2>2, <2>3, <2>4, DirectoryStep
  <2>6. SaveIsSound' /\ UndoIsSound'
    BY <1>0, <2>2, <2>3, <2>4 DEF SaveIsSound, UndoIsSound, NotExchanged, IsExchanged
  <2> QED BY <2>5, <2>6 DEF FilesInv
<1>3. CASE saving.at = "settle" /\ Flushed /\ GoesTo("clean")
  <2>1. /\ saving' \in Savings /\ saving'.at = "clean" /\ saving'.inode = saving.inode
        /\ saving'.expected = saving.expected /\ saving'.slips = saving.slips
    BY <1>0, <1>3, SavingGoes DEF Phases
  <2>2. directory' = directory /\ mayBe' = {directory'} /\ directory \in mayBe
    BY <1>3, Steady DEF Flushed
  <2>3. FilesTypeOK' /\ AllAreGood'
    BY <1>0, <2>1, <2>2, Steady, DirectoryStep
  <2>4. directory["main"] = saving.expected
    BY <1>3 DEF FilesInv, SaveIsSound
  <2>5. SaveIsSound' /\ UndoIsSound'
    BY <1>0, <2>1, <2>2, <2>4 DEF SaveIsSound, UndoIsSound, NotExchanged, IsExchanged
  <2> QED BY <2>3, <2>5 DEF FilesInv
<1> QED BY <1>1, <1>2, <1>3 DEF RestoreMain, SyncRestored

\* The last sync answers for the new file alone: no other can come up any more.
LEMMA PublishedKeeps ==
  ASSUME FilesInv, SyncPublished
  PROVE  FilesInv'
<1>0. /\ UNCHANGED whole /\ whole \subseteq Nat /\ saving.at = "sync"
      /\ saving \in Savings /\ saving.inode \in whole /\ directory["main"] = saving.inode
      /\ saving.inode \in Nat
  BY DEF SyncPublished, FilesInv, FilesTypeOK, SaveIsSound, IsExchanged, Savings
<1>1. CASE /\ Flushed /\ saving' = [saving EXCEPT !.at = "rest", !.answer = "ok"]
           /\ saved' = saving.inode
  <2>1. /\ saving' \in Savings /\ saving'.at = "rest" /\ saving'.inode = saving.inode
        /\ saving'.answer = "ok"
    BY <1>0, <1>1 DEF Savings, Phases
  <2>2. directory' = directory /\ mayBe' = {directory'} /\ directory \in [Names -> Inodes]
    BY <1>1, Steady DEF Flushed
  <2>3. FilesTypeOK' /\ AllAreGood'
    BY <1>0, <1>1, <2>1, <2>2 DEF FilesTypeOK, AllAreGood, IsGood, Inodes
  <2>4. SaveIsSound' /\ UndoIsSound'
    BY <2>1 DEF SaveIsSound, UndoIsSound, NotExchanged, IsExchanged
  <2> QED BY <2>3, <2>4 DEF FilesInv
<1>2. CASE Stays /\ FileFails("clean", "sync") /\ UNCHANGED saved
  <2>1. /\ saving' \in Savings /\ saving'.at = "clean" /\ saving'.inode = saving.inode
        /\ saving'.expected = saving.expected /\ saving'.answer = "sync"
    BY <1>0, <1>2, SavingFails DEF Phases
  <2>2. directory' = directory /\ mayBe' = mayBe \union {directory'}
    BY <1>2, DirectoryStays
  <2>3. FilesTypeOK' /\ AllAreGood'
    BY <1>0, <1>2, <2>1, <2>2, Steady, DirectoryStep
  <2>4. saving.expected < saving.inode
    BY <1>0 DEF FilesInv, SaveIsSound
  <2>5. SaveIsSound' /\ UndoIsSound'
    BY <2>1, <2>4 DEF SaveIsSound, UndoIsSound, NotExchanged, IsExchanged
  <2> QED BY <2>3, <2>5 DEF FilesInv
<1> QED BY <1>1, <1>2 DEF SyncPublished

\* Removing the other names leaves the main file.
LEMMA CleanUpKeeps ==
  ASSUME FilesInv, CleanUp
  PROVE  FilesInv'
<1>0. /\ UNCHANGED <<whole, saved>> /\ whole \subseteq Nat /\ saving.at = "clean"
      /\ saving' \in Savings /\ saving'.at = "rest" /\ saving'.inode = saving.inode
      /\ saving'.expected = saving.expected /\ saving'.slips = saving.slips
      /\ saving'.answer = saving.answer
  BY DEF CleanUp, FilesInv, FilesTypeOK, Savings, Phases
<1>1. /\ Unlinked("temp") \in [Names -> Inodes]
      /\ Unlinked("temp")["main"] = directory["main"]
  BY Steady DEF Unlinked
<1>2. /\ directory' \in [Names -> Inodes] /\ directory'["main"] = directory["main"]
      /\ mayBe' = mayBe \union {directory'}
  BY <1>1, DirectoryBecomes, DirectoryStays, Steady DEF CleanUp
<1>3. FilesTypeOK' /\ AllAreGood'
  BY <1>0, <1>2, Steady, DirectoryStep
<1>4. directory \in mayBe
  BY Steady
<1>5. SaveIsSound' /\ UndoIsSound'
  BY <1>0, <1>2, <1>4 DEF FilesInv, SaveIsSound, UndoIsSound, NotExchanged, IsExchanged
<1> QED BY <1>3, <1>5 DEF FilesInv

\* What a loss of power leaves was good beforehand.
LEMMA LosePowerKeeps ==
  ASSUME FilesInv, LosePower
  PROVE  FilesInv'
<1>0. UNCHANGED <<whole, saved>> /\ whole \subseteq Nat
  BY DEF LosePower, FilesInv, FilesTypeOK
<1>1. /\ saving' \in Savings /\ saving'.at = "rest" /\ saving'.inode = saving.inode
      /\ saving'.answer = "none"
  BY Steady DEF LosePower, SaveRests, Savings, Phases, NoFile
<1>2. directory' \in mayBe /\ mayBe' = {directory'}
  BY DEF LosePower
<1>3. directory' \in [Names -> Inodes] /\ IsGood(directory'["main"])
  BY <1>2 DEF FilesInv, FilesTypeOK, AllAreGood
<1>4. FilesTypeOK' /\ AllAreGood'
  BY <1>0, <1>1, <1>2, <1>3, DirectoryStep
<1>5. SaveIsSound' /\ UndoIsSound'
  BY <1>1 DEF SaveIsSound, UndoIsSound, NotExchanged, IsExchanged
<1> QED BY <1>4, <1>5 DEF FilesInv

\* Every step keeps the invariant of the files.
LEMMA FilesKept == FilesInv /\ [FilesNext]_filesVars => FilesInv'
<1> SUFFICES ASSUME FilesInv, [FilesNext]_filesVars PROVE FilesInv'
  OBVIOUS
<1>1. CASE FilesNext
  BY <1>1, BeginningKeeps, WriteKeeps, PlaceKeeps, SyncBackupKeeps, ExchangeKeeps, RestoreKeeps,
     PublishedKeeps, CleanUpKeeps, LosePowerKeeps
     DEF FilesNext
<1>2. CASE UNCHANGED filesVars
  BY <1>2
     DEF filesVars, FilesInv, FilesTypeOK, Inodes, AllAreGood, IsGood, SaveIsSound, UndoIsSound,
         NotExchanged, IsExchanged
<1> QED BY <1>1, <1>2

\* Whatever call fails and whenever the power goes: the file is a whole one, is that of the
\* last save that was answered with success or a later one, and a save that was refused as
\* unsafe after one failure has changed nothing.
THEOREM FilesAreSafeHolds == FilesSpec => []FilesAreSafe
<1>1. FilesInv => FilesAreSafe
  <2> SUFFICES ASSUME FilesInv PROVE FilesAreSafe
    OBVIOUS
  <2>1. mayBe \union {directory} = mayBe /\ saved \in Nat /\ mayBe \subseteq [Names -> Inodes]
    BY Steady DEF FilesInv, FilesTypeOK
  <2>2. \A d \in mayBe : d["main"] \in Nat
    BY <2>1, Steady DEF Inodes
  <2>3. FileIsWhole /\ SavedIsDurable
    BY <2>1, <2>2 DEF FilesInv, AllAreGood, IsGood, FileIsWhole, SavedIsDurable, NoFile
  <2>4. UnsafeIsUnchanged
    BY DEF FilesInv, UndoIsSound, UnsafeIsUnchanged
  <2> QED BY <2>3, <2>4 DEF FilesAreSafe
<1> QED BY <1>1, FilesBegin, FilesKept, PTL DEF FilesSpec

-----------------------------------------------------------------------------
(* The library of character packs.                                         *)

Selections == Packs \union {Builtin}
Changes ==
  [at : {"publish", "archive", "save", "restore", "unpublish", "discard", "failed", "snapshot"},
   kind : {"import", "delete", "show"}, pack : Selections, todo : SUBSET Packs,
   archived : Seq(Packs), from : {"archive", "save"},
   before : [library : SUBSET Packs, chosen : Selections], faults : Nat, answer : {"none"}]

LibraryTypeOK ==
  /\ library \subseteq imported /\ quarantine \subseteq imported /\ imported \subseteq Packs
  /\ chosen \in Selections /\ mapped \subseteq Packs
  /\ previews \in [Packs -> {"none", "picked", "attested"}]
  /\ \A p \in Packs : previews[p] # "none" => p \in imported
  /\ Resting \/ change \in Changes

\* A pack is installed or in the quarantine, never both.
OneDirectory == library \intersect quarantine = {}

\* The packs a change takes away: an import all that it has found, a deletion one.
Taken == IF change.kind = "import" THEN change.before.library ELSE {change.pack}

\* What was found before the change is installed or archived, and the selection is not
\* written yet; after the first fault that is so until the change is answered.
NothingIsLost ==
  /\ change.before.library \subseteq library \union Replaced
  /\ change.before.chosen = chosen

\* From the publication to the snapshot: the new pack is there, what is yet to be archived
\* too, and nothing else is touched.
WorkIsSound ==
  /\ change.kind = "import" => change.pack \in library /\ change.pack \notin change.before.library
  /\ Taken \intersect library \subseteq change.todo /\ change.todo \subseteq Taken
  /\ change.before.library \ Taken \subseteq library
  /\ change.at # "archive" => change.todo = {}

\* The state file has been written: it selects what is there.
SelectionIsSound ==
  IF change.kind = "import" THEN chosen = change.pack
  ELSE change.before.chosen \in change.before.library => chosen \in library \union {Builtin}

\* Nothing of what was found is missing.
AllIsThere == change.before.library \subseteq library /\ change.before.chosen = chosen

StepIsSound ==
  /\ change.at = "publish" =>
       /\ change.faults = 0 /\ AllIsThere
       /\ change.kind = "import" /\ change.todo = change.before.library
  /\ change.at \in {"archive", "save"} => change.faults = 0 /\ NothingIsLost /\ WorkIsSound
  /\ change.at \in {"discard", "snapshot"} => WorkIsSound /\ SelectionIsSound
  /\ change.at = "restore" =>
       /\ change.faults # 0 /\ (change.faults = 1 => NothingIsLost)
       /\ change.kind = "import" =>
            change.pack \in library /\ change.pack \notin change.before.library
  /\ change.at = "unpublish" =>
       change.kind = "import" /\ change.faults # 0 /\ change.pack \notin change.before.library
  /\ change.at \in {"unpublish", "failed"} /\ change.faults <= 1 => AllIsThere

ChangeIsSound ==
  /\ ~Resting => change.kind \in {"import", "delete"} \/ change.at = "snapshot"
  /\ Changing => {change.pack} \union change.todo \union Replaced \subseteq imported /\ StepIsSound

LibraryInv == LibraryTypeOK /\ OneDirectory /\ ChangeIsSound

\* The archive grows by one pack, and gives the last one back.
LEMMA ArchiveGrows ==
  ASSUME NEW s \in Seq(Packs), NEW q \in Packs
  PROVE  /\ Append(s, q) \in Seq(Packs)
         /\ {Append(s, q)[i] : i \in DOMAIN Append(s, q)} = {s[i] : i \in DOMAIN s} \union {q}
<1>1. /\ Append(s, q) \in Seq(Packs) /\ Len(Append(s, q)) = Len(s) + 1
      /\ Append(s, q)[Len(s) + 1] = q /\ \A i \in 1..Len(s) : Append(s, q)[i] = s[i]
  BY AppendProperties
<1>2. /\ DOMAIN s = 1..Len(s) /\ DOMAIN Append(s, q) = 1..(Len(s) + 1) /\ Len(s) \in Nat
  BY <1>1, LenProperties
<1> QED BY <1>1, <1>2

\* Undoing the last archive leaves the others.
LEMMA ArchiveShrinks ==
  ASSUME NEW s \in Seq(Packs), s # <<>>
  PROVE  /\ SubSeq(s, 1, Len(s) - 1) \in Seq(Packs) /\ s[Len(s)] \in Packs
         /\ {s[i] : i \in DOMAIN s} =
              {SubSeq(s, 1, Len(s) - 1)[i] : i \in DOMAIN SubSeq(s, 1, Len(s) - 1)}
                \union {s[Len(s)]}
<1> DEFINE r == SubSeq(s, 1, Len(s) - 1)
<1>1. DOMAIN s = 1..Len(s) /\ Len(s) \in Nat \ {0}
  BY LenProperties, EmptySeq
<1>2. r \in Seq(Packs) /\ Len(r) = Len(s) - 1 /\ \A i \in 1..(Len(s) - 1) : r[i] = s[i]
  BY <1>1, SubSeqProperties
<1>3. DOMAIN r = 1..(Len(s) - 1) /\ s[Len(s)] \in Packs
  BY <1>1, <1>2, LenProperties, ElementOfSeq
<1> HIDE DEF r
<1>4. {s[i] : i \in DOMAIN s} = {r[i] : i \in DOMAIN r} \union {s[Len(s)]}
  BY <1>1, <1>2, <1>3
<1> QED BY <1>2, <1>3, <1>4 DEF r

\* Reading the library takes packs out of it, and none that it finds.
LEMMA LoadsShrinks ==
  ASSUME LibraryInv, NEW found, NEW k, Loads(found, k)
  PROVE  /\ found \subseteq library' /\ library' \subseteq library /\ found \subseteq imported
         /\ found \subseteq Packs /\ library \subseteq library' \union broken'
         /\ library' \intersect quarantine' = {} /\ UNCHANGED quarantine
         /\ k = 0 => library' = library /\ found = library
         /\ k = 1 => library \ found \subseteq broken'
BY DEF Loads, LibraryInv, LibraryTypeOK, OneDirectory

\* While nothing is under way: the previews, and operations that are refused.
LEMMA PreviewsKeep ==
  ASSUME LibraryInv,
         \E p \in Packs : PickImport(p) \/ AttestPreview(p) \/ CancelImport(p) \/ Expire(p)
  PROVE  LibraryInv'
<1>1. Resting /\ UNCHANGED <<library, change, chosen, mapped>>
  BY DEF PickImport, AttestPreview, CancelImport, Expire, disk, stateFile
<1>2. /\ imported \subseteq imported' /\ imported' \subseteq Packs
      /\ quarantine' \subseteq imported' /\ library \intersect quarantine' = {}
      /\ previews' \in [Packs -> {"none", "picked", "attested"}]
      /\ \A p \in Packs : previews'[p] # "none" => p \in imported'
  BY DEF LibraryInv, LibraryTypeOK, OneDirectory, PickImport, AttestPreview, CancelImport, Expire,
         disk, counts
<1>3. LibraryTypeOK' /\ OneDirectory'
  BY <1>1, <1>2 DEF LibraryInv, LibraryTypeOK, OneDirectory, Resting
<1> QED BY <1>1, <1>3 DEF LibraryInv, ChangeIsSound, Changing, Resting

\* Whoever leaves the previews alone keeps the types, if its own are right.
LEMMA TypesKept ==
  ASSUME LibraryInv, UNCHANGED imported, library' \subseteq imported, quarantine' \subseteq imported,
         library' \intersect quarantine' = {}, chosen' \in Selections, mapped' \subseteq Packs,
         previews' \in [Packs -> {"none", "picked", "attested"}],
         \A p \in Packs : previews'[p] \in {previews[p], "none"},
         Resting' \/ change' \in Changes, ChangeIsSound'
  PROVE  LibraryInv'
BY DEF LibraryInv, LibraryTypeOK, OneDirectory

\* The previews stay what they are where nobody touches them.
LEMMA SamePreviews ==
  ASSUME LibraryInv, UNCHANGED previews
  PROVE  /\ previews' \in [Packs -> {"none", "picked", "attested"}]
         /\ \A p \in Packs : previews'[p] \in {previews[p], "none"}
BY DEF LibraryInv, LibraryTypeOK

\* The facts a change under way gives to its steps.
LEMMA UnderWay ==
  ASSUME LibraryInv
  PROVE  /\ library \subseteq imported /\ quarantine \subseteq imported /\ imported \subseteq Packs
         /\ library \intersect quarantine = {} /\ chosen \in Selections /\ mapped \subseteq Packs
         /\ ~Resting => /\ change \in Changes /\ change.archived \in Seq(Packs)
                        /\ change.faults \in Nat /\ change.todo \subseteq Packs
         /\ ~Resting /\ change.at # "snapshot" =>
              /\ Changing /\ StepIsSound /\ change.pack \in imported
              /\ change.todo \subseteq imported /\ Replaced \subseteq imported
         /\ Changing => StepIsSound
BY DEF LibraryInv, LibraryTypeOK, OneDirectory, Changes, ChangeIsSound, Changing

\* An operation that is answered.
LEMMA ChangeEnds ==
  ASSUME LibraryInv, change'.at = "rest", library' \subseteq imported, quarantine' \subseteq imported,
         library' \intersect quarantine' = {}, UNCHANGED <<mapped, imported>>,
         chosen' \in Selections,
         previews' \in [Packs -> {"none", "picked", "attested"}],
         \A p \in Packs : previews'[p] \in {previews[p], "none"}
  PROVE  LibraryInv'
BY DEF LibraryInv, LibraryTypeOK, OneDirectory, Resting, ChangeIsSound, Changing

\* A snapshot is begun: nothing is to be changed.
LEMMA ShowsIsSound ==
  ASSUME LibraryInv, Shows
  PROVE  change' \in Changes /\ ChangeIsSound'
<1>1. chosen \in Selections /\ Builtin \in Selections /\ <<>> \in Seq(Packs)
  BY DEF LibraryInv, LibraryTypeOK, Selections
<1>2. change' \in Changes /\ change'.kind = "show" /\ change'.at = "snapshot"
  BY <1>1 DEF Shows, Begins, Changes
<1> QED BY <1>2 DEF ChangeIsSound, Changing

\* Operations on what is selected, and those that are refused.
LEMMA SelectionsKeep ==
  ASSUME LibraryInv,
         \/ GetLibrary \/ Refuse \/ SaveMapping \/ \E p \in Selections : SelectPack(p)
  PROVE  LibraryInv'
<1>1. Resting /\ UNCHANGED <<previews, imported>>
  BY DEF GetLibrary, Refuse, SaveMapping, SelectPack, counts
<1>2. Shows \/ change'.at = "rest"
  BY DEF GetLibrary, Refuse, SaveMapping, SelectPack, StateSaved, Answers, NoChange
<1>3. /\ library' \subseteq library /\ UNCHANGED quarantine
      /\ chosen' \in Selections /\ mapped' \subseteq Packs
  <2>1. CASE GetLibrary
    BY <2>1, UnderWay DEF GetLibrary, disk, stateFile
  <2>2. CASE Refuse
    BY <2>2, UnderWay, LoadsShrinks DEF Refuse, stateFile
  <2>3. CASE SaveMapping
    BY <2>3, UnderWay, LoadsShrinks DEF SaveMapping
  <2>4. CASE \E p \in Selections : SelectPack(p)
    BY <2>4, UnderWay, LoadsShrinks DEF SelectPack
  <2> QED BY <2>1, <2>2, <2>3, <2>4
<1>4. library' \subseteq imported /\ quarantine' \subseteq imported /\ library' \intersect quarantine' = {}
  BY <1>3, UnderWay
<1>5. CASE Shows
  BY <1>1, <1>3, <1>4, <1>5, ShowsIsSound, SamePreviews, TypesKept
<1>6. CASE change'.at = "rest"
  <2>1. Resting' /\ ChangeIsSound'
    BY <1>6 DEF Resting, ChangeIsSound, Changing
  <2> QED BY <1>1, <1>3, <1>4, <2>1, SamePreviews, TypesKept
<1> QED BY <1>2, <1>5, <1>6

\* A change begins with a note of what it has found.
LEMMA BeginsKeeps ==
  ASSUME LibraryInv, NEW p \in Packs, ConfirmImport(p) \/ DeletePack(p)
  PROVE  LibraryInv'
<1>1. PICK found, k, kind, step, todo :
        /\ Loads(found, k) /\ Begins(kind, p, step, todo, found)
        /\ \/ kind = "import" /\ step = "publish" /\ todo = found
           \/ kind = "delete" /\ step = "archive" /\ todo = {p} /\ p \in found
  BY DEF ConfirmImport, DeletePack
<1>2. UNCHANGED <<chosen, mapped, previews, imported>> /\ p \in imported
  BY LoadsShrinks DEF ConfirmImport, DeletePack, stateFile, counts, LibraryInv, LibraryTypeOK
<1>3. /\ found \subseteq imported /\ found \subseteq Packs /\ found \subseteq library'
      /\ library' \subseteq library /\ UNCHANGED quarantine
  BY <1>1, LoadsShrinks
<1>4. <<>> \in Seq(Packs) /\ {<<>>[i] : i \in DOMAIN <<>>} = {} /\ todo \subseteq found
  BY <1>1
<1>5. /\ change' \in Changes /\ change'.at = step /\ change'.kind = kind
      /\ change'.before.library = found /\ change'.before.chosen = chosen
      /\ change'.faults = 0 /\ change'.archived = <<>>
      /\ change'.pack = p /\ change'.todo = todo
  <2>1. p \in Selections /\ chosen \in Selections /\ found \in SUBSET Packs /\ todo \in SUBSET Packs
    BY <1>3, <1>4, UnderWay DEF Selections
  <2> QED BY <1>1, <1>4, <2>1 DEF Begins, Changes
<1>6. Replaced' = {}
  BY <1>4, <1>5 DEF Replaced
<1>7. StepIsSound'
  BY <1>1, <1>2, <1>3, <1>5 DEF StepIsSound, AllIsThere, NothingIsLost, WorkIsSound, Taken
<1>8. ChangeIsSound'
  BY <1>1, <1>2, <1>3, <1>4, <1>5, <1>6, <1>7 DEF ChangeIsSound
<1> QED BY <1>2, <1>3, <1>5, <1>8, UnderWay, SamePreviews, TypesKept

\* A step of a change that leaves the state file and the previews alone.
LEMMA ChangeStep ==
  ASSUME LibraryInv, change' \in Changes, library' \subseteq imported, quarantine' \subseteq imported,
         library' \intersect quarantine' = {}, StepIsSound', Changing,
         change'.kind = change.kind,
         {change'.pack} \union change'.todo \union Replaced' \subseteq imported,
         UNCHANGED <<stateFile, previews, imported>>
  PROVE  LibraryInv'
<1>1. ChangeIsSound'
  BY DEF ChangeIsSound, Changing
<1> QED BY <1>1, UnderWay, SamePreviews, TypesKept DEF stateFile

\* A change goes on at another step, with or without a fault.
LEMMA GoesOn ==
  ASSUME change \in Changes,
         NEW step \in {"archive", "save", "restore", "unpublish", "discard", "failed", "snapshot"},
         NEW k \in Nat, change' = [change EXCEPT !.at = step, !.faults = @ + k]
           \/ (k = 0 /\ change' = [change EXCEPT !.at = step])
  PROVE  /\ change' \in Changes /\ change'.at = step /\ change'.kind = change.kind
         /\ change'.pack = change.pack /\ change'.todo = change.todo
         /\ change'.archived = change.archived
         /\ change'.before = change.before /\ change'.faults = change.faults + k
         /\ Replaced' = Replaced /\ Taken' = Taken
<1>1. change.faults \in Nat /\ change.faults + k \in Nat
  BY DEF Changes
<1>2. /\ change' \in Changes /\ change'.at = step /\ change'.kind = change.kind
      /\ change'.pack = change.pack /\ change'.todo = change.todo
      /\ change'.archived = change.archived
      /\ change'.before = change.before /\ change'.faults = change.faults + k
  <2>2. CASE change' = [change EXCEPT !.at = step, !.faults = @ + k]
    <3>1. PICK m \in Nat : m = change.faults + k /\ change' = [change EXCEPT !.at = step, !.faults = m]
      BY <1>1, <2>2
    <3> QED BY <3>1 DEF Changes
  <2>3. CASE k = 0 /\ change' = [change EXCEPT !.at = step]
    BY <1>1, <2>3 DEF Changes
  <2> QED BY <2>2, <2>3
<1> QED BY <1>2 DEF Replaced, Taken

\* Publishing a pack adds it to what is installed.
LEMMA PublishKeeps ==
  ASSUME LibraryInv, Publish
  PROVE  LibraryInv'
<1>0. /\ ~Resting /\ change.at = "publish" /\ UNCHANGED <<stateFile, previews, imported, chosen>>
  BY DEF Publish, Resting, counts, stateFile
<1>1. /\ change \in Changes /\ Changing /\ change.faults = 0 /\ AllIsThere
      /\ change.kind = "import" /\ change.todo = change.before.library
      /\ change.pack \in imported /\ change.todo \subseteq imported /\ Replaced \subseteq imported
  BY <1>0, UnderWay DEF StepIsSound
<1>2. PICK step \in {"archive", "failed"}, k \in {0, 1} :
        /\ change' = [change EXCEPT !.at = step, !.faults = @ + k]
             \/ (k = 0 /\ change' = [change EXCEPT !.at = step])
        /\ step = "archive" => k = 0 /\ change.pack \in quarantine /\ change.pack \in library'
        /\ library' \in {library, library \union {change.pack}}
        /\ quarantine' \subseteq quarantine /\ library' \intersect quarantine' = {}
  BY <1>0, <1>1, UnderWay DEF Publish, Goes, Fails
<1>3. /\ change' \in Changes /\ change'.at = step /\ change'.kind = change.kind
      /\ change'.pack = change.pack /\ change'.todo = change.todo
      /\ change'.before = change.before /\ change'.faults = k
      /\ Replaced' = Replaced /\ Taken' = change.before.library
  <2>1. k \in Nat /\ change.faults + k = k
    BY <1>1, <1>2
  <2>2. step \in {"archive", "save", "restore", "unpublish", "discard", "failed", "snapshot"}
    BY <1>2
  <2> QED BY <1>1, <1>2, <2>1, <2>2, GoesOn DEF Taken
<1>4. AllIsThere' /\ library' \subseteq imported
  BY <1>0, <1>1, <1>2, <1>3, UnderWay DEF AllIsThere
<1>5. step = "archive" => NothingIsLost' /\ WorkIsSound'
  BY <1>0, <1>1, <1>2, <1>3, <1>4, UnderWay DEF AllIsThere, NothingIsLost, WorkIsSound
<1>6. StepIsSound'
  BY <1>2, <1>3, <1>4, <1>5 DEF StepIsSound
<1> QED BY <1>0, <1>1, <1>2, <1>3, <1>4, <1>6, UnderWay, ChangeStep

\* Archiving a pack moves it: what is installed or archived stays whole.
LEMMA ArchiveStepKeeps ==
  ASSUME LibraryInv, ArchivePack
  PROVE  LibraryInv'
<1>0. ~Resting /\ change.at = "archive" /\ UNCHANGED <<stateFile, previews, imported, chosen>>
  BY DEF ArchivePack, Resting, counts, stateFile
<1>1. /\ change \in Changes /\ Changing /\ change.faults = 0 /\ NothingIsLost /\ WorkIsSound
      /\ change.pack \in imported /\ change.todo \subseteq imported /\ Replaced \subseteq imported
      /\ change.kind = "import" =>
           change.pack \in library /\ change.pack \notin change.before.library
  BY <1>0, UnderWay DEF StepIsSound, WorkIsSound
<1>2. ASSUME NEW q \in change.todo,
             library' = library \ {q}, quarantine' = quarantine \union {q},
             change' = [change EXCEPT !.todo = @ \ {q}, !.archived = Append(@, q)]
      PROVE  LibraryInv'
  <2>1. /\ q \in Packs /\ q \in imported /\ Append(change.archived, q) \in Seq(Packs)
        /\ change.todo \subseteq Packs /\ q \in Taken /\ change.archived \in Seq(Packs)
    <3>1. q \in imported /\ imported \subseteq Packs /\ change.archived \in Seq(Packs)
          /\ change.todo \subseteq Packs
      BY <1>0, <1>1, <1>2, UnderWay
    <3>2. q \in Taken
      BY <1>1, <1>2 DEF WorkIsSound
    <3> QED BY <3>1, <3>2, ArchiveGrows
  <2>2. /\ change' \in Changes /\ change'.at = change.at /\ change'.kind = change.kind
        /\ change'.pack = change.pack /\ change'.todo = change.todo \ {q}
        /\ change'.archived = Append(change.archived, q)
        /\ change'.before = change.before /\ change'.faults = change.faults
    BY <1>1, <1>2, <2>1 DEF Changes
  <2>3. Replaced' = Replaced \union {q} /\ Taken' = Taken
    BY <2>1, <2>2, ArchiveGrows DEF Replaced, Taken
  <2>4. NothingIsLost'
    BY <1>0, <1>1, <1>2, <2>2, <2>3 DEF NothingIsLost
  <2>5. WorkIsSound'
    BY <1>0, <1>1, <1>2, <2>1, <2>2, <2>3 DEF WorkIsSound, Taken
  <2>6. StepIsSound'
    BY <1>0, <1>1, <2>2, <2>4, <2>5 DEF StepIsSound
  <2> QED BY <1>0, <1>1, <1>2, <2>1, <2>2, <2>3, <2>6, UnderWay, ChangeStep
<1>3. ASSUME UNCHANGED disk, NEW step \in {"save", "restore"}, NEW k \in {0, 1},
             step = "restore" <=> k = 1, step = "save" => change.todo = {},
             change' = [change EXCEPT !.at = step, !.faults = @ + k]
               \/ (k = 0 /\ change' = [change EXCEPT !.at = step])
      PROVE  LibraryInv'
  <2>1. /\ change' \in Changes /\ change'.at = step /\ change'.kind = change.kind
        /\ change'.pack = change.pack /\ change'.todo = change.todo
        /\ change'.before = change.before /\ change'.faults = k
        /\ Replaced' = Replaced /\ Taken' = Taken
    <3>1. k \in Nat /\ change.faults + k = k
          /\ step \in {"archive", "save", "restore", "unpublish", "discard", "failed", "snapshot"}
      BY <1>1, <1>3
    <3> QED BY <1>1, <1>3, <3>1, GoesOn
  <2>2. UNCHANGED <<library, quarantine>>
    BY <1>3 DEF disk
  <2>3. NothingIsLost'
    BY <1>0, <1>1, <2>1, <2>2 DEF NothingIsLost
  <2>4. step = "save" => WorkIsSound'
    BY <1>1, <1>3, <2>1, <2>2 DEF WorkIsSound
  <2>5. StepIsSound'
    BY <1>1, <1>3, <2>1, <2>2, <2>3, <2>4 DEF StepIsSound
  <2> QED BY <1>0, <1>1, <2>1, <2>2, <2>5, UnderWay, ChangeStep
<1>4. CASE change.todo = {} /\ Goes("save") /\ UNCHANGED disk
  BY <1>3, <1>4 DEF Goes
<1>5. CASE Fails("restore") /\ UNCHANGED disk
  BY <1>3, <1>5 DEF Fails
<1> QED BY <1>2, <1>4, <1>5 DEF ArchivePack

\* After a fault: the archive is restored, and the publication taken back.
LEMMA RestoreStepKeeps ==
  ASSUME LibraryInv, RestorePack \/ Unpublish
  PROVE  LibraryInv'
<1>0. /\ ~Resting /\ change.at \in {"restore", "unpublish"}
      /\ UNCHANGED <<stateFile, previews, imported, chosen>>
  BY DEF RestorePack, Unpublish, Resting, counts, stateFile
<1>1. /\ change \in Changes /\ Changing /\ change.faults \in Nat \ {0}
      /\ change.pack \in imported /\ change.todo \subseteq imported /\ Replaced \subseteq imported
      /\ change.at = "restore" /\ change.faults = 1 => NothingIsLost
      /\ change.kind = "import" => change.pack \notin change.before.library
  BY <1>0, UnderWay DEF StepIsSound
<1>2. CASE /\ change.archived # <<>> /\ change.at = "restore"
           /\ library' = library \union {Last} /\ quarantine' = quarantine \ {Last}
           /\ change' = [change EXCEPT !.archived = SubSeq(@, 1, Len(@) - 1)]
  <2> DEFINE r == SubSeq(change.archived, 1, Len(change.archived) - 1)
  <2>1. /\ r \in Seq(Packs) /\ Last \in Packs
        /\ Replaced = {r[i] : i \in DOMAIN r} \union {Last}
    BY <1>0, <1>2, UnderWay, ArchiveShrinks DEF Last, Replaced
  <2>2. /\ change' \in Changes /\ change'.at = change.at /\ change'.kind = change.kind
        /\ change'.pack = change.pack /\ change'.todo = change.todo
        /\ change'.archived = r
        /\ change'.before = change.before /\ change'.faults = change.faults
    BY <1>1, <1>2, <2>1 DEF Changes
  <2> HIDE DEF r
  <2>3. Replaced = Replaced' \union {Last} /\ Last \in imported
    BY <1>1, <2>1, <2>2 DEF Replaced
  <2>4. change.faults = 1 => NothingIsLost'
    BY <1>0, <1>1, <1>2, <2>2, <2>3 DEF NothingIsLost
  <2>5. change.kind = "import" => change.pack \in library
    BY <1>0, <1>2, UnderWay DEF StepIsSound
  <2>6. StepIsSound'
    BY <1>1, <1>2, <2>2, <2>4, <2>5 DEF StepIsSound
  <2> QED BY <1>0, <1>1, <1>2, <2>2, <2>3, <2>6, UnderWay, ChangeStep
<1>3. ASSUME NEW step \in {"unpublish", "failed"}, NEW k \in {0, 1},
             change' = [change EXCEPT !.at = step, !.faults = @ + k]
               \/ (k = 0 /\ change' = [change EXCEPT !.at = step]),
             library' \subseteq imported, quarantine' \subseteq imported,
             library' \intersect quarantine' = {},
             step = "unpublish" => change.kind = "import",
             k = 0 /\ change.faults = 1 =>
               change.before.library \subseteq library' /\ change.before.chosen = chosen
      PROVE  LibraryInv'
  <2>1. /\ change' \in Changes /\ change'.at = step /\ change'.kind = change.kind
        /\ change'.pack = change.pack /\ change'.todo = change.todo
        /\ change'.before = change.before /\ change'.faults = change.faults + k
        /\ Replaced' = Replaced
    <3>1. k \in Nat
          /\ step \in {"archive", "save", "restore", "unpublish", "discard", "failed", "snapshot"}
      BY <1>3
    <3> QED BY <1>1, <1>3, <3>1, GoesOn
  <2>2. change'.faults # 0 /\ (change'.faults <= 1 => k = 0 /\ change.faults = 1)
    BY <1>1, <1>3, <2>1
  <2>3. change'.faults <= 1 => AllIsThere'
    BY <1>0, <1>3, <2>1, <2>2 DEF AllIsThere
  <2>4. StepIsSound'
    BY <1>1, <1>3, <2>1, <2>2, <2>3 DEF StepIsSound
  <2> QED BY <1>0, <1>1, <1>3, <2>1, <2>4, ChangeStep
<1>4. CASE /\ change.at = "restore" /\ UNCHANGED disk
           /\ \/ change.archived = <<>> /\ Goes(AfterRestore)
              \/ Fails(IF change.from = "save" THEN "failed" ELSE AfterRestore)
  <2>1. AfterRestore \in {"unpublish", "failed"} /\ (AfterRestore = "unpublish" => change.kind = "import")
    BY <1>1 DEF AfterRestore
  <2>2. UNCHANGED <<library, quarantine>>
    BY <1>4 DEF disk
  <2>3. CASE change.archived = <<>> /\ Goes(AfterRestore)
    <3>1. change' = [change EXCEPT !.at = AfterRestore]
      BY <2>3 DEF Goes
    <3>2. Replaced = {}
      BY <2>3 DEF Replaced
    <3>3. change.faults = 1 =>
            change.before.library \subseteq library' /\ change.before.chosen = chosen
      BY <1>1, <1>4, <2>2, <3>2 DEF NothingIsLost
    <3> QED BY <1>3, <2>1, <2>2, <3>1, <3>3, UnderWay
  <2>4. CASE Fails(IF change.from = "save" THEN "failed" ELSE AfterRestore)
    <3>1. PICK step \in {"unpublish", "failed"} :
            /\ change' = [change EXCEPT !.at = step, !.faults = @ + 1]
            /\ step = "unpublish" => change.kind = "import"
      BY <2>1, <2>4 DEF Fails
    <3>2. /\ library' \subseteq imported /\ quarantine' \subseteq imported
          /\ library' \intersect quarantine' = {}
      BY <2>2, UnderWay
    <3>3. 1 \in {0, 1} /\ 1 # 0
      OBVIOUS
    <3> QED BY <1>3, <3>1, <3>2, <3>3
  <2> QED BY <1>4, <2>3, <2>4
<1>5. CASE Unpublish
  <2>1. /\ change.at = "unpublish" /\ change.kind = "import"
        /\ change.faults = 1 => AllIsThere
    BY <1>0, <1>1, <1>5, UnderWay DEF Unpublish, StepIsSound
  <2>2. CASE library' = library \ {change.pack} /\ quarantine' = quarantine \union {change.pack}
             /\ Goes("failed")
    <3>1. change' = [change EXCEPT !.at = "failed"]
      BY <2>2 DEF Goes
    <3>2. /\ library' \subseteq imported /\ quarantine' \subseteq imported
          /\ library' \intersect quarantine' = {}
          /\ change.faults = 1 =>
               change.before.library \subseteq library' /\ change.before.chosen = chosen
      BY <1>1, <2>1, <2>2, UnderWay DEF AllIsThere
    <3> QED BY <1>3, <3>1, <3>2
  <2>3. CASE Fails("failed") /\ UNCHANGED disk
    BY <1>3, <2>3, UnderWay DEF Fails, disk
  <2> QED BY <1>5, <2>2, <2>3 DEF Unpublish
<1> QED BY <1>2, <1>4, <1>5 DEF RestorePack

\* The write of the state file: it succeeds, it is reported as failed although it was
\* written or not, or what was written cannot be read either.
LEMMA SaveStateKeeps ==
  ASSUME LibraryInv, SaveState
  PROVE  LibraryInv'
<1>0. ~Resting /\ change.at = "save" /\ UNCHANGED <<library, quarantine, previews, imported>>
  BY DEF SaveState, Resting, disk, counts
<1>1. /\ change \in Changes /\ Changing /\ change.faults = 0 /\ NothingIsLost /\ WorkIsSound
      /\ change.pack \in imported /\ change.todo \subseteq imported /\ Replaced \subseteq imported
  BY <1>0, UnderWay DEF StepIsSound
<1>2. Saved => chosen' \in Selections /\ mapped' \subseteq Packs
  BY <1>1, UnderWay DEF Saved, Selections
<1>3. ASSUME NEW step \in {"discard", "restore"}, NEW k \in {0, 1, 2},
             /\ change' \in Changes /\ change'.at = step /\ change'.kind = change.kind
             /\ change'.pack = change.pack /\ change'.todo = change.todo
             /\ change'.archived = change.archived
             /\ change'.before = change.before /\ change'.faults = k,
             Saved \/ (UNCHANGED stateFile /\ step = "restore"),
             step = "restore" => k # 0 /\ (k = 1 => UNCHANGED stateFile)
      PROVE  LibraryInv'
  <2>1. chosen' \in Selections /\ mapped' \subseteq Packs
    BY <1>2, <1>3, UnderWay DEF stateFile
  <2>2. Replaced' = Replaced /\ Taken' = Taken
    BY <1>3 DEF Replaced, Taken
  <2>3. UNCHANGED chosen => NothingIsLost'
    BY <1>0, <1>1, <1>3, <2>2 DEF NothingIsLost
  <2>4. WorkIsSound'
    BY <1>0, <1>1, <1>3, <2>2 DEF WorkIsSound
  <2>5. Saved => SelectionIsSound'
    BY <1>0, <1>1, <1>3, <2>2 DEF Saved, SelectionIsSound, NothingIsLost, WorkIsSound, Taken
  <2>6. StepIsSound'
    BY <1>0, <1>1, <1>3, <2>2, <2>3, <2>4, <2>5 DEF StepIsSound, WorkIsSound, stateFile
  <2>7. ChangeIsSound'
    BY <1>0, <1>1, <1>3, <2>2, <2>6 DEF ChangeIsSound, Changing
  <2> QED BY <1>0, <1>3, <2>1, <2>7, UnderWay, SamePreviews, TypesKept
<1>4. CASE Saved /\ Goes("discard")
  <2>1. change' = [change EXCEPT !.at = "discard"]
    BY <1>4 DEF Goes
  <2> QED BY <1>1, <1>3, <1>4, <2>1 DEF Changes
<1>5. ASSUME NEW k \in {1, 2}, change' = [change EXCEPT !.at = "discard", !.faults = @ + k], Saved
      PROVE  LibraryInv'
  <2>1. change.faults + k = k /\ k \in Nat
    BY <1>1, <1>5
  <2> QED BY <1>1, <1>3, <1>5, <2>1, GoesOn
<1>6. ASSUME NEW k \in {1, 2},
             change' = [change EXCEPT !.at = "restore", !.from = "save", !.faults = @ + k],
             (k = 1 /\ UNCHANGED stateFile) \/ (k = 2 /\ Saved)
      PROVE  LibraryInv'
  <2>1. PICK m \in Nat : /\ m = k
                        /\ change' = [change EXCEPT !.at = "restore", !.from = "save", !.faults = m]
    <3>1. change.faults + k = k /\ k \in Nat
      BY <1>1, <1>6
    <3>2. PICK m \in Nat : /\ m = change.faults + k
                          /\ change' = [change EXCEPT !.at = "restore", !.from = "save", !.faults = m]
      BY <1>6, <3>1
    <3> QED BY <3>1, <3>2
  <2>2. /\ change' \in Changes /\ change'.at = "restore" /\ change'.kind = change.kind
        /\ change'.pack = change.pack /\ change'.todo = change.todo
        /\ change'.archived = change.archived
        /\ change'.before = change.before /\ change'.faults = k
    BY <1>1, <2>1 DEF Changes
  <2> QED BY <1>3, <1>6, <2>2
<1> QED BY <1>4, <1>5, <1>6 DEF SaveState

\* What is discarded after success was replaced or deleted.
LEMMA DiscardKeeps ==
  ASSUME LibraryInv, Discard
  PROVE  LibraryInv'
<1>0. /\ ~Resting /\ change.at = "discard" /\ UNCHANGED <<library, chosen, mapped, imported>>
      /\ quarantine' \subseteq quarantine
  BY DEF Discard, Resting, counts, stateFile
<1>1. /\ change \in Changes /\ Changing /\ WorkIsSound /\ SelectionIsSound /\ change.faults \in Nat
      /\ change.pack \in imported /\ change.todo \subseteq imported /\ Replaced \subseteq imported
  BY <1>0, UnderWay DEF StepIsSound
<1>2. PICK k \in {0, 1} : change' = [change EXCEPT !.at = "snapshot", !.faults = @ + k]
                            \/ (k = 0 /\ change' = [change EXCEPT !.at = "snapshot"])
  BY DEF Discard, Goes, Fails
<1>3. /\ change' \in Changes /\ change'.at = "snapshot" /\ change'.kind = change.kind
      /\ change'.pack = change.pack /\ change'.todo = change.todo
      /\ change'.before = change.before
      /\ Replaced' = Replaced /\ Taken' = Taken
  <2>1. k \in Nat
    BY <1>2
  <2> QED BY <1>1, <1>2, <2>1, GoesOn
<1>4. WorkIsSound' /\ SelectionIsSound'
  BY <1>0, <1>1, <1>3 DEF WorkIsSound, SelectionIsSound
<1>5. ChangeIsSound'
  BY <1>0, <1>1, <1>3, <1>4 DEF ChangeIsSound, StepIsSound
<1>6. /\ previews' \in [Packs -> {"none", "picked", "attested"}]
      /\ \A p \in Packs : previews'[p] \in {previews[p], "none"}
  BY DEF Discard, LibraryInv, LibraryTypeOK
<1> QED BY <1>0, <1>3, <1>5, <1>6, UnderWay, TypesKept

\* A snapshot, an error and a restart end the operation; the last two lose no installed
\* pack, and the first only those it cannot read.
LEMMA EndsKeep ==
  ASSUME LibraryInv, Snapshot \/ Fail \/ Restart
  PROVE  LibraryInv'
<1>1. CASE Snapshot
  <2>1. change'.at = "rest" /\ UNCHANGED <<mapped, imported, previews>>
    BY <1>1 DEF Snapshot, NoChange, counts
  <2>2. library' \subseteq library /\ UNCHANGED quarantine /\ chosen' \in {chosen, Builtin}
    BY <1>1, LoadsShrinks DEF Snapshot, disk
  <2>3. chosen' \in Selections
    BY <2>2, UnderWay DEF Selections
  <2> QED BY <2>1, <2>2, <2>3, UnderWay, SamePreviews, ChangeEnds
<1>2. CASE Fail
  <2>1. change'.at = "rest" /\ UNCHANGED <<library, quarantine, chosen, mapped, imported, previews>>
    BY <1>2 DEF Fail, NoChange, disk, stateFile, counts
  <2> QED BY <2>1, UnderWay, SamePreviews, ChangeEnds
<1>3. CASE Restart
  <2>1. /\ change'.at = "rest" /\ UNCHANGED <<library, chosen, mapped, imported>>
        /\ quarantine' = {} /\ previews' = [p \in Packs |-> "none"]
    BY <1>3 DEF Restart, NoChange, stateFile
  <2> QED BY <2>1, UnderWay, ChangeEnds
<1> QED BY <1>1, <1>2, <1>3

\* A fresh library has no custom pack, and nothing is under way.
LEMMA LibraryBegins == LibraryInit => LibraryInv
<1> SUFFICES ASSUME LibraryInit PROVE LibraryInv
  OBVIOUS
<1>1. Resting /\ ~Changing
  BY DEF LibraryInit, NoChange, Resting, Changing
<1>2. LibraryTypeOK /\ OneDirectory
  BY <1>1 DEF LibraryInit, LibraryTypeOK, OneDirectory, Selections
<1> QED BY <1>1, <1>2 DEF LibraryInv, ChangeIsSound

\* Every step keeps the invariant of the library.
LEMMA LibraryKept ==
  ASSUME LibraryInv, [LibraryNext]_libraryVars
  PROVE  LibraryInv'
<1>1. CASE LibraryNext
  BY <1>1, PreviewsKeep, SelectionsKeep, BeginsKeeps, PublishKeeps, ArchiveStepKeeps,
     RestoreStepKeeps, EndsKeep, SaveStateKeeps, DiscardKeeps
     DEF LibraryNext, Selections
<1>2. CASE UNCHANGED libraryVars
  <2>1. UNCHANGED <<library, quarantine, chosen, mapped, previews, change, imported>>
    BY <1>2 DEF libraryVars, disk, stateFile, counts
  <2>2. ChangeIsSound'
    BY <2>1
       DEF LibraryInv, ChangeIsSound, Changing, Resting, StepIsSound, AllIsThere, NothingIsLost,
           WorkIsSound, SelectionIsSound, Taken, Replaced
  <2>3. Resting' \/ change' \in Changes
    BY <2>1 DEF LibraryInv, LibraryTypeOK, Resting
  <2> QED BY <2>1, <2>2, <2>3, UnderWay, SamePreviews, TypesKept
<1> QED BY <1>1, <1>2

\* The snapshot behind a change that was made shows it, unless a second call fails.
LEMMA SnapshotShowsChange ==
  ASSUME LibraryInv, Snapshot, Changing, change'.faults <= 1
  PROVE  ChangeIsMade
<1>1. /\ WorkIsSound /\ SelectionIsSound /\ change.at = "snapshot" /\ change.todo = {}
      /\ change.faults \in Nat /\ change.kind \in {"import", "delete"}
  BY UnderWay DEF Snapshot, Changing, StepIsSound, WorkIsSound
<1>2. /\ Taken \intersect library = {} /\ change.before.library \ Taken \subseteq library
      /\ change.kind = "import" =>
           change.pack \in library /\ chosen = change.pack /\ Taken = change.before.library
      /\ change.kind = "delete" =>
           /\ Taken = {change.pack}
           /\ change.before.chosen \in change.before.library => chosen \in library \union {Builtin}
  BY <1>1 DEF WorkIsSound, SelectionIsSound, Taken
<1>3. CASE UNCHANGED <<disk, chosen>>
  BY <1>1, <1>2, <1>3 DEF ChangeIsMade, disk
<1>4. ASSUME NEW found, NEW k \in 0..2, Loads(found, k),
             chosen' = (IF chosen \in found THEN chosen ELSE Builtin),
             change'.faults = change.faults + k
      PROVE  ChangeIsMade
  <2>1. k \in {0, 1}
    BY <1>1, <1>4
  <2>2. found \subseteq library' /\ library \subseteq library' \union broken' /\ library' \subseteq library
    BY <1>4, LoadsShrinks
  <2>3. change.pack \in library => change.pack \in found \/ change.pack \in broken'
    BY <1>4, <2>1, LoadsShrinks
  <2> QED BY <1>1, <1>2, <1>4, <2>2, <2>3 DEF ChangeIsMade
<1>5. ASSUME NEW found, NEW k \in 0..2, Loads(found, k), chosen \notin found \union {Builtin},
             chosen' \in {chosen, Builtin}, change'.faults = change.faults + k + 1
      PROVE  ChangeIsMade
  <2>1. k = 0
    BY <1>1, <1>5
  <2>2. found = library /\ library' = library
    BY <1>5, <2>1, LoadsShrinks
  <2> QED BY <1>1, <1>2, <1>5, <2>2 DEF ChangeIsMade
<1> QED BY <1>3, <1>4, <1>5 DEF Snapshot, NoChange

\* A change of the library that is answered, and in which no more than one call has failed
\* since it read the library, was made as a whole or has kept all that was there.
THEOREM FailureKeepsPacksHolds == LibrarySpec => FailureKeepsPacks
<1>1. ASSUME LibraryInv, LibraryNext, Changing, change'.at = "rest", change'.faults <= 1
      PROVE  /\ change'.answer = "error" => Kept \/ ChangeIsMade
             /\ change'.answer = "done" => ChangeIsMade
  <2>0. ~Resting /\ change \in Changes
    BY <1>1, UnderWay DEF Changing
  <2>1. CASE Fail
    <3>1. /\ change.at = "failed" /\ change'.faults = change.faults /\ change'.answer = "error"
          /\ UNCHANGED <<library, chosen>>
      BY <1>1, <2>1 DEF Fail, NoChange, disk, stateFile
    <3>2. AllIsThere
      BY <1>1, <3>1, UnderWay DEF StepIsSound
    <3> QED BY <3>1, <3>2 DEF AllIsThere, Kept
  <2>2. CASE Snapshot
    BY <1>1, <2>2, SnapshotShowsChange
  <2>3. CASE Restart
    BY <2>3 DEF Restart, NoChange
  <2>4. CASE Publish \/ ArchivePack \/ RestorePack \/ Unpublish \/ SaveState \/ Discard
    <3>1. change'.at # "rest"
      BY <2>0, <2>4
         DEF Publish, ArchivePack, RestorePack, Unpublish, SaveState, Discard, Goes, Fails,
             AfterRestore, Changes
    <3> QED BY <1>1, <3>1
  <2> QED
    BY <1>1, <2>0, <2>1, <2>2, <2>3, <2>4
       DEF LibraryNext, PickImport, AttestPreview, CancelImport, Expire, SelectPack, SaveMapping,
           ConfirmImport, DeletePack, GetLibrary, Refuse
<1>2. LibraryInv /\ [LibraryNext]_libraryVars =>
        [Changing /\ change'.at = "rest" /\ change'.faults <= 1 =>
           /\ change'.answer = "error" => Kept \/ ChangeIsMade
           /\ change'.answer = "done" => ChangeIsMade]_libraryVars
  BY <1>1
<1> QED BY <1>2, LibraryBegins, LibraryKept, PTL DEF LibrarySpec, FailureKeepsPacks

\* At every moment of an import, of one failure at most, the library has the new pack or
\* all that was found, which is what a process that ends there finds again.
THEOREM ImportNeverEmptiesHolds == LibrarySpec => []ImportNeverEmpties
<1>1. LibraryInv => ImportNeverEmpties
  <2> SUFFICES ASSUME LibraryInv, Changing, change.kind = "import", change.faults <= 1
               PROVE  change.pack \in library \/ change.before.library \subseteq library
    BY DEF ImportNeverEmpties
  <2>1. StepIsSound /\ change \in Changes /\ ~Resting
    BY UnderWay DEF Changing
  <2> QED BY <2>1 DEF StepIsSound, AllIsThere, WorkIsSound, Changes, Resting
<1> QED BY <1>1, LibraryBegins, LibraryKept, PTL DEF LibrarySpec
===============================================================================
