SPECIFICATION Spec
CONSTANTS
  None = None
  w1 = w1
  w2 = w2
  t1 = t1
  t2 = t2
  Workspaces = {w1, w2}
  Threads = {t1}
  Home <- HomeOfAll
  Calls = {c1, c2}
  Offered = {"thread", "start", "cancel", "unregister"}
  MaxToken = 1
  MaxTurn = 1
  MaxGeneration = 1
  MaxNotes = 1
SYMMETRY Symmetry
INVARIANTS
  GateExcludesTurn
  PendingInSession
