SPECIFICATION Spec
CONSTANTS
  None = None
  w1 = w1
  w2 = w2
  t1 = t1
  t2 = t2
  Workspaces = {w1}
  Threads = {t1}
  Home <- HomeOfAll
  Calls = {c1, c2}
  Offered = {"thread", "start", "answer", "interrupt"}
  MaxToken = 2
  MaxTurn = 2
  MaxGeneration = 2
  MaxNotes = 1
SYMMETRY Symmetry
CONSTRAINT Apart
INVARIANTS
  OneTurn
  DecisionsAreSound
  NothingIsOrphaned
CHECK_DEADLOCK FALSE
