SPECIFICATION FairSpec
CONSTANTS
  None = None
  w1 = w1
  w2 = w2
  t1 = t1
  t2 = t2
  Workspaces = {w1}
  Threads = {t1}
  Home <- HomeOfAll
  Calls = {c1}
  Offered = {"thread", "start", "interrupt"}
  MaxToken = 2
  MaxTurn = 1
  MaxGeneration = 1
  MaxNotes = 1
PROPERTY
  TurnsSettle
CHECK_DEADLOCK FALSE
