SPECIFICATION WindowFairSpec
CONSTANTS
  Parts = {"quit", "speech", "context"}
  None = None
  Requests = {r1, r2}
  Closers = {c1, c2}
  TaskSlots = {s1, s2}
  MaxAttempt = 2
  Remarks = {u, m}
  UrgentRemarks = {u}
  MinorRemarks = {m}
  Explanations = {x}
  ViewScopes = {a, b}
  ViewLocales = {en}
  MaxPart = 1
  MaxShow = 2
  MaxDisturbance = 1
  Projects = {p}
  Packs = {k}
  NoContext = None
  MaxEdit = 2
  MaxRefusal = 1
  MaxVisit = 3
INVARIANTS
  QuitIsSound
  DraftsAreSafe
PROPERTIES
  SpeechFollowsCaptions
  ShutdownSettles
CHECK_DEADLOCK FALSE
