SPECIFICATION PartsFairSpec
CONSTANTS
  Parts = {"transport", "presence", "explanation", "run", "narration", "history", "preferences"}
  Keys = {k1}
  Malformed = {k1}
  MaxRequest = 1
  MaxGeneration = 1
  MaxFrames = 1
  PendingLimit = 1
  QueueLimit = 1
  SignalLimit = 1
  Window = 1
  Scopes = {a, b}
  Items = {i1}
  MaxTurn = 1
  MaxEra = 1
  MaxCandidate = 2
  MessageLimit = 2
  Workspaces = {w}
  Locales = {en}
  Commits = {c1, c2}
  MaxGen = 2
  MaxVersion = 1
  MaxAsked = 2
  TaskLimit = 1
  CacheLimit = 1
  MaxRun = 1
  Requests = {n, h}
  HighRequests = {h}
  LowRequests = {n}
  MaxScope = 0
  MaxPiece = 1
  MaxSpeak = 2
  MaxEpoch = 1
  QueueDepth = 1
  Projects = {p}
  Worktrees = {w1, w2}
  CreateRequests = {r1, r2}
  Turns = {t}
  LineLimit = 2
  MaxCommand = 2
  MaxCrash = 1
  Packs = {p1, p2}
  MaxFault = 2
  MaxRestart = 1
  Views = {a, b}
  MaxUiTurn = 1
  MaxActivation = 2
  MaxServer = 2
  MaxCard = 1
  PrefLocales = {en, ja}
  DefaultLocale = en
  MaxEdit = 2
  MaxTrouble = 2
  MaxReopen = 0
  MaxSave = 3
  MaxSlip = 3
  MaxPowerLoss = 2
  MaxUnit = 1
  MaxMade = 1
  MaxItem = 1
  MaxMoved = 0
  MaxGitFailure = 0
  MaxCut = 0
PROPERTIES
  LoopReturns
  RemarksAreServed
  ExplanationsSettle
  StopReturns
  QueueIsServed
  ShutdownAnswered
  SavingEnds
CHECK_DEADLOCK FALSE
