SPECIFICATION PartsSpec
CONSTANTS
  Parts = {"transport", "presence", "explanation", "run", "narration", "history", "library", "session", "preferences", "files", "commits"}
  Keys = {k1}
  Malformed = {}
  MaxRequest = 1
  MaxGeneration = 2
  MaxFrames = 1
  PendingLimit = 1
  QueueLimit = 1
  SignalLimit = 1
  Window = 1
  Scopes = {a, b}
  Items = {i1, i2}
  MaxTurn = 1
  MaxEra = 2
  MaxCandidate = 2
  MessageLimit = 2
  Workspaces = {w}
  Locales = {en}
  Commits = {c1, c2}
  MaxGen = 2
  MaxVersion = 1
  MaxAsked = 2
  TaskLimit = 1
  CacheLimit = 1
  MaxRun = 2
  Requests = {n, h}
  HighRequests = {h}
  LowRequests = {n}
  MaxScope = 1
  MaxPiece = 2
  MaxSpeak = 3
  MaxEpoch = 1
  QueueDepth = 2
  Projects = {p}
  Worktrees = {w1, w2}
  CreateRequests = {r1, r2}
  Turns = {t}
  LineLimit = 2
  MaxCommand = 3
  MaxCrash = 1
  Packs = {p1, p2}
  MaxFault = 2
  MaxRestart = 1
  Views = {a, b}
  MaxUiTurn = 1
  MaxActivation = 2
  MaxServer = 2
  MaxCard = 1
  PrefLocales = {en, ja}
  DefaultLocale = en
  MaxEdit = 2
  MaxTrouble = 2
  MaxReopen = 1
  MaxSave = 3
  MaxSlip = 3
  MaxPowerLoss = 2
  MaxUnit = 2
  MaxMade = 2
  MaxItem = 1
  MaxMoved = 1
  MaxGitFailure = 1
  MaxCut = 1
INVARIANTS
  EntriesAreLive
  ExplanationsAreSound
  RunsAreStopped
  NarrationIsSound
  HistoryIsSound
  SessionIsSound
  PreferencesAreKept
  FilesAreSafe
  CommitsAreAttributed
  ImportNeverEmpties
PROPERTIES
  ImplementsAsks
  RemarksAreSound
  FailureKeepsPacks
CHECK_DEADLOCK FALSE
