SPECIFICATION FairSpec
CONSTANTS
  MaxGeneration = 3
  MaxAsks = 2
  MaxFaults = 2
CONSTRAINT AskOrFault
INVARIANTS
  ConnectionIsKept
  OneReplacement
PROPERTIES
  ShutdownIsFinal
  Reconnects
CHECK_DEADLOCK FALSE
