SPECIFICATION Spec
CONSTANTS
  MaxGeneration = 2
  MaxAsks = 1
  MaxFaults = 1
INVARIANT ConvergedMeansStopped
CHECK_DEADLOCK FALSE
