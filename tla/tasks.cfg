SPECIFICATION FairSpec
CONSTANTS
  Nodes <- MCNodes
  Deps <- MCDeps
  MaxParallel = 2
  RetryLimit = 1
  MaxRepairs = 1
  MaxReAsks = 1
  MaxNamed = 1
  MaxTroubles = 1
INVARIANTS
  TaskTypeOK
  SlotsMatchRunning
  InputsCurrent
  CompletedMeansAccepted
PROPERTIES
  RunSettles
CHECK_DEADLOCK FALSE
