SPECIFICATION FairSpec
CONSTANTS
  MaxSends = 3
  MaxMessages = 4
  MaxMishaps = 1
  MaxRestarts = 1
INVARIANTS
  TurnsTypeOK
  NothingForgotten
  HandedOverOnce
  CleanShutdown
PROPERTIES
  QueueIsServed
CHECK_DEADLOCK FALSE
