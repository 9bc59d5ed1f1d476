SPECIFICATION FairSpec
CONSTANTS
  Keys = {k1}
  Fields = {f1}
  Values = {v1}
  None = None
  MaxDrains = 2
  MaxSnapshots = 2
  MaxFlushes = 1
  MaxFailures = 1
  MaxSupersedes = 0
  MaxDeletes = 1
  MaxCrashes = 1
  FlushAllMaxRounds = 4
  MayFlushAll = TRUE
PROPERTIES
  EveryReceiptIsAnswered
  FlushAllEnds
  EverythingSettles
CHECK_DEADLOCK FALSE
