SPECIFICATION Spec
CONSTANTS
  Keys = {k1, k2}
  Fields = {f1}
  Values = {v1}
  None = None
  MaxDrains = 2
  MaxSnapshots = 2
  MaxFlushes = 0
  MaxFailures = 2
  MaxSupersedes = 0
  MaxDeletes = 1
  MaxCrashes = 0
  FlushAllMaxRounds = 4
  MayFlushAll = TRUE
INVARIANTS
  DeletedStaysDeleted
CHECK_DEADLOCK FALSE
