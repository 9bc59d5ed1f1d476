SPECIFICATION Spec
CONSTANTS
  Keys = {k1, k2}
  Fields = {f1}
  Values = {v1}
  None = None
  MaxDrains = 2
  MaxSnapshots = 3
  MaxFlushes = 0
  MaxFailures = 2
  MaxSupersedes = 1
  MaxDeletes = 0
  MaxCrashes = 0
  FlushAllMaxRounds = 3
  MayFlushAll = TRUE
INVARIANTS
  NewestDataOnDisk
PROPERTIES
  FlushSavedEverything
CHECK_DEADLOCK FALSE
SYMMETRY KeySymmetry
