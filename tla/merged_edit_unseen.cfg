SPECIFICATION SyncSpec
CONSTANTS
  Keys = {k1}
  Fields = {name, status}
  Values = {v1, v2}
  None = None
  MaxDrains = 2
  MaxSnapshots = 5
  MaxFlushes = 0
  MaxFailures = 0
  MaxSupersedes = 3
  MaxDeletes = 0
  MaxCrashes = 0
  FlushAllMaxRounds = 1
  MayFlushAll = FALSE
  Mirrored = {name, status}
  Guarded = {}
  Notified = {name}
  Warm = TRUE
  MaxForeignEdits = 1
  MaxEdits = 1
  MaxTurns = 0
INVARIANT Converged
CHECK_DEADLOCK FALSE
