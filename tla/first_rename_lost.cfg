SPECIFICATION SyncSpec
CONSTANTS
  Keys = {k1}
  Fields = {name}
  Values = {v1, v2}
  None = None
  MaxDrains = 2
  MaxSnapshots = 5
  MaxFlushes = 0
  MaxFailures = 0
  MaxSupersedes = 3
  MaxDeletes = 0
  MaxCrashes = 0
  FlushAllMaxRounds = 1
  MayFlushAll = FALSE
  Mirrored = {name}
  Guarded = {}
  Notified = {name}
  Warm = FALSE
  MaxForeignEdits = 0
  MaxEdits = 1
  MaxTurns = 0
INVARIANT LocalEditSurvives
CHECK_DEADLOCK FALSE
