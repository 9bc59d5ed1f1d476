SPECIFICATION SyncSpec
CONSTANTS
  Keys = {k1}
  Fields = {status, mode}
  Values = {v1, v2}
  None = None
  MaxDrains = 2
  MaxSnapshots = 5
  MaxFlushes = 0
  MaxFailures = 1
  MaxSupersedes = 2
  MaxDeletes = 0
  MaxCrashes = 0
  FlushAllMaxRounds = 1
  MayFlushAll = FALSE
  Mirrored = {status}
  Guarded = {status}
  Notified = {mode}
  Warm = TRUE
  MaxForeignEdits = 1
  MaxEdits = 2
  MaxTurns = 1
INVARIANTS SyncTypeOK ObservationDischarged GuardedEditSurvives
PROPERTIES ObservedEditCarried
CHECK_DEADLOCK FALSE
