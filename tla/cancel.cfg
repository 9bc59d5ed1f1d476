SPECIFICATION Spec
CONSTANTS
  Keys = {k1}
  Fields = {f1}
  Values = {v1}
  None = None
  MaxDrains = 2
  MaxSnapshots = 3
  MaxFlushes = 0
  MaxFailures = 1
  MaxSupersedes = 1
  MaxDeletes = 1
  MaxCrashes = 0
  FlushAllMaxRounds = 3
  MayFlushAll = TRUE
INVARIANTS
  TypeOK
  OneWriterPerKey
  FreshWritesNotCancelled
  ReceiptsAreHonest
  EveryReceiptHasAWriter
  NoStrandedEntry
  FileIsNeverLost
  DeletedStaysDeleted
  NewestDataOnDisk
  BookkeepingRetires
CHECK_DEADLOCK FALSE
