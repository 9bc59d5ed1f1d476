SPECIFICATION FairSpec
CONSTANTS
  Events = {e1, e2}
  None = None
  RateCap = 1
  BusLimit = 2
  MaxAccepts = 2
  MaxProcesses = 2
  MaxFailures = 1
  MaxFaults = 1
  MaxCrashes = 1
INVARIANTS
  IngestTypeOK
  AcceptedIsKept
  DuplicateWasStored
  AcceptedOncePerTTL
  ExecutesOnce
PROPERTIES
  EventuallySettled
CHECK_DEADLOCK FALSE
