SPECIFICATION Spec
CONSTANTS
  Events = {e1}
  None = None
  RateCap = 2
  BusLimit = 3
  MaxAccepts = 2
  MaxProcesses = 1
  MaxFailures = 1
  MaxFaults = 0
  MaxCrashes = 0
INVARIANTS
  LatestAcceptanceIsKept
CHECK_DEADLOCK FALSE
