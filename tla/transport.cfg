SPECIFICATION FairSpec
CONSTANTS
  Workspaces = {home, other}
  Home = home
  None = None
  Sockets <- SocketSlots
  BufferMax = 1
  MaxClients = 2
  MaxEvents = 3
  MaxBreaks = 2
  MaxSwitches = 1
INVARIANTS
  TransportTypeOK
  QuietMeansCurrent
CHECK_DEADLOCK FALSE
PROPERTIES
  FeedSpec
  GapOnlyAfterStale
  EventReachedOrOwed
