SPECIFICATION FairSpec
CHECK_DEADLOCK FALSE
CONSTANTS
  QSize = 3
  IdxMod = 6
  host = host
  Hosts <- OneHost
  MaxEvents = 8
  MaxStatus = 1
  MaxReset = 1
INVARIANTS
  KeepsNewest
  UsedIsSignalled
PROPERTIES
  EventsDelivered
