SPECIFICATION FairBridgeSpec
CHECK_DEADLOCK FALSE
CONSTANTS
  PipeCap = 2
  SockCap = 1
  MaxOut = 1
  MaxUp = 0
  MaxClient = 0
  Network = FALSE
PROPERTIES
  ThrowReturns
