SPECIFICATION FairBridgeSpec
CHECK_DEADLOCK FALSE
CONSTANTS
  PipeCap = 2
  SockCap = 1
  MaxOut = 3
  MaxUp = 1
  MaxClient = 1
  Network = TRUE
INVARIANTS
  OutputInOrder
  DescriptorsOwned
PROPERTIES
  OutputArrives
  DestroyReturnsConnected
