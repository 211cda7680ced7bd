SPECIFICATION BridgeSpec
CHECK_DEADLOCK FALSE
CONSTANTS
  PipeCap = 2
  SockCap = 1
  MaxOut = 1
  MaxUp = 1
  MaxClient = 1
  Network = FALSE
INVARIANTS
  PumpReadsVm
