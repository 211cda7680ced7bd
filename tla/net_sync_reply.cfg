SPECIFICATION FairSpec
CHECK_DEADLOCK FALSE
CONSTANTS
  QSize = 2
  IdxMod = 4
  v1 = v1
  v2 = v2
  p1 = p1
  Vcpus <- OneVcpu
  Peers <- OnePeer
  MaxTx = 1
  MaxRx = 1
  MaxReset = 0
  Answered <- FirstFrame
  Teardown = FALSE
PROPERTIES
  RepliesReachGuest
