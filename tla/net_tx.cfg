SPECIFICATION Spec
CHECK_DEADLOCK FALSE
CONSTANTS
  QSize = 2
  IdxMod = 4
  v1 = v1
  v2 = v2
  p1 = p1
  Vcpus <- TwoVcpus
  Peers <- OnePeer
  MaxTx = 4
  MaxRx = 1
  MaxReset = 1
  Answered <- LastFrame
  Teardown = FALSE
SYMMETRY VcpuSymmetry
INVARIANTS
  InOrder
  ChainsAccounted
