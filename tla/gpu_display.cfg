SPECIFICATION Spec
CHECK_DEADLOCK FALSE
CONSTANTS
  QSize = 2
  IdxMod = 4
  v1 = v1
  v2 = v2
  Vcpus <- TwoVcpus
  Ids <- OneId
  MaxDraw = 1
  MaxFlush = 2
  MaxCmd = 6
  MaxReset = 1
INVARIANTS
  FramesAccounted
  FramesFresh
  NeverRefused
  UsedIsSignalled
SYMMETRY
  Symmetry
