SPECIFICATION Spec
CONSTANTS
  QSize = 2
  IdxMod = 4
  v1 = v1
  v2 = v2
  Vcpus <- TwoVcpus
  Requests <- Mixed
  Values <- Bits
  Short <- ShortBlocks
INVARIANTS
  TypeOK
  UsedIsSignalled
PROPERTIES
  ImplementsService
SYMMETRY VcpuSymmetry
