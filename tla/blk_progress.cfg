SPECIFICATION FairSpec
CONSTANTS
  QSize = 2
  IdxMod = 4
  v1 = v1
  v2 = v2
  Vcpus <- TwoVcpus
  Requests <- Single
  Values <- Bits
  Short <- ShortBlocks
PROPERTIES
  RequestsComplete
