SPECIFICATION MCSpec
CHECK_DEADLOCK FALSE
INVARIANTS
  ImageTypeOK
  CopiesInsideRam
  ImagesApart
  TreeTellsTruth
  NodesRouted
