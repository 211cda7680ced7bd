SPECIFICATION FairSpec
CHECK_DEADLOCK FALSE
CONSTANTS
  w1 = w1
  w2 = w2
  Talkers <- ClientTalks
  Senders <- TwoSenders
  MaxMsg = 3
  Empty <- Second
  Big <- Third
  MaxStop = 1
INVARIANTS
  TypeOK
  FramesIntact
PROPERTIES
  MessagesArrive
  CleanStopReturns
