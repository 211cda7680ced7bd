SPECIFICATION FairSpec
CHECK_DEADLOCK FALSE
CONSTANTS
  w1 = w1
  w2 = w2
  Talkers <- ClientTalks
  Senders <- OneSender
  MaxMsg = 1
  Empty <- NoMessages
  Big <- NoMessages
  MaxStop = 1
PROPERTIES
  StopReturns
