SPECIFICATION FairSpec
CONSTANTS
  SeqSpace = 16
  RxBufferSize = 2
  Mss = 1
  MaxRetx = 0
  ReadSize = 2
  Sends <- SendsOne
  Iss <- NearWrap
  CloseAfterEof <- ServerWaits
  MaxOpens = 1
  MaxNet = 3
  MaxFaults = 1
  MaxFail = 0
PROPERTIES
  CloseReturns
CHECK_DEADLOCK FALSE
