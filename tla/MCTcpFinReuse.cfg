SPECIFICATION Spec
CONSTANTS
  SeqSpace = 16
  RxBufferSize = 1
  Mss = 1
  MaxRetx = 1
  ReadSize = 1
  Sends <- SendsOne
  Iss <- NearWrap
  CloseAfterEof <- ServerWaits
  MaxOpens = 1
  MaxNet = 3
  MaxFaults = 1
  MaxFail = 1
PROPERTY FinAckedMeansConsumed
CHECK_DEADLOCK FALSE
