SPECIFICATION LiveSpec
CONSTANTS
  SeqSpace = 16
  RxBufferSize = 1
  Mss = 1
  MaxRetx = 1
  ReadSize = 1
  Sends <- SendsTwo
  Iss <- NearWrap
  CloseAfterEof <- NobodyCloses
  MaxOpens = 1
  MaxNet = 3
  MaxFaults = 1
  MaxFail = 0
PROPERTIES
  SendResolves
  CloseResolves
CHECK_DEADLOCK FALSE
