SPECIFICATION Spec
CONSTANTS
  SeqSpace = 16
  RxBufferSize = 2
  Mss = 1
  MaxRetx = 1
  ReadSize = 1
  Sends <- SendsThree
  Iss <- NearWrap
  CloseAfterEof <- NobodyCloses
  MaxOpens = 1
  MaxNet = 4
  MaxFaults = 2
  MaxFail = 1
INVARIANTS
  TypeOK
  StreamInOrder
  SendTrueMeansReceived
CHECK_DEADLOCK FALSE
