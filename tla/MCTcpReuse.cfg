SPECIFICATION Spec
CONSTANTS
  SeqSpace = 16
  RxBufferSize = 1
  Mss = 1
  MaxRetx = 0
  ReadSize = 1
  Sends <- SendsOne
  Iss <- NearWrap
  CloseAfterEof <- ServerWaits
  MaxOpens = 2
  MaxNet = 3
  MaxFaults = 1
  MaxFail = 0
INVARIANT NoLostWakeup
INVARIANT EofIsTheEnd
INVARIANT CloseLeavesReusable
PROPERTY OrderlyFinConsumed
CHECK_DEADLOCK FALSE
