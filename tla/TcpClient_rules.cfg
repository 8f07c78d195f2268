SPECIFICATION ClientFairSpec
CONSTANTS
  Writes = {w1, w2}
  Silent = {w2}
  MaxLen = 1
  BufferSize = 1
  MaxRecv = 2
  CbCalls = {"Close"}
  Slips = {}
CHECK_DEADLOCK FALSE
INVARIANTS NoFault EndAfterAnswer
PROPERTIES QuietAfterClose ClientHandleFreed
