SPECIFICATION Spec
CONSTANTS
  Writes = {w1, w2}
  Silent = {}
  MaxLen = 2
  BufferSize = 2
  MaxRecv = 2
  CbCalls = {"Close"}
CHECK_DEADLOCK FALSE
INVARIANT SentBytesExact
