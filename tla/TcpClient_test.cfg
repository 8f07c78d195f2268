SPECIFICATION ClientSpec
CONSTANTS
  Writes = {w1, w2}
  Silent = {w2}
  MaxLen = 1
  BufferSize = 1
  MaxRecv = 2
  CbCalls = {"Close"}
  Slips = {"close after end"}
CHECK_DEADLOCK FALSE
INVARIANT CloseAnyTime
