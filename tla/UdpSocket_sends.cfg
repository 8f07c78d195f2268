SPECIFICATION Spec
CONSTANTS
  Sends = {w1, w2, w3}
  Silent = {w3}
  MaxLen = 2
  MaxRecv = 1
CHECK_DEADLOCK FALSE
INVARIANTS TypeOK NoFault SendsRight
PROPERTIES SilentAfterClose AllFreed
