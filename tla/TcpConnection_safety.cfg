SPECIFICATION FairSpec
CONSTANTS
  Writes = {w1, w2}
  Silent = {}
  MaxLen = 2
  BufferSize = 2
  MaxRecv = 3
  CbCalls = {"Close"}
CHECK_DEADLOCK FALSE
INVARIANTS TypeOK NoFault DispatchSafe NotifiedOnce CallbackDiscipline NothingLost
PROPERTIES SilentAfterClose ChannelSpec AllFreed
