SPECIFICATION FairSpec
CONSTANTS
  Times = {0, 1, 2}
  Sigs = {s1, s2}
  Writes = {w1, w2}
  MaxLen = 2
  BufferSize = 2
  MaxRecv = 3
  BadFds = FALSE
  Programs = {{"Timer", "SignalsHandler"}, {"UnixStreamSocket"}}
CHECK_DEADLOCK FALSE
INVARIANTS TypeOK NoAbort TimerAsTold PipeToldOnce CleanDestroy
PROPERTIES PipeSpec LoopReturns
