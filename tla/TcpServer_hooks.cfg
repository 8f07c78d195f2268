SPECIFICATION FairSpec
CONSTANTS
  Conns = {c1, c2, c3}
  InNew = {"close connection"}
  InClosed = {"connection ends", "close connection", "close server", "delete server"}
CHECK_DEADLOCK FALSE
INVARIANTS TypeOK NoFault SetExact NothingOutlives
PROPERTY HandleFreed
