SPECIFICATION FairSpec
CONSTANTS
  RangeStart = 3
  RangeEnd = 5
  MaxAttempts = 2
  Handles = {h1, h2, h3}
  BusyPorts = FALSE
CHECK_DEADLOCK FALSE
INVARIANTS TypeOK AttemptsApart
PROPERTY SearchEnds
