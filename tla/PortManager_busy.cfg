SPECIFICATION Spec
CONSTANTS
  RangeStart = 3
  RangeEnd = 5
  MaxAttempts = 2
  Handles = {h1, h2}
  BusyPorts = TRUE
CHECK_DEADLOCK FALSE
INVARIANT GivenBound
