SPECIFICATION Spec
CONSTANTS
  Digits = {0, 2, 5, 6}
  MaxLen = 7
  ShortSize = 65536
CHECK_DEADLOCK FALSE
INVARIANT InvalidThrows
