SPECIFICATION Spec
CONSTANTS
  Digits = {0, 2, 5}
  MaxLen = 8
  ShortSize = 65536
CHECK_DEADLOCK FALSE
INVARIANTS TypeOK RulesKept
