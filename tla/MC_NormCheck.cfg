SPECIFICATION Spec
CONSTANTS
  Q = 31
  Workers = 3
  Calls <- MCCalls
  MaxRelative = 5
  Spurious = TRUE
INVARIANTS
  L2IsTheNorm
  RelativeIsExact
  SmallIsNeverRefused
CHECK_DEADLOCK FALSE
