SPECIFICATION DecompSpec
CONSTANTS
  Q <- MCQ
  TaskSize = 2
  Bases = {1, 2, 3, 4, 5, 6, 7, 8}
  Inputs <- MCVectors
  MaxDigits = 5
INVARIANTS
  DigitsAndRemainder
  HonestDigitsPassNormCheck
  RoundTripExactly
CHECK_DEADLOCK FALSE
