SPECIFICATION JLSpec
CONSTANTS
  Bytes = 4
  Word = 8
INVARIANTS
  FirstThatPasses
PROPERTIES
  EndsExactlyIfOnePasses
CHECK_DEADLOCK FALSE
