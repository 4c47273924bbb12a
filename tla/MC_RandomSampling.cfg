SPECIFICATION Spec
CONSTANTS
  D = 4
  NofTasks = 3
  ElementsPerHash = 2
  MaxRetry = 2
  Cells = 12
  Calls <- MCCalls
INVARIANTS
  SamplesAlike
  ChallengesUniform
CHECK_DEADLOCK FALSE
