SPECIFICATION FairSpec
CONSTANTS
  s1 = s1
  s2 = s2
  s3 = s3
  Slots = {s1, s2, s3}
  NoTask = NoTask
  K = 2
  LeafCounts = {1, 2, 3, 4, 5, 6, 7, 8, 9, 11, 12}
  Trees <- MCTrees
INVARIANTS
  RootRight
  MisbuiltIsWrong
  TasksInside
  ProofsVerifyExactly
PROPERTIES
  InputsStay
  BuildReturns
CHECK_DEADLOCK FALSE
