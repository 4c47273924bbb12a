SPECIFICATION Spec
CONSTANTS
  NofWorkers = 1
  NofSlots = 3
  NofChunks = 2
  Operations = {"cpu_2vectors_op"}
INVARIANTS
  NoTaskLeftBehind
CHECK_DEADLOCK FALSE
