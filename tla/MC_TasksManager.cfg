SPECIFICATION FairSpec
CONSTANTS
  NofWorkers = 2
  NofSlots = 2
  NofChunks = 5
  Operations = {"cpu_2vectors_op", "cpu_vector_sum"}
INVARIANTS
  EveryChunkSomewhere
PROPERTIES
  ExecutesWhatWasSent
  Returns
CHECK_DEADLOCK FALSE
