SPECIFICATION FairSpec
CONSTANTS
  NUM_REC = 2
  MaxProve = 2
  MaxVerify = 2
  Faults <- MCFaults
INVARIANTS
  SeedsAgreeExactly
PROPERTIES
  AcceptsOnlyGenuine
  GenuineIsAccepted
  OracleGrowsByRounds
  AlterationRefusedInRound
  CallsReturn
  ImplementsProofSystem
CHECK_DEADLOCK FALSE
