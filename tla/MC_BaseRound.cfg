SPECIFICATION Spec
CONSTANTS
  Q = 17
  Deg = 2
  Psi = 4
  R = 3
  N = 2
  Kappa = 1
  Kappa1 = 1
  Kappa2 = 1
  Base1 = 5
  Base2 = 5
  Base3 = 5
  A <- MCA
  B <- MCB
  C <- MCC
  D <- MCD
  PBound = 4
  ZBound = 4
  Shapes <- MCShapes
  Slacks <- MCSlacks
  Witnesses <- MCWitnesses
  Projections <- MCProjections
  FalseProjections <- MCFalse
  Psis <- MCPsis
  Omegas <- MCOmegas
  Alphas <- MCAlphas
  Challenges <- MCChallenges
  Alterations <- MCAlterations
INVARIANTS
  Completeness
  ConstTermCheckExact
  AcceptsOnlyAnnihilatedDefects
  SidesAggregateAlike
  AlteredProofNotAccepted
CHECK_DEADLOCK FALSE
