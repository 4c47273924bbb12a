SPECIFICATION FoldSpec
CONSTANTS
  Q = 17
  Deg = 2
  Psi = 4
  R = 2
  N = 2
  Kappa = 2
  Kappa1 = 1
  Kappa2 = 1
  Base1 = 5
  Base2 = 6
  Base3 = 7
  A <- MCA
  B <- MCB
  C <- MCC
  D <- MCD
  Word = 64
  ZBounds = {9, 17}
  Mus = {2, 3}
  Nus = {1, 2}
  Inputs <- MCInputs
INVARIANTS
  FoldExact
  ThrowsExactlyWhenTooLarge
  LaidOut
CHECK_DEADLOCK FALSE
