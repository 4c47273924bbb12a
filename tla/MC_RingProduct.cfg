SPECIFICATION Spec
CONSTANTS
  Q = 257
  Deg = 64
  Psi = 9
  Roots <- MCRoots
  Left <- MCLeft
  Right <- MCRight
  Subs <- MCSubs
  Thresholds = {6, 7}
  NofChunks = 2
INVARIANTS
  ProductIsNegacyclic
  ConjugateGivesProjection
CHECK_DEADLOCK FALSE
