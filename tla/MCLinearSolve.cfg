SPECIFICATION Spec
CONSTANTS
  NaN = NaN
  MaxNorm = 3
  Rounding = 1
  MaxIterations = 3
  GmresRestart = 2
  Rows <- MCRows
  Matrices <- MCMatrices
  Vectors <- MCVectors
  Configurations <- MCConfigurations
INVARIANTS
  IterationsAreAccounted
  RecoveredUnlessOverflowed
  CgOnlyIfDefinite
