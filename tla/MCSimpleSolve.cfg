SPECIFICATION SimpleSpec
CONSTANTS
  MaxIterations = 3
  Corrections <- MCCorrections
  Terms = {"momentumSource", "buoyancy", "leastSquares"}
INVARIANTS
  SimpleTypeOK
  NoStaleRead
  AuthorityIsTruthful
  PassesPerIteration
PROPERTIES
  ImplementsOuterLoop
