SPECIFICATION SimpleSpec
CONSTANTS
  MaxIterations = 1
  Corrections <- MCCorrections
  Terms = {"momentumSource", "buoyancy", "leastSquares"}
INVARIANTS
  ConfigurationIsReproduced
