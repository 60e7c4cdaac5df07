SPECIFICATION MonitorSpec
CONSTANTS
  Overflow = Overflow
  None = None
  Scale = 10
  Factors <- MCFactors
  Initial <- MCInitial
  Least <- MCLeast
  Most <- MCMost
  Increased <- MCIncreased
  Decreased <- MCDecreased
  Lowered <- MCLowered
  ImprovementStreak = 2
  OscillationRatios = 2
  Tracked <- MCTracked
  Relative <- MCRelative
  Gates <- MCGates
  Unchecked <- MCUnchecked
  Tolerance <- MCTolerance
  Samples <- MCSamples
  Settings <- MCSettings
  ReferenceIterations = 2
  NormalizedPercent = 60
  DivergenceWindow = 3
  DivergenceStart = 1
  GrowthFactor = 2
  StagnationWindow = 2
  StagnationStart = 3
  MinImprovementPercent = 10
  MaxIterations = 6
INVARIANTS
  TrackersMatchHistory
  VerdictMatchesHistory
  FactorsStaySafe
PROPERTIES
  IncreasesAreSpaced
