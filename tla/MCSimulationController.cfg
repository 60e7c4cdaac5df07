SPECIFICATION Spec
CONSTANTS
  good = good
  bad = bad
  Dirs = {d1}
  Contents <- MCContents
  Buildable <- MCBuildable
  Untitled = bad
  None = None
  Torn = Torn
  MaxIterations = 2
INVARIANTS
  TypeOK
  OneRunAtATime
  FinishedStateMatchesLastRun
  StopIsExact
  ResultsStayWhole
PROPERTIES
  CloseCompletes
  RunEnds
