SPECIFICATION WindowSpec
CONSTANTS
  Dirs = {d1}
  Contents = {good}
  Buildable = {good}
  Untitled = good
  None = None
  Torn = Torn
  MaxIterations = 1
INVARIANTS
  StopIsOffered
  ViewSettles
  EditIsFlaggedUntilARun
