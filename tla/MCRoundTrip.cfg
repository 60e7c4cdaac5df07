SPECIFICATION CaseSpec
CONSTANTS
  d1 = d1
  d2 = d2
  Dirs = {d1, d2}
  Targets = {d1}
  Disks <- MCDisks
  Untitled <- MCUntitled
  Toggles = {"thermal"}
  BoundaryMaps <- MCBoundaryMaps
  MaxSteps = 2
  MaxSaves = 1
  Torn = Torn
  Refused = Refused
  None = None
INVARIANT RoundTripKeepsPhysics
