SPECIFICATION TransientSpec
CONSTANTS
  Ends = {25, 30}
  DeltaT = 10
  Tolerance = 2
  Roundings <- MCRoundings
  MaxSteps = 4
  Caps = {2, 4}
  Models = {"laminar", "transport"}
  Attempts = 4
  Meshes = {m1, m2}
  Motions <- MCMotions
  Fixed = fixed
  Horizon = 41
  Misfits = {TRUE, FALSE}
INVARIANTS
  TransientTypeOK
  ResumeIsExact
  NoSliverStep
  MeshFollowsState
