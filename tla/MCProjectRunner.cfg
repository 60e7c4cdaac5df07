SPECIFICATION Spec
CONSTANTS
  Cases <- MCCases
  MaxIterations = 2
  MaxRuns = 2
  None = None
INVARIANTS
  RunnerTypeOK
  ModulesRunIffFlowIsFinite
  ExitZeroMeansAllFiles
  ResultFilesAgree
  QuietReloadShowsLastRun
  SimpleObeysCancel
PROPERTIES
  RunReturns
