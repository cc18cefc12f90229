SPECIFICATION FairSpec
CONSTANTS
  c1 = c1
  c2 = c2
  Callers <- MCCallers
  Stoppers <- MCStoppers
  Kinds = {"lazy"}
  MaxRuns = 1
PROPERTIES AnyHungEngineAborted
CHECK_DEADLOCK FALSE
