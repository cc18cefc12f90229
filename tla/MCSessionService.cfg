SPECIFICATION FairSpec
CONSTANTS
  c1 = c1
  c2 = c2
  Callers <- MCCallers
  Stoppers <- MCStoppers
  Kinds = {"exec", "resume", "tty", "codex", "stream", "lazy"}
  MaxRuns = 2
INVARIANTS NoOrphanProcess
PROPERTIES CleanupWaits StopTakesEffect HungEngineAborted
CHECK_DEADLOCK FALSE
