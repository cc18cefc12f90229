SPECIFICATION StreamFairSpec
CONSTANTS
  c1 = c1
  h1 = h1
  Conns <- MCConns
  Handlers <- MCHandlers
  Seen = {0, 2}
  SinkCap = 1
  Limit = 2
  MaxEvents = 2
INVARIANTS NoGapAfterResume PromptReachesClient
PROPERTIES RunnerNeverStalls
CHECK_DEADLOCK FALSE
