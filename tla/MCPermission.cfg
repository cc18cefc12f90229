SPECIFICATION PermFairSpec
CONSTANTS
  c1 = c1
  Conns <- MCConns
  Parallel = 2
  MaxAsked = 3
INVARIANTS NewestRequestPending NothingPendingAfterRound
PROPERTIES NewestRequestAnswered
CHECK_DEADLOCK FALSE
