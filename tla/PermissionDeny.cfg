SPECIFICATION PermSpec
CONSTANTS
  c1 = c1
  Conns <- MCConns
  Parallel = 2
  MaxAsked = 2
INVARIANTS DenyAnswersItsRequest
CHECK_DEADLOCK FALSE
