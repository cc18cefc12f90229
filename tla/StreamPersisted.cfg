SPECIFICATION StreamSpec
CONSTANTS
  c1 = c1
  h1 = h1
  Conns <- MCConns
  Handlers <- MCHandlers
  Seen = {0, 2}
  SinkCap = 1
  Limit = 2
  MaxEvents = 2
INVARIANTS PersistedIsStored
CHECK_DEADLOCK FALSE
