SPECIFICATION KernelFairSpec
CONSTANTS
  Keys = {k1}
  Owners = {e1, e2}
  Watchers = {e1}
  NoOwner = NoOwner
  NoKey = NoKey
  TTLs = {2}
  DefaultLockTTL = 2
  ExpiredCap = 0
  MaxTime = 3
  MaxDepth = 1
  MinIdle = 2
  DefaultIdle = 1
  RequestedTimeouts = {0, 1}
  Horizon = 5
  MaxInFlight = 1
INVARIANTS WatchGuarded
PROPERTIES HungExecutionLosesLock
CHECK_DEADLOCK FALSE
