SPECIFICATION RegistryFairSpec
CONSTANTS
  c1 = c1
  c2 = c2
  s1 = s1
  s2 = s2
  Conns <- MCConns
  Sessions <- MCSessions
  MaxEntries = 3
INVARIANTS AttachedEntryLive CleanedEntryUnused ReleasedEntryGuarded
PROPERTIES LeftSessionIsCleaned SwitchCompletes
CHECK_DEADLOCK FALSE
