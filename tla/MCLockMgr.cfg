SPECIFICATION FairSpec
CONSTANTS
  Keys = {k1}
  Owners = {o1, o2}
  NoOwner = NoOwner
  TTLs = {1, 2}
  ExpiredCap = 1
  MaxTime = 4
  MaxDepth = 2
INVARIANTS TypeOK TimerTracksLease
PROPERTIES ImplementsLease OverdueIsReclaimed
CHECK_DEADLOCK FALSE
