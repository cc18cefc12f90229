\* Two concurrent publishers, one subscriber of everything.
SPECIFICATION BusSpec
CONSTANTS
  p1 = p1
  p2 = p2
  s1 = s1
  s2 = s2
  Publishers <- MCPublishers
  Subs <- OneSub
  Filter <- OneFilter
  InboxCap = 2
  SubCap = 2
  MaxCursor = 2
INVARIANTS CursorsMonotone
CHECK_DEADLOCK FALSE
