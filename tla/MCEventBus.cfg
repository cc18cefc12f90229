SPECIFICATION BusFairSpec
CONSTANTS
  p1 = p1
  p2 = p2
  s1 = s1
  s2 = s2
  Publishers <- MCPublishers
  Subs <- MCSubs
  Filter <- MCFilter
  InboxCap = 1
  SubCap = 1
  MaxCursor = 2
INVARIANTS DispatchOrderKept EveryEnvelopeAccounted QuietAfterClose
PROPERTIES DispatcherNeverStalls
CHECK_DEADLOCK FALSE
