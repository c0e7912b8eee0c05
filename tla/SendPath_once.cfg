SPECIFICATION Spec
CONSTANTS
  s1 = s1
  s2 = s2
  Senders <- TwoSenders
  Messages = 1
  Length = 2
  Room = 3
INVARIANTS
  WireIsQueuedOnce
CHECK_DEADLOCK FALSE
