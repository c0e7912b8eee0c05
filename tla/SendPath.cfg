SPECIFICATION FairSpec
CONSTANTS
  s1 = s1
  s2 = s2
  Senders <- TwoSenders
  Messages = 2
  Length = 2
  Room = 3
INVARIANTS
  TypeOK
  InterestMatchesBuffer
  FlushedInOrder
PROPERTIES
  BufferDrains
CHECK_DEADLOCK FALSE
