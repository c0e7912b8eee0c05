SPECIFICATION Spec
CONSTANTS
  w1 = w1
  w2 = w2
  m1 = m1
  m2 = m2
  m3 = m3
  alice = alice
  bob = bob
  Workers <- MCWorkers
  Users <- MCUsers
  Messages <- MCMessages
  To <- MCTo
SYMMETRY MCSymmetry
INVARIANTS
  TypeOK
  NothingDeletedUnread
  RepeatedOnlyAfterFailedDelete
PROPERTY
  ImplementsMailbox
CHECK_DEADLOCK FALSE
