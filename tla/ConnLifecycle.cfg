SPECIFICATION FairSpec
CONSTANTS
  c1 = c1
  c2 = c2
  c3 = c3
  f1 = f1
  f2 = f2
  NoConn = NoConn
  NoFd = NoFd
  Conns <- ThreeConns
  Fds <- TwoFds
  MaxHolds = 1
  MaxLookups = 1
INVARIANTS
  TypeOK
  CallbackIsOwners
  NoneIsDeaf
  EntryIsOwners
  HeldIsLive
PROPERTIES
  EndedIsFreed
CHECK_DEADLOCK FALSE
