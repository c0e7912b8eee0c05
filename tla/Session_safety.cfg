SPECIFICATION Spec
CONSTANTS
  c1 = c1
  c2 = c2
  w1 = w1
  w2 = w2
  m1 = m1
  m2 = m2
  g1 = g1
  alice = alice
  bob = bob
  NoUser = NoUser
  NoConn = NoConn
  NoTask = NoTask
  NoMsg = NoMsg
  Workers <- TwoWorkers
  Conns <- TwoConns
  Users <- TwoUsers
  Chats <- OneMessage
  To <- ToAlice
  GroupChats <- OneGroupChat
  MembersOf <- BothAreMembers
  MaxLetters = 2
  MaxCrashes = 1
  MaxLogins <- OneLoginEach
  Silent <- Nobody
  Breaking <- Nobody
  RedisAnswers = {TRUE}
SYMMETRY MCSymmetry
VIEW AllButPresence
INVARIANTS
  TypeOK
  AckedIsAccountedFor
  PushedOnceUnlessKept
PROPERTIES
  ImplementsPost
CHECK_DEADLOCK FALSE
