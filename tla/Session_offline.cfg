SPECIFICATION Spec
CONSTANTS
  c1 = c1
  c2 = c2
  w1 = w1
  w2 = w2
  m1 = m1
  m2 = m2
  g1 = g1
  alice = alice
  bob = bob
  NoUser = NoUser
  NoConn = NoConn
  NoTask = NoTask
  NoMsg = NoMsg
  Workers <- TwoWorkers
  Conns <- TwoConns
  Users <- OneUser
  Chats <- OneMessage
  To <- ToAlice
  GroupChats <- NoGroupChat
  MembersOf <- NoMembers
  MaxLetters = 1
  MaxCrashes = 0
  MaxLogins <- OneLoginEach
  Silent <- Nobody
  Breaking <- TwoConns
  RedisAnswers = {TRUE}
PROPERTIES
  OfflineMeansNoSession
CHECK_DEADLOCK FALSE
