SPECIFICATION FairSpec
CONSTANTS
  c1 = c1
  c2 = c2
  w1 = w1
  w2 = w2
  m1 = m1
  m2 = m2
  g1 = g1
  alice = alice
  bob = bob
  NoUser = NoUser
  NoConn = NoConn
  NoTask = NoTask
  NoMsg = NoMsg
  Workers <- OneWorker
  Conns <- OneConn
  Users <- TwoUsers
  Chats <- TwoMessages
  To <- BothToAlice
  GroupChats <- OneGroupChat
  MembersOf <- BothAreMembers
  MaxLetters = 2
  MaxCrashes = 1
  MaxLogins <- OneLogin
  Silent <- OneConn
  Breaking <- OneConn
  RedisAnswers = {FALSE}
PROPERTIES
  EveryChatAnswered
  DeadEntriesGo
  LoginDelivers
CHECK_DEADLOCK FALSE
