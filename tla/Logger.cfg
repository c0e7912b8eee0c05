SPECIFICATION LoggerFairSpec
CONSTANTS
  p1 = p1
  s1 = s1
  Earlier = Earlier
  Producers <- OneProducer
  MaxPush = 2
  BatchThreshold = 2
  Options <- OneLineHere
  DefaultOptions <- OneLine
  LineBytes = 1
  EstimatedBytes = 1
  MaxMoves = 1
  MaxDays = 2
  Stoppers <- OneStopper
  AbsentDirs <- LogsDir
  Leftovers <- NothingOrTwo
INVARIANTS
  LoggerTypeOK
  NoLostWakeup
  KeptInOneFile
PROPERTIES
  ImplementsChannel
  ImplementsFairChannel
  ReopenTakesEffect
  StopReturns
CHECK_DEADLOCK FALSE
