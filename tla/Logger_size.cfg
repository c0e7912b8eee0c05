SPECIFICATION LoggerSpec
CONSTANTS
  p1 = p1
  s1 = s1
  Earlier = Earlier
  Producers <- OneProducer
  MaxPush = 3
  BatchThreshold = 2
  Options <- TwoLinesHere
  DefaultOptions <- TwoLines
  LineBytes = 1
  EstimatedBytes = 1
  MaxMoves = 1
  MaxDays = 2
  Stoppers <- OneStopper
  AbsentDirs <- NoDirs
  Leftovers <- Nothing
PROPERTIES
  RotatesBySize
CHECK_DEADLOCK FALSE
