SPECIFICATION FairSpec
CONSTANTS
  w1 = w1
  w2 = w2
  w3 = w3
  Workers <- ThreeWorkers
  MaxTasks = 4
INVARIANTS
  TypeOK
  NoSleepBesideTask
  JoinedMeansDone
PROPERTIES
  ImplementsChannel
  EveryTaskStarts
  StopJoins
CHECK_DEADLOCK FALSE
