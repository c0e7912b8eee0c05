SPECIFICATION Spec
CONSTANTS
  Unit = 100
  Precision = 2
  Keys <- MCKeys
  Leaves <- MCLeaves
  MaxSize = 4
INVARIANTS
  FileReadsBack
  CutIsRefused
CHECK_DEADLOCK FALSE
