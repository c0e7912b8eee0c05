SPECIFICATION FairSpec
CONSTANTS
  Body <- ThreeMessages
  HeaderLen = 2
  ChunkSize = 3
INVARIANTS
  TypeOK
  HandledIntact
  NoFrameLeftBehind
PROPERTIES
  HandledUnlessClientEnds
CHECK_DEADLOCK FALSE
