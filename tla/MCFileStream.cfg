SPECIFICATION FFairSpec
CONSTANTS
  MaxSize = 11
  MaxPiece = 5
  CHUNK_SIZE = 2
  BUFFER_SIZE = 4
  UpCap = 1
  DownCap = 2
INVARIANTS
  InOrder
  Sizes
PROPERTIES
  Arrives
  Delivers
CHECK_DEADLOCK FALSE
