SPECIFICATION ChurnSpec
CONSTANTS
  a = a
  b = b
  c = c
  d = d
  g1 = g1
  g2 = g2
  i1 = i1
  i2 = i2
  Peer = {a, b, c, d}
  Group = {g1, g2}
  GroupOf <- TwoRooms
  Info = {i1}
  NoInfo = NoInfo
  MaxConnections = 2
  MaxRequests = 3
  ChanCap = 2
INVARIANTS
  NobodyMissed
  RoomWithinLimit
  Isolation
SYMMETRY Symmetric
CHECK_DEADLOCK FALSE
