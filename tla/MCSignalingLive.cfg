SPECIFICATION FairHourSpec
CONSTANTS
  a = a
  b = b
  c = c
  d = d
  g1 = g1
  g2 = g2
  i1 = i1
  i2 = i2
  Peer = {a, b}
  Group = {g1}
  GroupOf <- OneRoom
  Info = {i1}
  NoInfo = NoInfo
  MaxConnections = 2
  MaxRequests = 3
  ChanCap = 4
INVARIANTS
  JoinComesFirst

  
  
CHECK_DEADLOCK FALSE
