SPECIFICATION MCSpec
CONSTANTS
  c1 = c1
  c2 = c2
  c3 = c3
  q1 = q1
  q2 = q2
  q3 = q3
  q4 = q4
  ipA = ipA
  ipB = ipB
  ipS = ipS
  Client = {c1, c2, c3}
  Server = Server
  Call = {q1, q2, q3, q4}
  IpOf <- Addresses
  Cap = 2
  NoCall = NoCall
INVARIANTS
  OneExchange
  KeepsRecent
  AgreeOnNonces
SYMMETRY Symmetric
CHECK_DEADLOCK FALSE
