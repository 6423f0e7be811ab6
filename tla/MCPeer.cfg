SPECIFICATION FairGuardedSpec
CONSTANTS
  f1 = f1
  f2 = f2
  stray = stray
  p1 = p1
  p2 = p2
  Id = {f1, f2, stray}
  Offered = {f1, f2}
  NoId = NoId
  Pin = {p1, p2}
  NoPin = NoPin
  MaxTries = 2
  MaxChunks = 1
INVARIANTS
  PinGate
  Authenticated
  InStep
  NoMixing
  DoneMeansAccounted
  SenderLearns

  
CHECK_DEADLOCK FALSE
