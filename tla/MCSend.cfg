SPECIFICATION SFairSpec
CONSTANTS
  f1 = f1
  f2 = f2
  f3 = f3
  File = {f1, f2, f3}
  Offered <- Order
  Isolates = 2
  NoFile = NoFile
  MaxRetries = 2
INVARIANTS
  UploadsExact
  SentUnlessRetried
PROPERTIES
  SEndIsFinal
  Settles
CHECK_DEADLOCK FALSE
