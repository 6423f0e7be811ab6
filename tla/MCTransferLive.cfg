SPECIFICATION QuietFairSpec
CONSTANTS
  r1 = r1
  r2 = r2
  f1 = f1
  f2 = f2
  f3 = f3
  u1 = u1
  u2 = u2
  u3 = u3
  ipA = ipA
  ipB = ipB
  File = {f1, f2}
  FileId = {f1, f2}
  Offered <- Order
  Isolates = 2
  NoFile = NoFile
  MaxRetries = 1
  Req = {r1}
  Upload = {u1, u2, u3}
  Ip = {ipA, ipB}
  IpOf <- Addresses
  FilesOf <- Offers
  QuickReq = {}
  MessageReq = {}
  LegacyReq = {}
  PinSet = FALSE
  NoSession = NoSession
  Me = r1
  NoUpload = NoUpload
  NoReq = NoReq
  Lossy = FALSE
PROPERTIES
  SendingEnds
  NamedCancelFrees
CHECK_DEADLOCK FALSE
