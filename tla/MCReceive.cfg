SPECIFICATION GuessSpec
CONSTANTS
  r1 = r1
  r2 = r2
  r3 = r3
  r4 = r4
  r5 = r5
  f1 = f1
  f2 = f2
  f3 = f3
  u1 = u1
  u2 = u2
  ipA = ipA
  ipB = ipB
  Req = {r1, r2, r3, r4, r5}
  Upload = {u1, u2}
  File = {f1, f2, f3}
  Ip = {ipA, ipB}
  IpOf <- TwoSenders
  FilesOf <- Offers
  QuickReq = {r2}
  MessageReq = {}
  LegacyReq = {r2}
  PinSet = TRUE
  NoSession = NoSession
INVARIANTS
  OnlyGrantedSaved
  AckMeansSaved
  FinishedMeansSaved
PROPERTIES
  EndIsFinal
SYMMETRY Symmetric
CHECK_DEADLOCK FALSE
