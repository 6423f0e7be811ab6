SPECIFICATION Spec
CONSTANTS
  r1 = r1
  r2 = r2
  r3 = r3
  r4 = r4
  r5 = r5
  ipA = ipA
  ipB = ipB
  Ip = {ipA, ipB}
  NoIp = NoIp
  Req = {r1, r2, r3, r4, r5}
  IpOf <- TwoBrowsers
  Pin = {p1, p2}
  NoPin = NoPin
  AutoSetting = FALSE
  MaxInits = 2
INVARIANTS
  OnlyGrantedServed
  LatestAnswerable
  SettingsKept
SYMMETRY Symmetric
CHECK_DEADLOCK FALSE
