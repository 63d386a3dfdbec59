CONSTANTS
  None = None
  m1 = m1
  m2 = m2
  n1 = n1
  Mac = {m1, m2}
  Name = {n1}
  NameOf <- MCNameOf
  MaxAddr = 2
  IpStart = 1
  LeaseNum = 1
  MaxSlots = 2
  ServerIp = ServerIp
  OtherServer = OtherServer
  LeaseDuration = 1
  EnableRapidCommit = TRUE
  LeaseFiles <- Empty
  MaxTime = 2
  Rapid = {m1}
  MaxLate = 1
  MaxFaults = 0
SPECIFICATION ExchangeSpec
INVARIANTS NoDoubleUse
