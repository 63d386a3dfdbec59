CONSTANTS
  None = None
  m1 = m1
  m2 = m2
  m3 = m3
  n1 = n1
  n2 = n2
  Mac = {m1, m2, m3}
  Name = {n1, n2}
  NameOf <- MCNameOf
  MaxAddr = 3
  IpStart = 1
  LeaseNum = 2
  MaxSlots = 2
  ServerIp = ServerIp
  OtherServer = OtherServer
  LeaseDuration = 1
  EnableRapidCommit = TRUE
  LeaseFiles <- MCLeaseFiles
  MaxTime = 3
SPECIFICATION Spec
INVARIANTS TypeOK FilledExact HintSound DynamicIsSole NameFromHolder ExhaustedMeansFull
PROPERTIES ProtectedKept OffersSpread KeepsPromise
