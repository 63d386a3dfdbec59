CONSTANTS
  None = None
  d1 = d1
  d2 = d2
  d3 = d3
  Duid = {d1, d2, d3}
  MaxAddr = 3
  Start = 1
  Count = 2
  MaxSlots = 2
  ServerDuid = ServerDuid
  OtherServer = OtherServer
  LeaseDuration = 1
  EnableRapidCommit = TRUE
  LeaseFiles <- MCLeaseFiles
  MaxTime = 3
SPECIFICATION Spec
INVARIANTS TypeOK FilledExact HintsHarmless DynamicIsSole NoneMeansFull
PROPERTIES ProtectedKept RapidCommitSucceeds KeepsPromise
