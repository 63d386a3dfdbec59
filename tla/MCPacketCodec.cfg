SPECIFICATION Spec
CONSTANTS
  None = None
  Sendable <- MCSendable
  MaxSent = 3
  Text <- MCText
INVARIANTS
  TypeOK
  ReadsWhatWasSent
  PanicsExactly
\* A datagram has been read once it has been read.
CHECK_DEADLOCK FALSE
