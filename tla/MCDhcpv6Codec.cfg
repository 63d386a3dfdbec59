SPECIFICATION Spec
CONSTANTS
  Sendable <- MCMessages
  MaxPayload = 63
  Text <- MCText
INVARIANTS
  TypeOK
  AllOrNothing
  WholeIsDecoded
\* A message has been read once it has been read.
CHECK_DEADLOCK FALSE
