CONSTANTS
  None = None
  Unspecified = Unspecified
  limited = limited
  directed = directed
  host = host
  client = client
  Address = {Unspecified, limited, directed, host, client}
  Peer = {Unspecified, host}
  Client = {client}
  Broadcasts <- MCBroadcasts
  DnsNum = 13
  NtpNum = 1
  RequestList <- MCRequestList
  MaxCached = 64
  WIRE_MAX = 300
SPECIFICATION Spec
INVARIANTS MandatoryOnWire
