CONSTANTS
  None = None
  Unspecified = Unspecified
  limited = limited
  directed = directed
  host = host
  client = client
  Address = {Unspecified, limited, directed, host, client}
  Peer = {Unspecified, host}
  Client = {client}
  Broadcasts <- MCBroadcasts
  DnsNum = 6
  NtpNum = 1
  RequestList <- MCRequestList
  MaxCached = 4
  WIRE_MAX = 300
SPECIFICATION Spec
INVARIANTS TypeOK FilterExact NothingCut SentAsLogged NeverToNowhere
PROPERTIES ReplyEnds
