---------------------------- MODULE DhcpExchange ----------------------------
(***************************************************************************)
(* The DHCPv4 service with the clients that use it and the network between *)
(* them.  The server's steps are those of MyServer (src/src/main.rs) on    *)
(* the packets the clients send; the clients follow RFC 2131 and are       *)
(* external.                                                               *)
(*                                                                         *)
(* A datagram that was sent can be delivered at any time, again and again, *)
(* or never: that covers loss, reordering, duplication and retransmission. *)
(* The transaction id is abstracted to whether a packet belongs to its     *)
(* client's current transaction.  The server answers late packets as well, *)
(* but their replies are dropped by the client, whose id has moved on.     *)
(***************************************************************************)
EXTENDS MyServer

CONSTANTS
  Rapid,      \* the clients that ask for Rapid Commit
  MaxLate,    \* bound on the late packets under way
  MaxFaults   \* bound on restarts, releases and abandoned transactions

ASSUME ExchangeAssumption ==
  Rapid \subseteq Mac /\ MaxLate \in Nat /\ MaxFaults \in Nat

VARIABLES
  state,      \* of each client: "init", "selecting", "requesting", "bound", "renewing"
  addr,       \* the address it uses while bound or renewing
  asked,      \* when it sent the message that its next Ack will answer
  until,      \* when its lease runs out by option 51 of the Ack it got
  granted,    \* when that lease ran out by the server's table (None: never)
  disturbed,  \* a restart or a late Release came after its transaction began
  up,         \* packets to the server
  down,       \* replies to the clients
  faults      \* restarts, releases and abandoned transactions so far

client == <<state, addr, asked, until, granted, disturbed>>
exchangeVars == <<vars, client, up, down, faults>>

Packet == [type : {"Discover", "Request", "Release"}, mac : Mac, ip : Addr,
           current : BOOLEAN]

Answer == [type : {"Offer", "Ack", "Nak"}, mac : Mac, yiaddr : Addr,
           expiry : Nat \cup {None}]

Holding == {"bound", "renewing"}

\* The replies a client in this state looks at; any other it discards.
Awaited(st) ==
  CASE st = "selecting" -> {"Offer", "Ack"}
    [] st \in {"requesting", "renewing"} -> {"Ack", "Nak"}
    [] OTHER -> {}

ExchangeInit ==
  /\ Init
  /\ state = [m \in Mac |-> "init"]
  /\ addr = [m \in Mac |-> Unspecified]
  /\ asked = [m \in Mac |-> 0]
  /\ until = [m \in Mac |-> 0]
  /\ granted = [m \in Mac |-> None]
  /\ disturbed = [m \in Mac |-> FALSE]
  /\ up = {}
  /\ down = {}
  /\ faults = 0

-----------------------------------------------------------------------------
(* Clients *)

Fault == faults < MaxFaults /\ faults' = faults + 1

ToServer(type, m, ip) ==
  [type |-> type, mac |-> m, ip |-> ip, current |-> TRUE]

Replies(m) == {r \in down : r.mac = m}

\* A new transaction: what is still under way of the one before comes late or
\* never, and its replies are for nobody.
Begin(m, packet) ==
  /\ \E late \in SUBSET {p \in up : p.current => p.mac = m} :
       /\ Cardinality(late) <= MaxLate
       /\ up' = {p \in up : p.current /\ p.mac # m}
                  \cup {[p EXCEPT !.current = FALSE] : p \in late} \cup {packet}
  /\ down' = down \ Replies(m)

\* Back to the start, with nothing in use.
Forget(m) ==
  /\ state' = [state EXCEPT ![m] = "init"]
  /\ addr' = [addr EXCEPT ![m] = Unspecified]
  /\ asked' = [asked EXCEPT ![m] = 0]
  /\ until' = [until EXCEPT ![m] = 0]
  /\ granted' = [granted EXCEPT ![m] = None]
  /\ disturbed' = [disturbed EXCEPT ![m] = FALSE]
  /\ down' = down \ Replies(m)

SendDiscover(m) ==
  /\ state[m] = "init"
  /\ Begin(m, ToServer("Discover", m, Unspecified))
  /\ state' = [state EXCEPT ![m] = "selecting"]
  /\ asked' = [asked EXCEPT ![m] = now]
  /\ UNCHANGED <<vars, addr, until, granted, disturbed, faults>>

TakeOffer(m) ==
  /\ state[m] = "selecting"
  /\ \E r \in Replies(m) :
       /\ r.type = "Offer"
       /\ up' = up \cup {ToServer("Request", m, r.yiaddr)}
       /\ down' = {s \in down : s.mac = m => s.type = "Ack"}
  /\ state' = [state EXCEPT ![m] = "requesting"]
  /\ asked' = [asked EXCEPT ![m] = now]
  /\ UNCHANGED <<vars, addr, until, granted, disturbed, faults>>

\* The lease counts from the sending of the message that is acknowledged.
TakeAck(m) ==
  /\ state[m] \in {"selecting", "requesting", "renewing"}
  /\ \E r \in Replies(m) :
       /\ r.type = "Ack"
       /\ addr' = [addr EXCEPT ![m] = r.yiaddr]
       /\ granted' = [granted EXCEPT ![m] = r.expiry]
  /\ state' = [state EXCEPT ![m] = "bound"]
  /\ until' = [until EXCEPT ![m] = asked[m] + LeaseDuration]
  /\ asked' = [asked EXCEPT ![m] = 0]
  /\ down' = down \ Replies(m)
  /\ UNCHANGED <<vars, disturbed, up, faults>>

TakeNak(m) ==
  /\ state[m] \in {"requesting", "renewing"}
  /\ \E r \in Replies(m) : r.type = "Nak"
  /\ Forget(m)
  /\ UNCHANGED <<vars, up, faults>>

\* Renewing and rebinding: a Request for the address in use.
Renew(m) ==
  /\ state[m] = "bound"
  /\ Begin(m, ToServer("Request", m, addr[m]))
  /\ state' = [state EXCEPT ![m] = "renewing"]
  /\ asked' = [asked EXCEPT ![m] = now]
  /\ UNCHANGED <<vars, addr, until, granted, disturbed, faults>>

\* A Release, or a Decline of an address found in use.
GiveUp(m) ==
  /\ state[m] = "bound"
  /\ Fault
  /\ Begin(m, ToServer("Release", m, addr[m]))
  /\ Forget(m)
  /\ UNCHANGED vars

Expire(m) ==
  /\ state[m] \in Holding
  /\ now > until[m]
  /\ Forget(m)
  /\ UNCHANGED <<vars, up, faults>>

\* The client is switched off, or starts again.
Abandon(m) ==
  /\ state[m] \in {"selecting", "requesting"}
  /\ Fault
  /\ Forget(m)
  /\ UNCHANGED <<vars, up>>

-----------------------------------------------------------------------------
(* Server *)

\* What the table says of an address, as an Ack of it would be meant.
ExpiryOf(ip) == IF Lookup(ip) = None THEN None ELSE Lookup(ip).expiry

\* The reply in out', if there is one, on its way to a client that waits for
\* it.
Respond(p) ==
  IF p.current /\ out'.type \in Awaited(state[p.mac])
    THEN \E ip \in Addr :
           /\ ip = out'.yiaddr
           /\ down' = down \cup {[type |-> out'.type, mac |-> p.mac, yiaddr |-> ip,
                                  expiry |-> ExpiryOf(ip)']}
    ELSE UNCHANGED down

ServeDiscover(p) ==
  /\ p.type = "Discover"
  /\ \/ DiscoverExisting(p.mac, p.mac \in Rapid, None)
     \/ DiscoverFresh(p.mac, p.mac \in Rapid, None)
     \/ DiscoverExhausted(p.mac)
  /\ Respond(p)
  /\ UNCHANGED <<client, up, faults>>

ServeRequest(p) ==
  /\ p.type = "Request"
  /\ \/ RequestExisting(p.mac, None)
     \/ RequestNak(p.mac, p.ip)
     \/ RequestGrant(p.mac, p.ip, None)
  /\ Respond(p)
  /\ UNCHANGED <<client, up, faults>>

\* A Release that is delivered when its client has long begun again ends the
\* newer lease as well.
ServeRelease(p) ==
  /\ p.type = "Release"
  /\ Release(p.mac, ServerIp) \/ Ignored(p.mac, ServerIp)
  /\ disturbed' = [disturbed EXCEPT ![p.mac] = state[p.mac] # "init"]
  /\ UNCHANGED <<state, addr, asked, until, granted, up, down, faults>>

ServerStarts ==
  /\ LoadLine \/ StartServing
  /\ UNCHANGED <<client, up, down, faults>>

\* The clients do not notice.
ServerRestarts ==
  /\ Fault
  /\ Restart
  /\ disturbed' = [m \in Mac |-> state[m] # "init"]
  /\ UNCHANGED <<state, addr, asked, until, granted, up, down>>

TimePasses ==
  /\ Tick
  /\ UNCHANGED <<client, up, down, faults>>

-----------------------------------------------------------------------------

ClientStep(m) ==
  \/ SendDiscover(m) \/ TakeOffer(m) \/ TakeAck(m) \/ TakeNak(m)
  \/ Renew(m) \/ GiveUp(m) \/ Expire(m) \/ Abandon(m)

ExchangeNext ==
  \/ \E m \in Mac : ClientStep(m)
  \/ \E p \in up : ServeDiscover(p) \/ ServeRequest(p) \/ ServeRelease(p)
  \/ ServerStarts
  \/ ServerRestarts
  \/ TimePasses

\* A client that waits retransmits until one packet gets through, and so does
\* the reply in the end; the server's loop serves whatever it receives.
ClientWaits(m) == SendDiscover(m) \/ TakeOffer(m) \/ TakeAck(m) \/ TakeNak(m)

ServerAnswers(m) ==
  \E p \in up :
    /\ p.mac = m /\ p.current
    /\ IF state[m] = "selecting" THEN ServeDiscover(p) ELSE ServeRequest(p)

ExchangeSpec ==
  /\ ExchangeInit
  /\ [][ExchangeNext]_exchangeVars
  /\ WF_exchangeVars(ServerStarts)
  /\ \A m \in Mac :
       WF_exchangeVars(ClientWaits(m)) /\ WF_exchangeVars(ServerAnswers(m))

-----------------------------------------------------------------------------
(* Properties *)

\* Every variable has its type.
ExchangeTypeOK ==
  /\ TypeOK
  /\ state \in [Mac -> {"init", "selecting", "requesting"} \cup Holding]
  /\ addr \in [Mac -> Addr]
  /\ asked \in [Mac -> Nat]
  /\ until \in [Mac -> Nat]
  /\ granted \in [Mac -> Nat \cup {None}]
  /\ disturbed \in [Mac -> BOOLEAN]
  /\ up \subseteq Packet
  /\ down \subseteq Answer
  /\ faults \in 0 .. MaxFaults

\* The address is its user's in the table, for as long as the grant said.  An
\* infinite grant counts outside the pool only: see PermanentKept.
Backed(m, ip, expiry) ==
  (IF expiry = None THEN ip \notin Pool ELSE now <= expiry) =>
    /\ Lookup(ip) # None
    /\ Lookup(ip).mac = m
    /\ Lookup(ip).expiry = expiry

\* However packets are delayed, repeated or lost, and whoever else asks: a
\* client that uses an address within the lifetime the server's table gave it
\* is the one the table names, unless the server restarted or an old Release
\* of the client arrived meanwhile.
RightfulHolder ==
  \A m \in Mac :
    state[m] \in Holding /\ ~disturbed[m] => Backed(m, addr[m], granted[m])

\* Two clients within the lifetimes they were told (option 51), none of them
\* disturbed, use different addresses.
NoDoubleUse ==
  \A m, n \in Mac :
    /\ m # n
    /\ state[m] \in Holding /\ now <= until[m] /\ ~disturbed[m]
    /\ state[n] \in Holding /\ now <= until[n] /\ ~disturbed[n]
    => addr[m] # addr[n]

\* Where there is an address for every client, one that wants an address comes
\* to have one, whatever the others do.
GetsAddress == \A m \in Mac : state[m] = "init" ~> state[m] \in Holding
=============================================================================
