------------------------------- MODULE Server -------------------------------
(***************************************************************************)
(* The reply path of the DHCPv4 server, Server::reply in                   *)
(* src/src/server.rs: the reply's options are put in order and filtered by *)
(* what the request asks for, encoded as far as they fit the datagram, and *)
(* sent to one destination after another.                                  *)
(*                                                                         *)
(* The loops are taken one iteration at a time, sends one at a time, and a *)
(* send may fail.  What the handler answers is left open here.             *)
(***************************************************************************)
EXTENDS Integers, Sequences

CONSTANTS
  None,         \* absent
  Address,      \* IPv4 addresses
  Unspecified,  \* 0.0.0.0
  Peer,         \* those requests come from
  Client,       \* those that are offered or acked
  Broadcasts,   \* config.broadcasts(), as Server keeps it
  DnsNum,       \* how many DNS servers are configured
  NtpNum,       \* how many NTP servers are announced
  RequestList,  \* the Parameter Request Lists of requests
  MaxCached,    \* 64: a longer option list is filtered without the code cache
  WIRE_MAX      \* 300, the size of the buffer encoded into

DHCP_MESSAGE_TYPE == 53
SERVER_IDENTIFIER == 54
SUBNET_MASK == 1
IP_ADDRESS_LEASE_TIME == 51
DOMAIN_NAME_SERVER == 6
ROUTER == 3
NETWORK_TIME_PROTOCOL_SERVERS == 42
MESSAGE == 56

Code == 0 .. 255

ASSUME ServerAssumption ==
  /\ Unspecified \in Address
  /\ Peer \subseteq Address /\ Client \subseteq Address
  /\ Broadcasts \in Seq(Address)
  /\ DnsNum \in Nat /\ NtpNum \in Nat
  /\ RequestList \subseteq Seq(Code) /\ None \notin Seq(Code)
  /\ MaxCached \in Nat
  /\ WIRE_MAX \in Nat /\ WIRE_MAX > 240

\* An option is what filtering and encoding look at: its code and data_len.
Option == [code : Code, len : Nat]

\* What of a request a reply depends on: its broadcast flag, as decode reads it,
\* its sender and its Parameter Request List.
Request == [broadcast : BOOLEAN, src : Peer \cup {Unspecified},
            prl : RequestList \cup {None}]

VARIABLES
  phase,   \* "idle", "filter", "encode", "send" or "done"
  req,     \* the request under way
  answer,  \* what the handler replies: [type, yiaddr]
  opts,    \* the reply's options
  codes,   \* the filter's cache of their codes
  pos,     \* how many options the filter has placed
  turn,    \* which wanted code is next
  wire,    \* the options encoded
  length,  \* bytes encoded
  dests,   \* destinations left
  sent,    \* destinations sent to
  failed   \* a send failed

filterVars == <<opts, codes, pos, turn>>
encodeVars == <<wire, length>>
sendVars == <<dests, sent, failed>>
vars == <<phase, req, answer, filterVars, encodeVars, sendVars>>

Nak == [type |-> "Nak", yiaddr |-> Unspecified]
Answer == [type : {"Offer", "Ack"}, yiaddr : Client] \cup {Nak}

\* Before the first request and between two: `src` is 0.0.0.0 at start, and
\* the rest are locals of reply() and of what it calls.
Blank == [req |-> [broadcast |-> FALSE, src |-> Unspecified, prl |-> None], answer |-> Nak]

-----------------------------------------------------------------------------
(* The options of a reply *)

Opt(code, len) == [code |-> code, len |-> len]

\* build_offer_options, cached at start.
OfferOptions ==
  <<Opt(IP_ADDRESS_LEASE_TIME, 4), Opt(SUBNET_MASK, 4), Opt(ROUTER, 4),
    Opt(DOMAIN_NAME_SERVER, 4 * DnsNum)>>
  \o IF NtpNum > 0 THEN <<Opt(NETWORK_TIME_PROTOCOL_SERVERS, 4 * NtpNum)>> ELSE <<>>

\* "Requested IP not available"
NakOptions == <<Opt(MESSAGE, 26)>>

ReplyOptions(type) ==
  <<Opt(DHCP_MESSAGE_TYPE, 1), Opt(SERVER_IDENTIFIER, 4)>>
  \o IF type = "Nak" THEN NakOptions ELSE OfferOptions

CodesOf(s) == [i \in DOMAIN s |-> s[i].code]
CodesIn(s) == {s[i].code : i \in DOMAIN s}

\* The codes every reply keeps, after those requested.
H == <<DHCP_MESSAGE_TYPE, SERVER_IDENTIFIER, SUBNET_MASK,
       IP_ADDRESS_LEASE_TIME, DOMAIN_NAME_SERVER, ROUTER>>

Wanted == req.prl \o H
CodesWanted == {Wanted[k] : k \in DOMAIN Wanted}

-----------------------------------------------------------------------------
(* Where a reply goes *)

\* Faulty: the unicast copy goes to 0.0.0.0 when the reply names no address.
FaultyRouteDests(peer, broadcast, yiaddr) ==
  IF broadcast \/ peer = Unspecified
    THEN Broadcasts \o IF ~broadcast THEN <<yiaddr>> ELSE <<>>
    ELSE <<peer>>

RouteDests(peer, broadcast, yiaddr) ==
  IF broadcast \/ peer = Unspecified
    THEN Broadcasts \o IF ~broadcast /\ yiaddr # Unspecified THEN <<yiaddr>> ELSE <<>>
    ELSE <<peer>>

\* Faulty: the fast path does not look at the broadcast flag.
FaultyDestinations ==
  IF req.src # Unspecified
    THEN <<req.src>>
    ELSE RouteDests(req.src, req.broadcast, answer.yiaddr)

\* send()'s fast path, else route_dests.
Destinations ==
  IF ~req.broadcast /\ req.src # Unspecified
    THEN <<req.src>>
    ELSE RouteDests(req.src, req.broadcast, answer.yiaddr)

-----------------------------------------------------------------------------

Init ==
  /\ phase = "idle"
  /\ req = Blank.req
  /\ answer = Blank.answer
  /\ opts = <<>> /\ codes = <<>> /\ pos = 0 /\ turn = 1
  /\ wire = <<>> /\ length = 0
  /\ dests = <<>> /\ sent = <<>> /\ failed = FALSE

\* A datagram arrives that the handler answers.  (One that does not decode, or
\* that the handler ignores, changes nothing here.)
Reply ==
  /\ phase = "idle"
  /\ req' \in Request
  /\ answer' \in Answer
  /\ opts' = ReplyOptions(answer'.type)
  /\ codes' = IF Len(opts') > MaxCached THEN <<>> ELSE CodesOf(opts')
  /\ pos' = 0
  /\ turn' = 1
  /\ length' = 240
  /\ UNCHANGED <<wire, sendVars>>
  /\ phase' = IF req'.prl = None THEN "encode" ELSE "filter"

-----------------------------------------------------------------------------
(* filter_options_by_req *)

\* The slow path reads the code off the option itself.
CodeAt(i) == IF Len(opts) > MaxCached THEN opts[i].code ELSE codes[i]

\* Option i is the first one not placed yet that has the code wanted now.
FoundAt(i) ==
  /\ CodeAt(i) = Wanted[turn]
  /\ \A j \in (pos + 1) .. (i - 1) : CodeAt(j) # Wanted[turn]

\* Faulty: the options are swapped and the cached codes are not.
FaultySwap(i) ==
  /\ opts' = [opts EXCEPT ![i] = opts[pos + 1], ![pos + 1] = opts[i]]
  /\ UNCHANGED codes

Swap(i) ==
  /\ opts' = [opts EXCEPT ![i] = opts[pos + 1], ![pos + 1] = opts[i]]
  /\ codes' = IF Len(opts) > MaxCached THEN codes
              ELSE [codes EXCEPT ![i] = codes[pos + 1], ![pos + 1] = codes[i]]

\* Faulty: a code that is not found is tried again.
FaultyPlace ==
  /\ phase = "filter"
  /\ turn <= Len(Wanted)
  /\ IF \E i \in (pos + 1) .. Len(opts) : FoundAt(i)
       THEN /\ \E i \in (pos + 1) .. Len(opts) : FoundAt(i) /\ Swap(i)
            /\ pos' = pos + 1
            /\ turn' = turn + 1
       ELSE UNCHANGED filterVars
  /\ UNCHANGED <<phase, req, answer, encodeVars, sendVars>>

\* One wanted code, requested or of H: its option joins the placed ones.
Place ==
  /\ phase = "filter"
  /\ turn <= Len(Wanted)
  /\ turn' = turn + 1
  /\ IF \E i \in (pos + 1) .. Len(opts) : FoundAt(i)
       THEN /\ \E i \in (pos + 1) .. Len(opts) : FoundAt(i) /\ Swap(i)
            /\ pos' = pos + 1
       ELSE UNCHANGED <<opts, codes, pos>>
  /\ UNCHANGED <<phase, req, answer, encodeVars, sendVars>>

\* Faulty: the last option placed is dropped too.
FaultyTruncate ==
  /\ phase = "filter"
  /\ turn > Len(Wanted)
  /\ opts' = SubSeq(opts, 1, pos - 1)
  /\ phase' = "encode"
  /\ UNCHANGED <<req, answer, codes, pos, turn, encodeVars, sendVars>>

\* What was not placed is dropped.
Truncate ==
  /\ phase = "filter"
  /\ turn > Len(Wanted)
  /\ opts' = SubSeq(opts, 1, pos)
  /\ phase' = "encode"
  /\ UNCHANGED <<req, answer, codes, pos, turn, encodeVars, sendVars>>

-----------------------------------------------------------------------------
(* encode *)

\* Faulty: a lower ceiling.
FaultyCeiling(option) == length + 2 + option.len < WIRE_MAX - 28

Fits(option) == length + 2 + option.len < WIRE_MAX

Left == Len(wire) < Len(opts)
NextOption == opts[Len(wire) + 1]

WriteOption ==
  /\ phase = "encode"
  /\ Left
  /\ Fits(NextOption)
  /\ wire' = Append(wire, NextOption)
  /\ length' = length + 2 + NextOption.len
  /\ UNCHANGED <<phase, req, answer, filterVars, sendVars>>

\* END: after the last option, or before the first one that does not fit.
WriteEnd ==
  /\ phase = "encode"
  /\ Left => ~Fits(NextOption)
  /\ length' = length + 1
  /\ dests' = Destinations
  /\ phase' = "send"
  /\ UNCHANGED <<req, answer, filterVars, wire, sent, failed>>

-----------------------------------------------------------------------------
(* send *)

\* A send succeeds, or fails and ends the reply; the handler logs a failure.
SendTo(ok) ==
  /\ phase = "send"
  /\ dests # <<>>
  /\ sent' = IF ok THEN Append(sent, Head(dests)) ELSE sent
  /\ dests' = IF ok THEN Tail(dests) ELSE dests
  /\ failed' = ~ok
  /\ phase' = IF ok THEN "send" ELSE "done"
  /\ UNCHANGED <<req, answer, filterVars, encodeVars>>

Sent ==
  /\ phase = "send"
  /\ dests = <<>>
  /\ phase' = "done"
  /\ UNCHANGED <<req, answer, filterVars, encodeVars, sendVars>>

\* reply() returns, and the thread receives again.
Return ==
  /\ phase = "done"
  /\ phase' = "idle"
  /\ req' = Blank.req
  /\ answer' = Blank.answer
  /\ opts' = <<>> /\ codes' = <<>> /\ pos' = 0 /\ turn' = 1
  /\ wire' = <<>> /\ length' = 0
  /\ dests' = <<>> /\ sent' = <<>> /\ failed' = FALSE

-----------------------------------------------------------------------------

Work ==
  \/ Place
  \/ Truncate
  \/ WriteOption
  \/ WriteEnd
  \/ \E ok \in BOOLEAN : SendTo(ok)
  \/ Sent
  \/ Return

Next == Reply \/ Work

\* Once a reply is begun the thread carries it on: send_to does not wait for
\* the network.  Whether another request comes is up to the clients.
Spec == Init /\ [][Next]_vars /\ WF_vars(Work)

-----------------------------------------------------------------------------
(* Properties *)

\* Every variable has its type.
TypeOK ==
  /\ phase \in {"idle", "filter", "encode", "send", "done"}
  /\ req \in Request
  /\ answer \in Answer
  /\ opts \in Seq(Option)
  /\ codes \in Seq(Code)
  /\ pos \in 0 .. Len(opts)
  /\ turn \in Nat \ {0}
  /\ wire \in Seq(Option)
  /\ length \in Nat
  /\ dests \in Seq(Address)
  /\ sent \in Seq(Address)
  /\ failed \in BOOLEAN

\* Code c is wanted before code d.
WantedBefore(c, d) ==
  \E k \in DOMAIN Wanted : Wanted[k] = c /\ \A l \in 1 .. k : Wanted[l] # d

\* What the filter leaves, swaps and duplicate requests and all: those options
\* of the reply that are requested or mandatory, whole, each once, in the
\* order in which they are first wanted.
FilterExact ==
  phase \in {"encode", "send", "done"} =>
    LET all == ReplyOptions(answer.type)
    IN  IF req.prl = None
          THEN opts = all
          ELSE /\ {opts[i] : i \in DOMAIN opts}
                    = {all[i] : i \in {j \in DOMAIN all : all[j].code \in CodesWanted}}
               /\ \A i, j \in DOMAIN opts :
                    i < j => WantedBefore(opts[i].code, opts[j].code)

\* Encoding stays inside its buffer, END included.
WireInBounds == length <= WIRE_MAX

\* Nothing of a reply is lost between the filter and the wire.
NothingCut == phase \in {"send", "done"} => wire = opts

\* Every reply says what it is and whose it is: DHCP_MESSAGE_TYPE and
\* SERVER_IDENTIFIER are added automatically.
MandatoryOnWire ==
  phase = "send" => {DHCP_MESSAGE_TYPE, SERVER_IDENTIFIER} \subseteq CodesIn(wire)

\* A reply goes where the log says (dsts_s calls route_dests): to all of it,
\* in that order, or up to the first failure.
SentAsLogged ==
  LET logged == RouteDests(req.src, req.broadcast, answer.yiaddr)
  IN  /\ sent = SubSeq(logged, 1, Len(sent))
      /\ Len(sent) <= Len(logged)
      /\ phase = "done" /\ ~failed => sent = logged

\* No reply is sent to 0.0.0.0, unless the configuration names it.
NeverToNowhere ==
  \A i \in DOMAIN sent :
    sent[i] = Unspecified => \E j \in DOMAIN Broadcasts : Broadcasts[j] = Unspecified

\* Every reply begun is brought to its end.
ReplyEnds == phase # "idle" ~> phase = "idle"
=============================================================================
