---------------------------- MODULE ServerProofs ----------------------------
(***************************************************************************)
(* Proofs about Server for every configuration and every request.          *)
(*                                                                         *)
(* First what the options of a reply are, then one loop after the other:   *)
(* the filter permutes them and keeps the placed ones in front, encoding   *)
(* copies a prefix, sending consumes the destinations in order.            *)
(***************************************************************************)
EXTENDS Server, TLAPS

-----------------------------------------------------------------------------
(* The options of a reply *)

\* Bytes an option takes on the wire, by its code.
Size(code) ==
  CASE code = DHCP_MESSAGE_TYPE -> 3
    [] code = MESSAGE -> 28
    [] code = DOMAIN_NAME_SERVER -> 2 + 4 * DnsNum
    [] code = NETWORK_TIME_PROTOCOL_SERVERS -> 2 + 4 * NtpNum
    [] OTHER -> 6

All == ReplyOptions(answer.type)

OfferCodes == <<DHCP_MESSAGE_TYPE, SERVER_IDENTIFIER, IP_ADDRESS_LEASE_TIME,
                SUBNET_MASK, ROUTER, DOMAIN_NAME_SERVER, NETWORK_TIME_PROTOCOL_SERVERS>>
NakCodes == <<DHCP_MESSAGE_TYPE, SERVER_IDENTIFIER, MESSAGE>>

\* A reply's options, one by one.
LEMMA OptionsOfReply ==
  ASSUME NEW type
  PROVE  /\ ReplyOptions(type) \in Seq(Option)
         /\ type = "Nak" =>
              /\ Len(ReplyOptions(type)) = 3
              /\ \A i \in 1 .. 3 : ReplyOptions(type)[i].code = NakCodes[i]
         /\ type # "Nak" =>
              /\ Len(ReplyOptions(type)) = IF NtpNum > 0 THEN 7 ELSE 6
              /\ \A i \in 1 .. Len(ReplyOptions(type)) :
                   ReplyOptions(type)[i].code = OfferCodes[i]
         /\ \A i \in 1 .. Len(ReplyOptions(type)) :
              ReplyOptions(type)[i].len + 2 = Size(ReplyOptions(type)[i].code)
<1> DEFINE all == ReplyOptions(type)
<1> DEFINE type1 == Opt(DHCP_MESSAGE_TYPE, 1)
<1> DEFINE server == Opt(SERVER_IDENTIFIER, 4)
<1> DEFINE message == Opt(MESSAGE, 26)
<1> DEFINE time == Opt(IP_ADDRESS_LEASE_TIME, 4)
<1> DEFINE mask == Opt(SUBNET_MASK, 4)
<1> DEFINE router == Opt(ROUTER, 4)
<1> DEFINE dns == Opt(DOMAIN_NAME_SERVER, 4 * DnsNum)
<1> DEFINE ntp == Opt(NETWORK_TIME_PROTOCOL_SERVERS, 4 * NtpNum)
<1>1. /\ {type1, server, message, time, mask, router, dns, ntp} \subseteq Option
      /\ \A o \in {type1, server, message, time, mask, router, dns, ntp} : o.len + 2 = Size(o.code)
  BY ServerAssumption DEF Opt, Option, Code, Size, DHCP_MESSAGE_TYPE, SERVER_IDENTIFIER,
       IP_ADDRESS_LEASE_TIME, SUBNET_MASK, ROUTER, DOMAIN_NAME_SERVER,
       NETWORK_TIME_PROTOCOL_SERVERS, MESSAGE
<1>2. /\ type1.code = DHCP_MESSAGE_TYPE /\ server.code = SERVER_IDENTIFIER /\ message.code = MESSAGE
      /\ time.code = IP_ADDRESS_LEASE_TIME /\ mask.code = SUBNET_MASK /\ router.code = ROUTER
      /\ dns.code = DOMAIN_NAME_SERVER /\ ntp.code = NETWORK_TIME_PROTOCOL_SERVERS
  BY DEF Opt
<1> HIDE DEF type1, server, message, time, mask, router, dns, ntp
<1>3. CASE type = "Nak"
  <2>1. all = <<type1, server>> \o <<message>>
    <3>1. (IF type = "Nak" THEN NakOptions ELSE OfferOptions) = NakOptions
      BY <1>3
    <3>2. NakOptions = <<message>>
      BY Zenon DEF NakOptions, message
    <3>. QED BY <3>1, <3>2, Zenon DEF ReplyOptions, type1, server
  <2>2. /\ all \in Seq(Option) /\ Len(all) = 3 /\ DOMAIN all = 1 .. 3
        /\ all[1] = type1 /\ all[2] = server /\ all[3] = message
    BY <1>1, <2>1
  <2>3. \A i \in 1 .. 3 : i = 1 \/ i = 2 \/ i = 3
    OBVIOUS
  <2>4. NakCodes[1] = DHCP_MESSAGE_TYPE /\ NakCodes[2] = SERVER_IDENTIFIER /\ NakCodes[3] = MESSAGE
    BY DEF NakCodes
  <2>5. \A i \in 1 .. 3 : all[i].code = NakCodes[i] /\ all[i].len + 2 = Size(all[i].code)
    <3>. HIDE DEF all
    <3>. QED BY <1>1, <1>2, <2>2, <2>3, <2>4
  <2>. QED BY <1>3, <2>2, <2>5
<1>4. /\ OfferCodes[1] = DHCP_MESSAGE_TYPE /\ OfferCodes[2] = SERVER_IDENTIFIER
      /\ OfferCodes[3] = IP_ADDRESS_LEASE_TIME /\ OfferCodes[4] = SUBNET_MASK
      /\ OfferCodes[5] = ROUTER /\ OfferCodes[6] = DOMAIN_NAME_SERVER
      /\ OfferCodes[7] = NETWORK_TIME_PROTOCOL_SERVERS
  BY DEF OfferCodes
<1>5. CASE type # "Nak" /\ NtpNum > 0
  <2>1. all = <<type1, server>> \o (<<time, mask, router, dns>> \o <<ntp>>)
    <3>1. OfferOptions = <<time, mask, router, dns>> \o <<ntp>>
      <4>1. (IF NtpNum > 0 THEN <<Opt(NETWORK_TIME_PROTOCOL_SERVERS, 4 * NtpNum)>> ELSE <<>>) = <<ntp>>
        BY <1>5 DEF ntp
      <4>. QED BY <4>1, Zenon DEF OfferOptions, time, mask, router, dns
    <3>2. (IF type = "Nak" THEN NakOptions ELSE OfferOptions) = OfferOptions
      BY <1>5
    <3>. QED BY <3>1, <3>2, Zenon DEF ReplyOptions, type1, server
  <2>3. /\ all \in Seq(Option) /\ Len(all) = 7 /\ DOMAIN all = 1 .. 7
        /\ all[1] = type1 /\ all[2] = server /\ all[3] = time /\ all[4] = mask
        /\ all[5] = router /\ all[6] = dns /\ all[7] = ntp
    BY <1>1, <2>1
  <2>4. \A i \in 1 .. 7 : i = 1 \/ i = 2 \/ i = 3 \/ i = 4 \/ i = 5 \/ i = 6 \/ i = 7
    OBVIOUS
  <2>5. \A i \in 1 .. 7 : all[i].code = OfferCodes[i] /\ all[i].len + 2 = Size(all[i].code)
    <3>. HIDE DEF all
    <3>. QED BY <1>1, <1>2, <1>4, <2>3, <2>4
  <2>. QED BY <1>5, <2>3, <2>5
<1>6. CASE type # "Nak" /\ ~(NtpNum > 0)
  <2>1. all = <<type1, server>> \o (<<time, mask, router, dns>> \o << >>)
    <3>1. OfferOptions = <<time, mask, router, dns>> \o << >>
      <4>1. (IF NtpNum > 0 THEN <<Opt(NETWORK_TIME_PROTOCOL_SERVERS, 4 * NtpNum)>> ELSE <<>>) = << >>
        BY <1>6 DEF ntp
      <4>. QED BY <4>1, Zenon DEF OfferOptions, time, mask, router, dns
    <3>2. (IF type = "Nak" THEN NakOptions ELSE OfferOptions) = OfferOptions
      BY <1>6
    <3>. QED BY <3>1, <3>2, Zenon DEF ReplyOptions, type1, server
  <2>3. /\ all \in Seq(Option) /\ Len(all) = 6 /\ DOMAIN all = 1 .. 6
        /\ all[1] = type1 /\ all[2] = server /\ all[3] = time /\ all[4] = mask
        /\ all[5] = router /\ all[6] = dns
    BY <1>1, <2>1
  <2>4. \A i \in 1 .. 6 : i = 1 \/ i = 2 \/ i = 3 \/ i = 4 \/ i = 5 \/ i = 6
    OBVIOUS
  <2>5. \A i \in 1 .. 6 : all[i].code = OfferCodes[i] /\ all[i].len + 2 = Size(all[i].code)
    <3>. HIDE DEF all
    <3>. QED BY <1>1, <1>2, <1>4, <2>3, <2>4
  <2>. QED BY <1>6, <2>3, <2>5
<1>. QED BY <1>3, <1>5, <1>6

\* No two options of a reply share a code.
LEMMA CodesDiffer ==
  ASSUME NEW type
  PROVE  \A i, j \in 1 .. Len(ReplyOptions(type)) :
           ReplyOptions(type)[i].code = ReplyOptions(type)[j].code => i = j
<1>1. \A i, j \in 1 .. 3 : NakCodes[i] = NakCodes[j] => i = j
  BY DEF NakCodes, DHCP_MESSAGE_TYPE, SERVER_IDENTIFIER, MESSAGE
<1>2. \A i, j \in 1 .. 7 : OfferCodes[i] = OfferCodes[j] => i = j
  BY DEF OfferCodes, DHCP_MESSAGE_TYPE, SERVER_IDENTIFIER, IP_ADDRESS_LEASE_TIME, SUBNET_MASK,
         ROUTER, DOMAIN_NAME_SERVER, NETWORK_TIME_PROTOCOL_SERVERS
<1>3. CASE type = "Nak"
  BY <1>1, <1>3, OptionsOfReply
<1>4. CASE type # "Nak"
  <2>1. Len(ReplyOptions(type)) = IF NtpNum > 0 THEN 7 ELSE 6
    BY <1>4, OptionsOfReply
  <2>2. \A i \in 1 .. Len(ReplyOptions(type)) : ReplyOptions(type)[i].code = OfferCodes[i]
    BY <1>4, OptionsOfReply
  <2>3. 1 .. Len(ReplyOptions(type)) \subseteq 1 .. 7
    BY <2>1
  <2>. QED BY <1>2, <2>2, <2>3
<1>. QED BY <1>3, <1>4

-----------------------------------------------------------------------------
(* The inductive invariant *)

\* s holds options of the reply under way, none of them twice.
Drawn(s) ==
  /\ \A i \in DOMAIN s : \E j \in DOMAIN All : s[i] = All[j]
  /\ \A i, j \in DOMAIN s : s[i].code = s[j].code => i = j

\* The cached codes are those of the options: what the lockstep is for.
Cached ==
  Len(opts) <= MaxCached =>
    Len(codes) = Len(opts) /\ \A i \in DOMAIN opts : codes[i] = opts[i].code

\* The first pos options are those found for the codes seen so far, in order.
PlacedInFront ==
  /\ \A i \in 1 .. pos : \E k \in 1 .. (turn - 1) : Wanted[k] = opts[i].code
  /\ \A i, j \in 1 .. pos : i < j => WantedBefore(opts[i].code, opts[j].code)
  /\ \A k \in 1 .. (turn - 1), i \in DOMAIN opts : opts[i].code = Wanted[k] => i <= pos

FilterInv ==
  phase = "filter" =>
    /\ req.prl # None
    /\ turn <= Len(Wanted) + 1
    /\ Drawn(opts)
    /\ \A j \in DOMAIN All : \E i \in DOMAIN opts : opts[i] = All[j]
    /\ Cached
    /\ PlacedInFront

\* wire is what of opts has been encoded.
Prefix ==
  Len(wire) <= Len(opts) /\ \A i \in DOMAIN wire : wire[i] = opts[i]

\* Bytes that options with the codes of S take.
Cost(S, code) == IF code \in S THEN Size(code) ELSE 0
Bytes(S) ==
  Cost(S, DHCP_MESSAGE_TYPE) + Cost(S, SERVER_IDENTIFIER) + Cost(S, MESSAGE)
  + Cost(S, IP_ADDRESS_LEASE_TIME) + Cost(S, SUBNET_MASK) + Cost(S, ROUTER)
  + Cost(S, DOMAIN_NAME_SERVER) + Cost(S, NETWORK_TIME_PROTOCOL_SERVERS)

\* The buffer holds any reply whole: 31 bytes of fixed options and four for
\* each server named, or a Nak's 37, behind 240 of header, and END.
BufferSuffices ==
  /\ 240 + 31 + 4 * (DnsNum + NtpNum) < WIRE_MAX
  /\ 240 + 37 < WIRE_MAX

EncodeInv ==
  /\ phase \in {"filter", "encode"} =>
       /\ length < WIRE_MAX /\ sent = << >>
       /\ length = 240 + Bytes(CodesIn(wire))
  /\ BufferSuffices => NothingCut
  /\ phase \in {"idle", "filter"} => wire = << >>
  /\ phase \in {"encode", "send", "done"} => Drawn(opts) /\ Prefix

\* What was sent and what is left make up the destinations.
SendInv ==
  /\ phase = "idle" => sent = << >>
  /\ phase \in {"send", "done"} =>
       /\ Len(sent) + Len(dests) = Len(Destinations)
       /\ \A i \in DOMAIN sent : sent[i] = Destinations[i]
       /\ \A i \in DOMAIN dests : dests[i] = Destinations[Len(sent) + i]
  /\ phase = "done" /\ ~failed => dests = << >>

Inv ==
  /\ TypeOK
  /\ FilterInv
  /\ FilterExact
  /\ EncodeInv
  /\ WireInBounds
  /\ SendInv

LEMMA SizeType == \A code : Size(code) \in Nat
BY ServerAssumption DEF Size

LEMMA BytesOfNone == Bytes(CodesIn(<< >>)) = 0 /\ Bytes({}) = 0
<1>1. CodesIn(<< >>) = {}
  BY DEF CodesIn
<1>. QED BY <1>1 DEF Bytes, Cost

LEMMA WantedType ==
  ASSUME NEW prl \in RequestList
  PROVE  prl \o H \in Seq(Code)
<1>1. prl \in Seq(Code)
  BY ServerAssumption
<1>2. H \in Seq(Code)
  BY DEF H, Code, DHCP_MESSAGE_TYPE, SERVER_IDENTIFIER, SUBNET_MASK, IP_ADDRESS_LEASE_TIME,
         DOMAIN_NAME_SERVER, ROUTER
<1>. QED BY <1>1, <1>2

\* The log and the sender agree on where a reply goes.
LEMMA DestinationsLogged ==
  /\ TypeOK => Destinations \in Seq(Address)
  /\ Destinations = RouteDests(req.src, req.broadcast, answer.yiaddr)
<1>1. Destinations = RouteDests(req.src, req.broadcast, answer.yiaddr)
  BY DEF Destinations, RouteDests
<1>2. ASSUME TypeOK PROVE Destinations \in Seq(Address)
  <2>1. req.src \in Address /\ answer.yiaddr \in Address
    BY <1>2, ServerAssumption DEF TypeOK, Request, Answer, Nak
  <2>. QED BY <1>1, <2>1, ServerAssumption DEF RouteDests
<1>. QED BY <1>1, <1>2

-----------------------------------------------------------------------------
(* The first request, and the filter *)

LEMMA BlankType == Blank.req \in Request /\ Blank.answer \in Answer
<1>1. /\ Blank.req.broadcast = FALSE /\ Blank.req.src = Unspecified /\ Blank.req.prl = None
      /\ Blank.req = [broadcast |-> FALSE, src |-> Unspecified, prl |-> None]
      /\ Blank.answer = Nak
  BY DEF Blank
<1>. QED BY <1>1 DEF Request, Answer

LEMMA InitInv == Init => Inv
<1>. SUFFICES ASSUME Init PROVE Inv
  OBVIOUS
<1>1. TypeOK
  <2>1. req \in Request /\ answer \in Answer
    BY BlankType DEF Init
  <2>2. /\ << >> \in Seq(Option) /\ << >> \in Seq(Code) /\ << >> \in Seq(Address)
        /\ Len(<< >>) = 0
    OBVIOUS
  <2>3. pos \in 0 .. Len(opts) /\ turn \in Nat \ {0} /\ length \in Nat
    BY <2>2 DEF Init
  <2>4. failed \in BOOLEAN /\ phase \in {"idle", "filter", "encode", "send", "done"}
    BY DEF Init
  <2>5. /\ opts \in Seq(Option) /\ wire \in Seq(Option) /\ codes \in Seq(Code)
        /\ dests \in Seq(Address) /\ sent \in Seq(Address)
    BY <2>2 DEF Init
  <2>. QED BY <2>1, <2>3, <2>4, <2>5 DEF TypeOK
<1>. QED BY <1>1, ServerAssumption DEF Init, Inv, FilterInv, FilterExact, EncodeInv, NothingCut, WireInBounds, SendInv

LEMMA CodesOfType ==
  ASSUME NEW s \in Seq(Option)
  PROVE  /\ CodesOf(s) \in Seq(Code)
         /\ Len(CodesOf(s)) = Len(s)
         /\ \A i \in DOMAIN s : CodesOf(s)[i] = s[i].code
<1>1. DOMAIN s = 1 .. Len(s) /\ Len(s) \in Nat
  OBVIOUS
<1>2. \A i \in 1 .. Len(s) : s[i].code \in Code
  <2>1. \A i \in 1 .. Len(s) : s[i] \in Option
    OBVIOUS
  <2>. QED BY <2>1 DEF Option
<1>3. CodesOf(s) = [i \in 1 .. Len(s) |-> s[i].code]
  BY <1>1 DEF CodesOf
<1>4. CodesOf(s) \in Seq(Code)
  BY <1>1, <1>2, <1>3
<1>. QED BY <1>1, <1>3, <1>4

LEMMA ReplyInv ==
  ASSUME Inv, Reply
  PROVE  Inv'
<1>1. opts' \in Seq(Option) /\ opts' = ReplyOptions(answer'.type) /\ opts' = All'
  BY OptionsOfReply DEF Reply, All
<1>2. TypeOK'
  BY <1>1, CodesOfType DEF Reply, TypeOK, Inv, sendVars
<1>3. Drawn(opts)'
  <2>1. \A i, j \in DOMAIN opts' : opts'[i].code = opts'[j].code => i = j
    <3>1. \A i, j \in 1 .. Len(opts') : opts'[i].code = opts'[j].code => i = j
      BY <1>1, CodesDiffer
    <3>. QED BY <1>1, <3>1
  <2>2. \A i \in DOMAIN opts' : \E j \in DOMAIN All' : opts'[i] = All'[j]
    BY <1>1, Zenon
  <2>. QED BY <2>1, <2>2 DEF Drawn
<1>4. Cached'
  BY <1>1, CodesOfType, ServerAssumption DEF Reply, Cached
<1>5. (phase = "filter")' => (req.prl # None)' /\ PlacedInFront' /\ (turn <= Len(Wanted) + 1)'
  <2>. SUFFICES ASSUME (phase = "filter")'
       PROVE  (req.prl # None)' /\ PlacedInFront' /\ (turn <= Len(Wanted) + 1)'
    OBVIOUS
  <2>1. (req.prl # None)'
    BY DEF Reply
  <2>2. (Wanted \in Seq(Code))'
    <3>1. req'.prl \in RequestList
      BY <1>2, <2>1 DEF TypeOK, Request
    <3>. QED BY <3>1, WantedType DEF Wanted
  <2>3. turn' = 1 /\ pos' = 0 /\ 1 .. 0 = {} /\ turn' - 1 = 0
    BY DEF Reply
  <2>4. PlacedInFront'
    BY <2>3 DEF PlacedInFront
  <2>. QED BY <2>1, <2>2, <2>3, <2>4
<1>6. FilterInv'
  <2>1. \A j \in DOMAIN All' : \E i \in DOMAIN opts' : opts'[i] = All'[j]
    BY <1>1, Zenon
  <2>. QED BY <1>3, <1>4, <1>5, <2>1 DEF FilterInv
<1>7. FilterExact'
  BY <1>1 DEF Reply, FilterExact, All
<1>8. WireInBounds'
  BY ServerAssumption DEF Reply, WireInBounds
<1>9. SendInv'
  BY DEF Reply, Inv, SendInv, sendVars
<1>10. EncodeInv'
  <2>1. wire' = << >>
    BY DEF Reply, Inv, EncodeInv
  <2>2. CodesIn(wire)' = CodesIn(<< >>)
    BY <2>1 DEF CodesIn
  <2>3. length' = 240 /\ length' = 240 + Bytes(CodesIn(wire)')
    BY <2>2, BytesOfNone DEF Reply
  <2>4. (Bytes(CodesIn(wire)))' = Bytes(CodesIn(wire)')
    BY DEF Bytes, Cost, Size
  <2>5. Drawn(opts)' /\ Prefix'
    BY <1>1, <1>3, <2>1 DEF Prefix
  <2>6. phase' \in {"filter", "encode"} /\ sent' = << >>
    BY DEF Reply, Inv, SendInv, sendVars
  <2>. QED BY <2>1, <2>3, <2>4, <2>5, <2>6, ServerAssumption DEF EncodeInv, NothingCut
<1>. QED BY <1>2, <1>6, <1>7, <1>8, <1>9, <1>10 DEF Inv

\* The code the filter compares is the option's own, cached or not.
LEMMA CodeRead ==
  Cached /\ TypeOK => \A i \in DOMAIN opts : CodeAt(i) = opts[i].code
BY ServerAssumption DEF Cached, CodeAt, TypeOK

\* No option has the code wanted now: nothing moves.
LEMMA NotFound ==
  ASSUME Inv, Place, UNCHANGED <<opts, codes, pos>>,
         ~ \E i \in (pos + 1) .. Len(opts) : FoundAt(i)
  PROVE  PlacedInFront'
<1>1. phase = "filter" /\ turn <= Len(Wanted) /\ turn' = turn + 1 /\ Wanted' = Wanted
  BY DEF Place, Wanted
<1>2. pos \in Nat /\ turn \in Nat \ {0} /\ opts \in Seq(Option) /\ pos <= Len(opts)
  BY DEF Inv, TypeOK
<1>3. PlacedInFront /\ Drawn(opts) /\ Cached
  BY <1>1 DEF Inv, FilterInv
<1>4. \A i \in DOMAIN opts : CodeAt(i) = opts[i].code
  BY <1>3, CodeRead DEF Inv
<1>5. \A i \in DOMAIN opts : opts[i].code = Wanted[turn] => i <= pos
  <2>. SUFFICES ASSUME NEW i \in DOMAIN opts, opts[i].code = Wanted[turn], ~(i <= pos)
       PROVE  FALSE
    OBVIOUS
  <2>1. i \in (pos + 1) .. Len(opts)
    BY <1>2
  <2>2. \A j \in (pos + 1) .. (i - 1) : j \in DOMAIN opts /\ j # i
    BY <1>2, <2>1
  <2>3. FoundAt(i)
    BY <1>3, <1>4, <2>2 DEF FoundAt, Drawn
  <2>. QED BY <2>1, <2>3
<1>6. \A k \in 1 .. (turn' - 1) : k \in 1 .. (turn - 1) \/ k = turn
  BY <1>1, <1>2
<1>7. \A k \in 1 .. (turn - 1) : k \in 1 .. (turn' - 1)
  BY <1>1, <1>2
<1>8. opts' = opts /\ pos' = pos
  OBVIOUS
<1>9. \A c, d : WantedBefore(c, d)' <=> WantedBefore(c, d)
  BY <1>1 DEF WantedBefore
<1>. QED BY <1>1, <1>3, <1>5, <1>6, <1>7, <1>8, <1>9 DEF PlacedInFront

\* Swapping permutes the options and their cached codes alike.
Swapped(i, j) == IF j = i THEN pos + 1 ELSE IF j = pos + 1 THEN i ELSE j

LEMMA SwapPermutes ==
  ASSUME TypeOK, Cached, NEW i \in (pos + 1) .. Len(opts), Swap(i)
  PROVE  /\ opts' \in Seq(Option) /\ codes' \in Seq(Code)
         /\ Len(opts') = Len(opts) /\ DOMAIN opts' = DOMAIN opts
         /\ \A j \in DOMAIN opts :
              /\ Swapped(i, j) \in DOMAIN opts
              /\ Swapped(i, Swapped(i, j)) = j
              /\ opts'[j] = opts[Swapped(i, j)]
         /\ Cached'
<1>1. /\ pos \in Nat /\ pos + 1 \in DOMAIN opts /\ i \in DOMAIN opts
      /\ opts \in Seq(Option) /\ codes \in Seq(Code) /\ Len(opts) \in Nat
      /\ DOMAIN opts = 1 .. Len(opts)
  BY DEF TypeOK
<1>2. opts' = [opts EXCEPT ![i] = opts[pos + 1], ![pos + 1] = opts[i]]
  BY DEF Swap
<1>3. opts[i] \in Option /\ opts[pos + 1] \in Option
  BY <1>1
<1>4. opts' \in Seq(Option) /\ Len(opts') = Len(opts) /\ DOMAIN opts' = DOMAIN opts
  BY <1>1, <1>2, <1>3
<1>5. \A j \in DOMAIN opts :
        /\ Swapped(i, j) \in DOMAIN opts
        /\ Swapped(i, Swapped(i, j)) = j
        /\ opts'[j] = opts[Swapped(i, j)]
  BY <1>1, <1>2 DEF Swapped
<1>6. CASE Len(opts) > MaxCached
  <2>1. codes' = codes
    BY <1>6 DEF Swap
  <2>2. ~(Len(opts') <= MaxCached)
    BY <1>1, <1>4, <1>6, ServerAssumption
  <2>3. Cached'
    BY <2>2 DEF Cached
  <2>. QED BY <1>1, <1>4, <1>5, <2>1, <2>3
<1>7. CASE ~(Len(opts) > MaxCached)
  <2>1. /\ Len(codes) = Len(opts) /\ \A j \in DOMAIN opts : codes[j] = opts[j].code
        /\ codes' = [codes EXCEPT ![i] = codes[pos + 1], ![pos + 1] = codes[i]]
    BY <1>1, <1>7, ServerAssumption DEF Cached, Swap
  <2>2. codes[i] \in Code /\ codes[pos + 1] \in Code /\ DOMAIN codes = DOMAIN opts
    BY <1>1, <2>1
  <2>3. codes' \in Seq(Code) /\ Len(codes') = Len(codes)
    BY <1>1, <2>1, <2>2
  <2>4. \A j \in DOMAIN opts : codes'[j] = codes[Swapped(i, j)]
    BY <1>1, <2>1, <2>2 DEF Swapped
  <2>5. Cached'
    BY <1>4, <1>5, <2>1, <2>3, <2>4 DEF Cached
  <2>. QED BY <1>4, <1>5, <2>3, <2>5
<1>. QED BY <1>6, <1>7

\* An option has the code wanted now: it is placed behind the others.
LEMMA Found ==
  ASSUME Inv, Place, pos' = pos + 1,
         NEW i \in (pos + 1) .. Len(opts), FoundAt(i), Swap(i)
  PROVE  PlacedInFront' /\ Drawn(opts)'
         /\ (\A j \in DOMAIN All : \E n \in DOMAIN opts : opts[n] = All[j])'
<1>1. phase = "filter" /\ turn <= Len(Wanted) /\ turn' = turn + 1 /\ Wanted' = Wanted
  BY DEF Place, Wanted
<1>2. /\ pos \in Nat /\ turn \in Nat \ {0} /\ opts \in Seq(Option) /\ pos <= Len(opts)
      /\ Len(opts) \in Nat /\ i \in DOMAIN opts /\ DOMAIN opts = 1 .. Len(opts)
  BY DEF Inv, TypeOK
<1>3. PlacedInFront /\ Drawn(opts) /\ Cached
  BY <1>1 DEF Inv, FilterInv
<1>4. opts[i].code = Wanted[turn]
  BY <1>2, <1>3, CodeRead DEF Inv, FoundAt
<1>5. /\ DOMAIN opts' = DOMAIN opts
      /\ \A j \in DOMAIN opts :
           /\ Swapped(i, j) \in DOMAIN opts
           /\ Swapped(i, Swapped(i, j)) = j
           /\ opts'[j] = opts[Swapped(i, j)]
  BY <1>3, SwapPermutes DEF Inv
<1>6. /\ \A j \in 1 .. pos : j \in DOMAIN opts /\ opts'[j] = opts[j]
      /\ pos + 1 \in DOMAIN opts /\ opts'[pos + 1] = opts[i]
  <2>1. \A j \in 1 .. pos : j \in DOMAIN opts /\ Swapped(i, j) = j
    BY <1>2 DEF Swapped
  <2>2. pos + 1 \in DOMAIN opts /\ Swapped(i, pos + 1) = i
    BY <1>2 DEF Swapped
  <2>. QED BY <1>5, <2>1, <2>2
<1>7. \A k \in 1 .. (turn - 1) : Wanted[k] # Wanted[turn]
  <2>. SUFFICES ASSUME NEW k \in 1 .. (turn - 1), Wanted[k] = Wanted[turn]
       PROVE  FALSE
    OBVIOUS
  <2>1. i <= pos
    BY <1>2, <1>3, <1>4 DEF PlacedInFront
  <2>. QED BY <1>2, <2>1
<1>8. \A c, d : WantedBefore(c, d)' <=> WantedBefore(c, d)
  BY <1>1 DEF WantedBefore
<1>9. \A j \in 1 .. pos' : \E k \in 1 .. (turn' - 1) : Wanted[k] = opts'[j].code
  <2>. SUFFICES ASSUME NEW j \in 1 .. pos'
       PROVE  \E k \in 1 .. (turn' - 1) : Wanted[k] = opts'[j].code
    OBVIOUS
  <2>1. CASE j <= pos
    <3>1. j \in 1 .. pos
      BY <1>2, <2>1
    <3>2. PICK k \in 1 .. (turn - 1) : Wanted[k] = opts[j].code
      BY <1>3, <3>1 DEF PlacedInFront
    <3>3. k \in 1 .. (turn' - 1) /\ opts'[j] = opts[j]
      BY <1>1, <1>2, <1>6, <3>1
    <3>. QED BY <3>2, <3>3
  <2>2. CASE j = pos + 1
    <3>1. turn \in 1 .. (turn' - 1)
      BY <1>1, <1>2
    <3>. QED BY <1>4, <1>6, <2>2, <3>1
  <2>. QED BY <1>2, <2>1, <2>2
<1>10. \A a, b \in 1 .. pos' : a < b => WantedBefore(opts'[a].code, opts'[b].code)
  <2>. SUFFICES ASSUME NEW a \in 1 .. pos', NEW b \in 1 .. pos', a < b
       PROVE  WantedBefore(opts'[a].code, opts'[b].code)
    OBVIOUS
  <2>1. a \in 1 .. pos
    BY <1>2
  <2>2. CASE b <= pos
    <3>1. b \in 1 .. pos
      BY <1>2, <2>2
    <3>. QED BY <1>3, <1>6, <2>1, <3>1 DEF PlacedInFront
  <2>3. CASE b = pos + 1
    <3>1. PICK k \in 1 .. (turn - 1) : Wanted[k] = opts[a].code
      BY <1>3, <2>1 DEF PlacedInFront
    <3>2. \A l \in 1 .. k : Wanted[l] # Wanted[turn]
      <4>1. 1 .. k \subseteq 1 .. (turn - 1)
        BY <1>2
      <4>. QED BY <1>7, <4>1
    <3>3. k \in DOMAIN Wanted
      <4>1. Wanted \in Seq(Code)
        BY <1>1, WantedType DEF Inv, FilterInv, TypeOK, Request, Wanted
      <4>. QED BY <1>1, <1>2, <4>1
    <3>. QED BY <1>4, <1>6, <2>1, <2>3, <3>1, <3>2, <3>3 DEF WantedBefore
  <2>. QED BY <1>2, <2>2, <2>3
<1>11. \A k \in 1 .. (turn' - 1), j \in DOMAIN opts' : opts'[j].code = Wanted[k] => j <= pos'
  <2>. SUFFICES ASSUME NEW k \in 1 .. (turn' - 1), NEW j \in DOMAIN opts', opts'[j].code = Wanted[k]
       PROVE  j <= pos'
    OBVIOUS
  <2>1. Swapped(i, j) \in DOMAIN opts /\ opts[Swapped(i, j)].code = Wanted[k] /\ j \in DOMAIN opts
    BY <1>5
  <2>2. CASE k \in 1 .. (turn - 1)
    <3>1. Swapped(i, j) <= pos
      BY <1>3, <2>1, <2>2 DEF PlacedInFront
    <3>. QED BY <1>2, <2>1, <3>1 DEF Swapped
  <2>3. CASE k = turn
    <3>1. Swapped(i, j) = i
      BY <1>2, <1>3, <1>4, <2>1, <2>3 DEF Drawn
    <3>. QED BY <1>2, <2>1, <3>1 DEF Swapped
  <2>. QED BY <1>1, <1>2, <2>2, <2>3
<1>12. PlacedInFront'
  BY <1>1, <1>8, <1>9, <1>10, <1>11 DEF PlacedInFront
<1>13. All' = All
  BY DEF Place, All
<1>14. Drawn(opts)'
  <2>1. \A j \in DOMAIN opts' : \E n \in DOMAIN All : opts'[j] = All[n]
    BY <1>3, <1>5 DEF Drawn
  <2>2. \A a, b \in DOMAIN opts' : opts'[a].code = opts'[b].code => a = b
    <3>. SUFFICES ASSUME NEW a \in DOMAIN opts', NEW b \in DOMAIN opts', opts'[a].code = opts'[b].code
         PROVE  a = b
      OBVIOUS
    <3>1. Swapped(i, a) = Swapped(i, b)
      BY <1>3, <1>5 DEF Drawn
    <3>2. Swapped(i, Swapped(i, a)) = a /\ Swapped(i, Swapped(i, b)) = b
      BY <1>5
    <3>. QED BY <3>1, <3>2
  <2>. QED BY <1>13, <2>1, <2>2 DEF Drawn
<1>15. \A j \in DOMAIN All : \E n \in DOMAIN opts' : opts'[n] = All[j]
  <2>. SUFFICES ASSUME NEW j \in DOMAIN All
       PROVE  \E n \in DOMAIN opts' : opts'[n] = All[j]
    OBVIOUS
  <2>1. PICK n \in DOMAIN opts : opts[n] = All[j]
    BY <1>1 DEF Inv, FilterInv
  <2>2. Swapped(i, n) \in DOMAIN opts'
    BY <1>5
  <2>3. opts'[Swapped(i, n)] = opts[n]
    BY <1>5
  <2>. QED BY <2>1, <2>2, <2>3
<1>. QED BY <1>12, <1>13, <1>14, <1>15

LEMMA PlaceInv ==
  ASSUME Inv, Place
  PROVE  Inv'
<1>1. /\ phase = "filter" /\ phase' = "filter" /\ turn <= Len(Wanted) /\ turn' = turn + 1
      /\ req' = req /\ answer' = answer /\ Wanted' = Wanted /\ All' = All
  BY DEF Place, Wanted, All
<1>2. /\ TypeOK /\ Cached /\ Drawn(opts) /\ req.prl # None
      /\ \A j \in DOMAIN All : \E n \in DOMAIN opts : opts[n] = All[j]
      /\ pos \in Nat /\ turn \in Nat \ {0} /\ opts \in Seq(Option) /\ pos <= Len(opts)
      /\ codes \in Seq(Code) /\ Len(opts) \in Nat
  BY <1>1 DEF Inv, FilterInv, TypeOK
<1>3. /\ opts' \in Seq(Option) /\ codes' \in Seq(Code) /\ pos' \in 0 .. Len(opts')
      /\ Cached' /\ PlacedInFront' /\ Drawn(opts)'
      /\ (\A j \in DOMAIN All : \E n \in DOMAIN opts : opts[n] = All[j])'
  <2>1. CASE \E i \in (pos + 1) .. Len(opts) : FoundAt(i)
    <3>1. PICK i \in (pos + 1) .. Len(opts) : FoundAt(i) /\ Swap(i)
      BY <2>1 DEF Place
    <3>2. pos' = pos + 1
      BY <2>1 DEF Place
    <3>3. opts' \in Seq(Option) /\ codes' \in Seq(Code) /\ Cached' /\ Len(opts') = Len(opts)
      BY <1>2, <3>1, SwapPermutes
    <3>4. pos' \in 0 .. Len(opts')
      BY <1>2, <3>2, <3>3
    <3>. QED BY <3>1, <3>2, <3>3, <3>4, Found
  <2>2. CASE ~ \E i \in (pos + 1) .. Len(opts) : FoundAt(i)
    <3>1. UNCHANGED <<opts, codes, pos>>
      BY <2>2 DEF Place
    <3>2. PlacedInFront'
      BY <2>2, <3>1, NotFound
    <3>3. Cached' /\ Drawn(opts)'
      BY <1>1, <1>2, <3>1 DEF Cached, Drawn
    <3>. QED BY <1>1, <1>2, <3>1, <3>2, <3>3
  <2>. QED BY <2>1, <2>2
<1>4. turn' \in Nat \ {0} /\ turn' <= Len(Wanted') + 1
  <2>1. Wanted \in Seq(Code)
    BY <1>2, WantedType DEF TypeOK, Request, Wanted
  <2>. QED BY <1>1, <1>2, <2>1
<1>5. UNCHANGED <<wire, length, dests, sent, failed>>
  BY DEF Place, encodeVars, sendVars
<1>6. TypeOK'
  BY <1>1, <1>2, <1>3, <1>4, <1>5 DEF TypeOK
<1>7. FilterInv'
  BY <1>1, <1>2, <1>3, <1>4 DEF FilterInv
<1>8. FilterExact' /\ EncodeInv' /\ WireInBounds' /\ SendInv'
  <2>1. (Bytes(CodesIn(wire)))' = Bytes(CodesIn(wire))
    BY <1>5 DEF Bytes, Cost, Size, CodesIn
  <2>. QED BY <1>1, <1>5, <2>1 DEF Inv, FilterExact, EncodeInv, NothingCut, WireInBounds, SendInv
<1>. QED BY <1>6, <1>7, <1>8 DEF Inv

\* Dropping what was not placed leaves exactly the options wanted.
LEMMA TruncateInv ==
  ASSUME Inv, Truncate
  PROVE  Inv'
<1>1. /\ phase = "filter" /\ phase' = "encode" /\ ~(turn <= Len(Wanted))
      /\ req' = req /\ answer' = answer /\ Wanted' = Wanted /\ All' = All
      /\ opts' = SubSeq(opts, 1, pos)
      /\ UNCHANGED <<codes, pos, turn, wire, length, dests, sent, failed>>
  <2>1. req' = req /\ answer' = answer /\ opts' = SubSeq(opts, 1, pos)
    BY DEF Truncate
  <2>2. phase = "filter" /\ phase' = "encode" /\ turn > Len(Wanted)
    BY DEF Truncate
  <2>3. Wanted \in Seq(Code) /\ turn \in Nat
    BY <2>2, WantedType DEF Inv, FilterInv, TypeOK, Request, Wanted
  <2>4. ~(turn <= Len(Wanted))
    BY <2>2, <2>3
  <2>5. Wanted' = Wanted /\ All' = All
    BY <2>1 DEF Wanted, All
  <2>6. UNCHANGED <<codes, pos, turn, wire, length, dests, sent, failed>>
    BY DEF Truncate, encodeVars, sendVars
  <2>. QED BY <2>1, <2>2, <2>4, <2>5, <2>6
<1>2. /\ TypeOK /\ Drawn(opts) /\ PlacedInFront /\ req.prl # None /\ turn <= Len(Wanted) + 1
      /\ \A j \in DOMAIN All : \E n \in DOMAIN opts : opts[n] = All[j]
  BY <1>1 DEF Inv, FilterInv
<1>3. pos \in Nat /\ turn \in Nat \ {0} /\ opts \in Seq(Option) /\ pos <= Len(opts)
  BY <1>2 DEF TypeOK
<1>4. Wanted \in Seq(Code)
  BY <1>2, WantedType DEF TypeOK, Request, Wanted
<1>5. DOMAIN Wanted = 1 .. (turn - 1)
  BY <1>1, <1>2, <1>3, <1>4
<1>6. /\ opts' \in Seq(Option) /\ Len(opts') = pos /\ DOMAIN opts' = 1 .. pos
      /\ \A i \in 1 .. pos : opts'[i] = opts[i] /\ i \in DOMAIN opts
  BY <1>1, <1>3
<1>7. TypeOK'
  BY <1>1, <1>2, <1>3, <1>6 DEF TypeOK
<1>8. Drawn(opts)'
  BY <1>1, <1>2, <1>6 DEF Drawn
<1>9. {opts'[i] : i \in DOMAIN opts'}
        = {All[i] : i \in {j \in DOMAIN All : All[j].code \in CodesWanted}}
  <2>1. ASSUME NEW i \in DOMAIN opts'
        PROVE  \E n \in DOMAIN All : All[n].code \in CodesWanted /\ opts'[i] = All[n]
    <3>1. PICK n \in DOMAIN All : opts[i] = All[n]
      BY <1>2, <1>6 DEF Drawn
    <3>2. PICK k \in 1 .. (turn - 1) : Wanted[k] = opts[i].code
      BY <1>2, <1>6 DEF PlacedInFront
    <3>. QED BY <1>5, <1>6, <3>1, <3>2 DEF CodesWanted
  <2>2. ASSUME NEW n \in DOMAIN All, All[n].code \in CodesWanted
        PROVE  \E i \in DOMAIN opts' : opts'[i] = All[n]
    <3>1. PICK i \in DOMAIN opts : opts[i] = All[n]
      BY <1>2
    <3>2. PICK k \in 1 .. (turn - 1) : Wanted[k] = opts[i].code
      BY <1>5, <2>2, <3>1 DEF CodesWanted
    <3>3. i <= pos
      BY <1>2, <3>2 DEF PlacedInFront
    <3>4. i \in 1 .. pos
      BY <1>3, <3>1, <3>3
    <3>. QED BY <1>6, <3>1, <3>4
  <2>. QED BY <2>1, <2>2
<1>10. \A c, d : WantedBefore(c, d)' <=> WantedBefore(c, d)
  BY <1>1 DEF WantedBefore
<1>11. \A i, j \in DOMAIN opts' : i < j => WantedBefore(opts'[i].code, opts'[j].code)
  BY <1>2, <1>6 DEF PlacedInFront
<1>12. FilterExact'
  <2>1. CodesWanted' = CodesWanted
    BY <1>1 DEF CodesWanted
  <2>. QED BY <1>1, <1>2, <1>9, <1>10, <1>11, <2>1 DEF FilterExact, All
<1>13. FilterInv' /\ WireInBounds' /\ SendInv'
  BY <1>1 DEF Inv, FilterInv, WireInBounds, SendInv
<1>14. EncodeInv'
  <2>1. wire' = << >>
    BY <1>1 DEF Inv, EncodeInv
  <2>2. (Bytes(CodesIn(wire)))' = Bytes(CodesIn(wire))
    BY <1>1 DEF Bytes, Cost, Size, CodesIn
  <2>3. Prefix'
    BY <1>3, <1>6, <2>1 DEF Prefix
  <2>. QED BY <1>1, <1>8, <2>1, <2>2, <2>3 DEF Inv, EncodeInv, NothingCut
<1>. QED BY <1>7, <1>8, <1>12, <1>13, <1>14 DEF Inv

-----------------------------------------------------------------------------
(* Encoding *)

LEMMA CostType == \A S, code : Cost(S, code) \in Nat
BY SizeType DEF Cost

\* One more option costs its size.
LEMMA BytesAdd ==
  ASSUME NEW S, NEW i \in DOMAIN All, All[i].code \notin S
  PROVE  Bytes(S \cup {All[i].code}) = Bytes(S) + All[i].len + 2 /\ Bytes(S) \in Nat
<1> DEFINE c == All[i].code
<1>1. c \in {DHCP_MESSAGE_TYPE, SERVER_IDENTIFIER, MESSAGE, IP_ADDRESS_LEASE_TIME,
             SUBNET_MASK, ROUTER, DOMAIN_NAME_SERVER, NETWORK_TIME_PROTOCOL_SERVERS}
  <2>1. All \in Seq(Option) /\ DOMAIN All = 1 .. Len(All)
    BY OptionsOfReply DEF All
  <2>2. CASE answer.type = "Nak"
    <3>1. i \in 1 .. 3 /\ c = NakCodes[i]
      BY <2>1, <2>2, OptionsOfReply DEF All
    <3>. QED BY <3>1 DEF NakCodes
  <2>3. CASE answer.type # "Nak"
    <3>1. Len(All) \in {6, 7}
      BY <2>3, OptionsOfReply DEF All
    <3>2. i \in 1 .. 7 /\ c = OfferCodes[i]
      BY <2>1, <2>3, <3>1, OptionsOfReply DEF All
    <3>. QED BY <3>2 DEF OfferCodes
  <2>. QED BY <2>2, <2>3
<1>2. All[i].len + 2 = Size(c) /\ All[i].len \in Nat
  <2>1. All \in Seq(Option) /\ i \in 1 .. Len(All)
    BY OptionsOfReply DEF All
  <2>2. All[i] \in Option
    BY <2>1
  <2>. QED BY <2>1, <2>2, OptionsOfReply DEF All, Option
<1>3. \A d : Cost(S \cup {c}, d) = Cost(S, d) + (IF d = c THEN Size(c) ELSE 0)
  BY SizeType DEF Cost
<1>4. Bytes(S) \in Nat
  BY CostType DEF Bytes
<1>5. Bytes(S \cup {c}) = Bytes(S) + Size(c)
  <2>. HIDE DEF c
  <2>. QED BY <1>1, <1>3, CostType, SizeType
       DEF Bytes, DHCP_MESSAGE_TYPE, SERVER_IDENTIFIER, MESSAGE, IP_ADDRESS_LEASE_TIME,
           SUBNET_MASK, ROUTER, DOMAIN_NAME_SERVER, NETWORK_TIME_PROTOCOL_SERVERS
<1>. QED BY <1>2, <1>4, <1>5, SizeType

\* No part of a reply takes more than the whole.
LEMMA BytesBound ==
  ASSUME NEW S, S \subseteq {All[i].code : i \in DOMAIN All}
  PROVE  Bytes(S) <= 31 + 4 * (DnsNum + NtpNum) \/ Bytes(S) <= 37
<1>1. DOMAIN All = 1 .. Len(All)
  BY OptionsOfReply DEF All
<1>2. \A d : Cost(S, d) = 0 \/ (d \in S /\ Cost(S, d) = Size(d))
  BY DEF Cost
<1>3. /\ Size(DHCP_MESSAGE_TYPE) = 3 /\ Size(SERVER_IDENTIFIER) = 6 /\ Size(MESSAGE) = 28
      /\ Size(IP_ADDRESS_LEASE_TIME) = 6 /\ Size(SUBNET_MASK) = 6 /\ Size(ROUTER) = 6
      /\ Size(DOMAIN_NAME_SERVER) = 2 + 4 * DnsNum
      /\ Size(NETWORK_TIME_PROTOCOL_SERVERS) = 2 + 4 * NtpNum
  BY DEF Size, DHCP_MESSAGE_TYPE, SERVER_IDENTIFIER, MESSAGE, IP_ADDRESS_LEASE_TIME,
         SUBNET_MASK, ROUTER, DOMAIN_NAME_SERVER, NETWORK_TIME_PROTOCOL_SERVERS
<1>4. DnsNum \in Nat /\ NtpNum \in Nat
  BY ServerAssumption
<1>5. CASE answer.type = "Nak"
  <2>1. S \subseteq {DHCP_MESSAGE_TYPE, SERVER_IDENTIFIER, MESSAGE}
    <3>1. \A i \in DOMAIN All : i \in 1 .. 3 /\ All[i].code = NakCodes[i]
      BY <1>1, <1>5, OptionsOfReply DEF All
    <3>2. \A i \in 1 .. 3 : NakCodes[i] \in {DHCP_MESSAGE_TYPE, SERVER_IDENTIFIER, MESSAGE}
      BY DEF NakCodes
    <3>. QED BY <3>1, <3>2
  <2>2. /\ IP_ADDRESS_LEASE_TIME \notin S /\ SUBNET_MASK \notin S /\ ROUTER \notin S
        /\ DOMAIN_NAME_SERVER \notin S /\ NETWORK_TIME_PROTOCOL_SERVERS \notin S
    BY <2>1 DEF DHCP_MESSAGE_TYPE, SERVER_IDENTIFIER, MESSAGE, IP_ADDRESS_LEASE_TIME,
         SUBNET_MASK, ROUTER, DOMAIN_NAME_SERVER, NETWORK_TIME_PROTOCOL_SERVERS
  <2>. QED BY <1>2, <1>3, <2>2 DEF Bytes
<1>6. CASE answer.type # "Nak"
  <2>1. MESSAGE \notin S
    <3>1. Len(All) \in {6, 7}
      BY <1>6, OptionsOfReply DEF All
    <3>2. \A i \in DOMAIN All : i \in 1 .. 7 /\ All[i].code = OfferCodes[i]
      BY <1>1, <1>6, <3>1, OptionsOfReply DEF All
    <3>3. \A i \in 1 .. 7 : OfferCodes[i] # MESSAGE
      BY DEF OfferCodes, DHCP_MESSAGE_TYPE, SERVER_IDENTIFIER, MESSAGE, IP_ADDRESS_LEASE_TIME,
         SUBNET_MASK, ROUTER, DOMAIN_NAME_SERVER, NETWORK_TIME_PROTOCOL_SERVERS
    <3>. QED BY <3>2, <3>3
  <2>. QED BY <1>2, <1>3, <1>4, <2>1 DEF Bytes
<1>. QED BY <1>5, <1>6

\* Neither encoding nor sending changes what was filtered.
LEMMA FilterExactStays ==
  ASSUME FilterExact, phase \in {"encode", "send", "done"},
         req' = req, answer' = answer, opts' = opts
  PROVE  FilterExact'
<1>1. Wanted' = Wanted
  BY DEF Wanted
<1>2. CodesWanted' = CodesWanted
  BY <1>1 DEF CodesWanted
<1>3. \A c, d : WantedBefore(c, d)' <=> WantedBefore(c, d)
  BY <1>1 DEF WantedBefore
<1>4. CASE req.prl = None
  BY <1>4 DEF FilterExact
<1>5. CASE req.prl # None
  BY <1>2, <1>3, <1>5 DEF FilterExact
<1>. QED BY <1>4, <1>5

\* The option that is next is one of the reply's, and not on the wire yet.
LEMMA NextIsNew ==
  ASSUME Inv, phase = "encode", Left
  PROVE  /\ NextOption \in Option /\ Len(wire) + 1 \in DOMAIN opts
         /\ Bytes(CodesIn(wire) \cup {NextOption.code}) = length - 240 + 2 + NextOption.len
         /\ CodesIn(wire) \cup {NextOption.code} \subseteq {All[i].code : i \in DOMAIN All}
         /\ length \in Nat
<1>1. /\ opts \in Seq(Option) /\ wire \in Seq(Option) /\ Drawn(opts) /\ Prefix
      /\ length = 240 + Bytes(CodesIn(wire)) /\ length \in Nat
  BY DEF Inv, TypeOK, EncodeInv
<1>2. Len(wire) + 1 \in DOMAIN opts /\ DOMAIN wire = 1 .. Len(wire) /\ NextOption \in Option
  BY <1>1 DEF Left, NextOption
<1>3. \A i \in DOMAIN wire : i \in DOMAIN opts /\ wire[i] = opts[i] /\ i # Len(wire) + 1
  BY <1>1, <1>2 DEF Prefix
<1>4. NextOption.code \notin CodesIn(wire)
  BY <1>1, <1>2, <1>3 DEF CodesIn, Drawn, NextOption
<1>5. PICK n \in DOMAIN All : NextOption = All[n]
  BY <1>1, <1>2 DEF Drawn, NextOption
<1>6. CodesIn(wire) \subseteq {All[i].code : i \in DOMAIN All}
  BY <1>1, <1>3 DEF CodesIn, Drawn
<1>7. Bytes(CodesIn(wire) \cup {All[n].code}) = Bytes(CodesIn(wire)) + All[n].len + 2
      /\ Bytes(CodesIn(wire)) \in Nat
  BY <1>4, <1>5, BytesAdd
<1>8. NextOption.len \in Nat
  BY <1>2 DEF Option
<1>9. Bytes(CodesIn(wire) \cup {NextOption.code}) = length - 240 + 2 + NextOption.len
  BY <1>1, <1>5, <1>7, <1>8
<1>. QED BY <1>1, <1>2, <1>5, <1>6, <1>9

LEMMA WriteOptionInv ==
  ASSUME Inv, WriteOption
  PROVE  Inv'
<1>1. /\ phase = "encode" /\ phase' = "encode" /\ Left /\ length + 2 + NextOption.len < WIRE_MAX
      /\ wire' = Append(wire, NextOption) /\ length' = length + 2 + NextOption.len
      /\ req' = req /\ answer' = answer
      /\ UNCHANGED <<opts, codes, pos, turn, dests, sent, failed>>
  BY DEF WriteOption, Fits, filterVars, sendVars
<1>2. /\ TypeOK /\ opts \in Seq(Option) /\ wire \in Seq(Option) /\ Drawn(opts) /\ Prefix
      /\ sent = << >>
  BY <1>1 DEF Inv, TypeOK, EncodeInv
<1>3. /\ NextOption \in Option /\ Len(wire) + 1 \in DOMAIN opts /\ length \in Nat
      /\ Bytes(CodesIn(wire) \cup {NextOption.code}) = length - 240 + 2 + NextOption.len
  BY <1>1, NextIsNew
<1>4. NextOption.len \in Nat
  BY <1>3 DEF Option
<1>5. /\ wire' \in Seq(Option) /\ Len(wire') = Len(wire) + 1 /\ DOMAIN wire' = 1 .. Len(wire) + 1
      /\ \A i \in 1 .. Len(wire) : wire'[i] = wire[i]
      /\ wire'[Len(wire) + 1] = NextOption /\ DOMAIN wire = 1 .. Len(wire) /\ Len(wire) \in Nat
  BY <1>1, <1>2, <1>3
<1>6. TypeOK'
  <2>1. length' \in Nat
    BY <1>1, <1>3, <1>4
  <2>. QED BY <1>1, <1>2, <1>5, <2>1 DEF TypeOK
<1>7. Prefix'
  <2>1. ASSUME NEW i \in DOMAIN wire' PROVE wire'[i] = opts[i]
    <3>1. CASE i \in 1 .. Len(wire)
      BY <1>2, <1>5, <3>1 DEF Prefix
    <3>2. CASE i = Len(wire) + 1
      BY <1>5, <3>2 DEF NextOption
    <3>. QED BY <1>5, <2>1, <3>1, <3>2
  <2>. QED BY <1>1, <1>2, <1>3, <1>5, <2>1 DEF Prefix
<1>8. CodesIn(wire)' = CodesIn(wire) \cup {NextOption.code}
  <2>1. \A i \in DOMAIN wire' : i \in DOMAIN wire \/ i = Len(wire) + 1
    BY <1>5
  <2>2. \A i \in DOMAIN wire : i \in DOMAIN wire'
    BY <1>5
  <2>3. Len(wire) + 1 \in DOMAIN wire'
    BY <1>5
  <2>. QED BY <1>5, <2>1, <2>2, <2>3 DEF CodesIn
<1>9. (Bytes(CodesIn(wire)))' = Bytes(CodesIn(wire) \cup {NextOption.code})
  BY <1>8 DEF Bytes, Cost, Size
<1>10. length' = 240 + (Bytes(CodesIn(wire)))' /\ length' < WIRE_MAX
  BY <1>1, <1>3, <1>4, <1>9
<1>11. Drawn(opts)'
  BY <1>1, <1>2 DEF Drawn, All
<1>12. FilterInv' /\ SendInv' /\ FilterExact' /\ WireInBounds'
  <2>1. FilterExact'
    BY <1>1, FilterExactStays DEF Inv
  <2>2. WireInBounds'
    BY <1>6, <1>10, ServerAssumption DEF WireInBounds, TypeOK
  <2>. QED BY <1>1, <2>1, <2>2 DEF FilterInv, SendInv
<1>13. EncodeInv'
  BY <1>1, <1>2, <1>7, <1>10, <1>11 DEF EncodeInv, NothingCut
<1>. QED BY <1>6, <1>12, <1>13 DEF Inv

LEMMA WriteEndInv ==
  ASSUME Inv, WriteEnd
  PROVE  Inv'
<1>1. /\ phase = "encode" /\ phase' = "send" /\ (Left => ~(length + 2 + NextOption.len < WIRE_MAX))
      /\ length' = length + 1 /\ dests' = Destinations /\ req' = req /\ answer' = answer
      /\ UNCHANGED <<opts, codes, pos, turn, wire, sent, failed>>
  BY DEF WriteEnd, Fits, filterVars
<1>2. /\ TypeOK /\ opts \in Seq(Option) /\ wire \in Seq(Option) /\ Drawn(opts) /\ Prefix
      /\ sent = << >> /\ length < WIRE_MAX /\ length \in Nat
  BY <1>1 DEF Inv, TypeOK, EncodeInv
<1>3. Destinations \in Seq(Address) /\ Destinations' = Destinations
  BY <1>1, <1>2, DestinationsLogged DEF Destinations, RouteDests
<1>4. TypeOK'
  BY <1>1, <1>2, <1>3 DEF TypeOK
<1>5. BufferSuffices => wire = opts
  <2>. SUFFICES ASSUME BufferSuffices PROVE wire = opts
    OBVIOUS
  <2>1. ~Left
    <3>. SUFFICES ASSUME Left PROVE FALSE
      OBVIOUS
    <3> DEFINE S == CodesIn(wire) \cup {NextOption.code}
    <3>1. NextOption.len \in Nat /\ Bytes(S) = length - 240 + 2 + NextOption.len
      BY <1>1, NextIsNew DEF Option
    <3>2. Bytes(S) <= 31 + 4 * (DnsNum + NtpNum) \/ Bytes(S) <= 37
      BY <1>1, NextIsNew, BytesBound
    <3>3. length + 2 + NextOption.len = 240 + Bytes(S)
      <4>. HIDE DEF S
      <4>. QED BY <1>2, <3>1
    <3>. HIDE DEF S
    <3>. QED BY <1>1, <1>2, <3>1, <3>2, <3>3, ServerAssumption DEF BufferSuffices
  <2>2. Len(wire) = Len(opts)
    BY <1>2, <2>1 DEF Left, Prefix
  <2>. QED BY <1>2, <2>2 DEF Prefix
<1>6. Drawn(opts)' /\ Prefix'
  BY <1>1, <1>2 DEF Drawn, All, Prefix
<1>7. EncodeInv'
  <2>1. BufferSuffices' = BufferSuffices
    BY DEF BufferSuffices
  <2>2. BufferSuffices => NothingCut'
    BY <1>1, <1>5 DEF NothingCut
  <2>. QED BY <1>1, <1>6, <2>1, <2>2 DEF EncodeInv
<1>8. WireInBounds'
  BY <1>1, <1>2, ServerAssumption DEF WireInBounds
<1>9. FilterExact'
  BY <1>1, FilterExactStays DEF Inv
<1>10. SendInv'
  <2>1. Len(sent') = 0 /\ DOMAIN sent' = {}
    BY <1>1, <1>2
  <2>2. \A i \in DOMAIN dests' : dests'[i] = Destinations[0 + i]
    BY <1>1, <1>3
  <2>3. 0 + Len(dests') = Len(Destinations)
    BY <1>1, <1>3
  <2>. QED BY <1>1, <1>3, <2>1, <2>2, <2>3 DEF SendInv
<1>11. FilterInv'
  BY <1>1 DEF FilterInv
<1>. QED BY <1>4, <1>7, <1>8, <1>9, <1>10, <1>11 DEF Inv

-----------------------------------------------------------------------------
(* Sending *)

LEMMA SendToInv ==
  ASSUME Inv, NEW ok \in BOOLEAN, SendTo(ok)
  PROVE  Inv'
<1>1. /\ phase = "send" /\ dests # << >> /\ failed' = ~ok
      /\ sent' = (IF ok THEN Append(sent, Head(dests)) ELSE sent)
      /\ dests' = (IF ok THEN Tail(dests) ELSE dests)
      /\ phase' = (IF ok THEN "send" ELSE "done")
      /\ req' = req /\ answer' = answer
      /\ UNCHANGED <<opts, codes, pos, turn, wire, length>>
  BY DEF SendTo, filterVars, encodeVars
<1>2. /\ TypeOK /\ dests \in Seq(Address) /\ sent \in Seq(Address)
      /\ Drawn(opts) /\ Prefix /\ (BufferSuffices => wire = opts)
      /\ Len(sent) + Len(dests) = Len(Destinations)
      /\ \A i \in DOMAIN sent : sent[i] = Destinations[i]
      /\ \A i \in DOMAIN dests : dests[i] = Destinations[Len(sent) + i]
  BY <1>1 DEF Inv, TypeOK, EncodeInv, NothingCut, SendInv
<1>3. Destinations' = Destinations
  BY <1>1 DEF Destinations, RouteDests
<1>4. /\ Head(dests) \in Address /\ Head(dests) = dests[1] /\ 1 \in DOMAIN dests
      /\ Tail(dests) \in Seq(Address) /\ Len(Tail(dests)) = Len(dests) - 1
      /\ \A i \in 1 .. (Len(dests) - 1) : Tail(dests)[i] = dests[i + 1]
      /\ Len(dests) \in Nat /\ Len(sent) \in Nat
      /\ DOMAIN dests = 1 .. Len(dests) /\ DOMAIN sent = 1 .. Len(sent)
  BY <1>1, <1>2
<1>5. TypeOK'
  <2>1. sent' \in Seq(Address) /\ dests' \in Seq(Address)
    BY <1>1, <1>2, <1>4
  <2>2. phase' \in {"idle", "filter", "encode", "send", "done"} /\ failed' \in BOOLEAN
    BY <1>1
  <2>. QED BY <1>1, <1>2, <2>1, <2>2 DEF TypeOK
<1>6. SendInv'
  <2>1. CASE ok
    <3>1. sent' = Append(sent, Head(dests)) /\ dests' = Tail(dests) /\ phase' = "send"
      BY <1>1, <2>1
    <3>2. /\ Len(sent') = Len(sent) + 1 /\ DOMAIN sent' = 1 .. Len(sent) + 1
          /\ \A i \in 1 .. Len(sent) : sent'[i] = sent[i]
          /\ sent'[Len(sent) + 1] = Head(dests)
      BY <1>2, <1>4, <3>1
    <3>3. Len(sent') + Len(dests') = Len(Destinations)
      BY <1>2, <1>4, <3>1, <3>2
    <3>4. ASSUME NEW i \in DOMAIN sent' PROVE sent'[i] = Destinations[i]
      <4>1. Head(dests) = Destinations[Len(sent) + 1]
        BY <1>2, <1>4
      <4>2. CASE i \in 1 .. Len(sent)
        BY <1>2, <1>4, <3>2, <4>2
      <4>3. CASE i = Len(sent) + 1
        BY <3>2, <4>1, <4>3
      <4>. QED BY <3>2, <3>4, <4>2, <4>3
    <3>5. ASSUME NEW i \in DOMAIN dests' PROVE dests'[i] = Destinations[Len(sent') + i]
      <4>1. i \in 1 .. (Len(dests) - 1) /\ i + 1 \in DOMAIN dests
        BY <1>4, <3>1, <3>5
      <4>2. dests'[i] = dests[i + 1]
        BY <1>4, <3>1, <4>1
      <4>3. dests[i + 1] = Destinations[Len(sent) + (i + 1)]
        BY <1>2, <4>1
      <4>4. Len(sent) + (i + 1) = Len(sent') + i
        BY <1>4, <3>2, <4>1
      <4>. QED BY <4>2, <4>3, <4>4
    <3>. QED BY <1>3, <3>1, <3>3, <3>4, <3>5 DEF SendInv
  <2>2. CASE ~ok
    <3>1. sent' = sent /\ dests' = dests /\ phase' = "done" /\ failed'
      BY <1>1, <2>2
    <3>. QED BY <1>2, <1>3, <3>1 DEF SendInv
  <2>. QED BY <2>1, <2>2
<1>7. phase' \in {"send", "done"}
  BY <1>1
<1>8. FilterExact'
  BY <1>1, FilterExactStays DEF Inv
<1>9. EncodeInv'
  <2>1. Drawn(opts)' /\ Prefix' /\ BufferSuffices' = BufferSuffices
    BY <1>1, <1>2 DEF Drawn, All, Prefix, BufferSuffices
  <2>2. BufferSuffices => NothingCut'
    BY <1>1, <1>2 DEF NothingCut
  <2>. QED BY <1>7, <2>1, <2>2 DEF EncodeInv
<1>10. WireInBounds' /\ FilterInv'
  BY <1>1, <1>7 DEF Inv, WireInBounds, FilterInv
<1>. QED BY <1>5, <1>6, <1>8, <1>9, <1>10 DEF Inv

LEMMA SentInv ==
  ASSUME Inv, Sent
  PROVE  Inv'
<1>1. /\ phase = "send" /\ phase' = "done" /\ dests = << >>
      /\ req' = req /\ answer' = answer
      /\ UNCHANGED <<opts, codes, pos, turn, wire, length, dests, sent, failed>>
  BY DEF Sent, filterVars, encodeVars, sendVars
<1>2. TypeOK'
  BY <1>1 DEF Inv, TypeOK
<1>3. FilterExact'
  BY <1>1, FilterExactStays DEF Inv
<1>4. SendInv'
  <2>1. Destinations' = Destinations
    BY <1>1 DEF Destinations, RouteDests
  <2>. QED BY <1>1, <2>1 DEF Inv, SendInv
<1>5. EncodeInv'
  <2>1. Drawn(opts)' /\ Prefix' /\ BufferSuffices' = BufferSuffices
    BY <1>1 DEF Inv, EncodeInv, Drawn, All, Prefix, BufferSuffices
  <2>2. BufferSuffices => NothingCut'
    BY <1>1 DEF Inv, EncodeInv, NothingCut
  <2>. QED BY <1>1, <2>1, <2>2 DEF EncodeInv
<1>6. WireInBounds' /\ FilterInv'
  BY <1>1 DEF Inv, WireInBounds, FilterInv
<1>. QED BY <1>2, <1>3, <1>4, <1>5, <1>6 DEF Inv

LEMMA ReturnInv ==
  ASSUME Inv, Return
  PROVE  Inv'
<1>1. /\ phase' = "idle" /\ req' = Blank.req /\ answer' = Blank.answer
      /\ opts' = << >> /\ codes' = << >> /\ pos' = 0 /\ turn' = 1 /\ wire' = << >>
      /\ length' = 0 /\ dests' = << >> /\ sent' = << >> /\ failed' = FALSE
  BY DEF Return
<1>2. TypeOK'
  <2>1. req' \in Request /\ answer' \in Answer
    BY <1>1, BlankType
  <2>2. /\ << >> \in Seq(Option) /\ << >> \in Seq(Code) /\ << >> \in Seq(Address)
        /\ Len(<< >>) = 0
    OBVIOUS
  <2>3. pos' \in 0 .. Len(opts') /\ turn' \in Nat \ {0} /\ length' \in Nat
    BY <1>1, <2>2
  <2>. QED BY <1>1, <2>1, <2>2, <2>3 DEF TypeOK
<1>. QED BY <1>1, <1>2, ServerAssumption
     DEF Inv, FilterInv, FilterExact, EncodeInv, NothingCut, WireInBounds, SendInv

-----------------------------------------------------------------------------
(* The theorems *)

LEMMA StepInv == Inv /\ [Next]_vars => Inv'
<1>. SUFFICES ASSUME Inv, [Next]_vars PROVE Inv'
  OBVIOUS
<1>1. CASE Reply
  BY <1>1, ReplyInv
<1>2. CASE Place
  BY <1>2, PlaceInv
<1>3. CASE Truncate
  BY <1>3, TruncateInv
<1>4. CASE WriteOption
  BY <1>4, WriteOptionInv
<1>5. CASE WriteEnd
  BY <1>5, WriteEndInv
<1>6. CASE \E ok \in BOOLEAN : SendTo(ok)
  BY <1>6, SendToInv
<1>7. CASE Sent
  BY <1>7, SentInv
<1>8. CASE Return
  BY <1>8, ReturnInv
<1>9. CASE UNCHANGED vars
  <2>1. UNCHANGED <<phase, req, answer, opts, codes, pos, turn, wire, length, dests, sent, failed>>
    BY <1>9 DEF vars, filterVars, encodeVars, sendVars
  <2>2. TypeOK'
    BY <2>1 DEF Inv, TypeOK
  <2>3. FilterInv' /\ FilterExact'
    <3>1. /\ Wanted' = Wanted /\ CodesWanted' = CodesWanted /\ All' = All
          /\ \A c, d : WantedBefore(c, d)' <=> WantedBefore(c, d)
      BY <2>1 DEF All, CodesWanted, WantedBefore, Wanted
    <3>2. Drawn(opts)' = Drawn(opts) /\ Cached' = Cached
      BY <2>1 DEF Drawn, All, Cached
    <3>3. PlacedInFront => PlacedInFront'
      BY <2>1, <3>1 DEF PlacedInFront
    <3>4. FilterInv'
      BY <2>1, <3>1, <3>2, <3>3 DEF Inv, FilterInv
    <3>5. FilterExact'
      <4>1. CASE phase \in {"encode", "send", "done"}
        BY <2>1, <4>1, FilterExactStays DEF Inv
      <4>2. CASE phase \notin {"encode", "send", "done"}
        BY <2>1, <4>2 DEF FilterExact
      <4>. QED BY <4>1, <4>2
    <3>. QED BY <3>4, <3>5
  <2>4. EncodeInv'
    BY <2>1 DEF Inv, EncodeInv, NothingCut, Drawn, All, Prefix, BufferSuffices, Bytes, Cost, Size,
                CodesIn
  <2>5. WireInBounds' /\ SendInv'
    BY <2>1 DEF Inv, WireInBounds, SendInv, Destinations, RouteDests
  <2>. QED BY <2>2, <2>3, <2>4, <2>5 DEF Inv
<1>. QED BY <1>1, <1>2, <1>3, <1>4, <1>5, <1>6, <1>7, <1>8, <1>9 DEF Next, Work

LEMMA Invariance == Spec => []Inv
BY InitInv, StepInv, PTL DEF Spec

\* TypeOK: every variable of the reply path keeps its type.
THEOREM ReplyTypes == Spec => []TypeOK
BY Invariance, PTL DEF Inv

\* FilterExact: whatever the request lists, twice or not at all, the reply holds
\* those of its options that are requested or mandatory, each once, in the order
\* wanted - by the cached codes and by the options' own alike.
THEOREM FilterCorrect == Spec => []FilterExact
BY Invariance, PTL DEF Inv

\* WireInBounds: encoding never writes past its buffer, however many servers the
\* configuration names.
THEOREM BufferRespected == Spec => []WireInBounds
BY Invariance, PTL DEF Inv

\* NothingCut: a configuration whose options fit the buffer is never cut.
THEOREM RepliesWhole == BufferSuffices => (Spec => []NothingCut)
<1>. SUFFICES ASSUME BufferSuffices PROVE Spec => []NothingCut
  OBVIOUS
<1>1. Inv => NothingCut
  BY DEF Inv, EncodeInv
<1>. QED BY <1>1, Invariance, PTL

\* For the buffer of 300 bytes: up to seven DNS and NTP servers together.
COROLLARY SevenServers == WIRE_MAX = 300 /\ DnsNum + NtpNum <= 7 => (Spec => []NothingCut)
BY RepliesWhole, ServerAssumption DEF BufferSuffices

\* Such a configuration's replies all carry DHCP_MESSAGE_TYPE and
\* SERVER_IDENTIFIER, as reply()'s comment promises of every reply.
THEOREM MandatoryKept == BufferSuffices => (Spec => []MandatoryOnWire)
<1>. SUFFICES ASSUME BufferSuffices PROVE Spec => []MandatoryOnWire
  OBVIOUS
<1>1. ASSUME Inv PROVE MandatoryOnWire
  <2>. SUFFICES ASSUME phase = "send", NEW c \in {DHCP_MESSAGE_TYPE, SERVER_IDENTIFIER}
       PROVE  c \in CodesIn(wire)
    BY DEF MandatoryOnWire
  <2>1. wire = opts /\ FilterExact /\ TypeOK
    BY <1>1 DEF Inv, EncodeInv, NothingCut
  <2>2. PICK n \in DOMAIN All : All[n].code = c
    <3>1. /\ Len(All) \in {3, 6, 7} /\ DOMAIN All = 1 .. Len(All)
          /\ All[1].code = DHCP_MESSAGE_TYPE /\ All[2].code = SERVER_IDENTIFIER
      <4>1. DOMAIN All = 1 .. Len(All)
        BY OptionsOfReply DEF All
      <4>2. CASE answer.type = "Nak"
        BY <4>1, <4>2, OptionsOfReply DEF All, NakCodes
      <4>3. CASE answer.type # "Nak"
        BY <4>1, <4>3, OptionsOfReply DEF All, OfferCodes
      <4>. QED BY <4>2, <4>3
    <3>. QED BY <3>1
  <2>3. CASE req.prl = None
    BY <2>1, <2>2, <2>3 DEF FilterExact, All, CodesIn
  <2>4. CASE req.prl # None
    <3>1. c \in CodesWanted
      <4>1. req.prl \in Seq(Code)
        BY <2>1, <2>4, ServerAssumption DEF TypeOK, Request
      <4>2. /\ Wanted[Len(req.prl) + 1] = DHCP_MESSAGE_TYPE /\ Len(req.prl) + 1 \in DOMAIN Wanted
            /\ Wanted[Len(req.prl) + 2] = SERVER_IDENTIFIER /\ Len(req.prl) + 2 \in DOMAIN Wanted
        BY <4>1 DEF Wanted, H
      <4>. QED BY <4>2 DEF CodesWanted
    <3>2. \E i \in DOMAIN opts : opts[i] = All[n]
      BY <2>1, <2>2, <2>4, <3>1 DEF FilterExact, All
    <3>. QED BY <2>1, <2>2, <3>2 DEF CodesIn
  <2>. QED BY <2>3, <2>4
<1>. QED BY <1>1, Invariance, PTL

\* SentAsLogged: the destinations the log names, in order, and none other.
THEOREM RepliesGoAsLogged == Spec => []SentAsLogged
<1>1. ASSUME Inv PROVE SentAsLogged
  <2> DEFINE logged == RouteDests(req.src, req.broadcast, answer.yiaddr)
  <2>1. /\ Destinations = logged /\ logged \in Seq(Address)
        /\ sent \in Seq(Address) /\ dests \in Seq(Address)
    BY <1>1, DestinationsLogged DEF Inv, TypeOK
  <2>. HIDE DEF logged
  <2>2. CASE phase \in {"send", "done"}
    <3>1. /\ Len(sent) + Len(dests) = Len(logged) /\ \A i \in DOMAIN sent : sent[i] = logged[i]
          /\ (phase = "done" /\ ~failed => dests = << >>)
      BY <1>1, <2>1, <2>2 DEF Inv, SendInv
    <3>2. Len(sent) <= Len(logged)
      BY <2>1, <3>1
    <3>3. sent = SubSeq(logged, 1, Len(sent))
      BY <2>1, <3>1, <3>2
    <3>4. phase = "done" /\ ~failed => sent = logged
      BY <2>1, <3>1
    <3>. QED BY <3>2, <3>3, <3>4 DEF SentAsLogged, logged
  <2>3. CASE phase \in {"idle", "filter", "encode"}
    <3>1. sent = << >> /\ phase # "done"
      BY <1>1, <2>3 DEF Inv, EncodeInv, SendInv
    <3>2. sent = SubSeq(logged, 1, Len(sent)) /\ Len(sent) <= Len(logged)
      BY <2>1, <3>1
    <3>. QED BY <3>1, <3>2 DEF SentAsLogged, logged
  <2>. QED BY <1>1, <2>2, <2>3 DEF Inv, TypeOK
<1>. QED BY <1>1, Invariance, PTL

\* NeverToNowhere: 0.0.0.0 is sent to only if the configuration says so.
THEOREM NoReplyToNowhere == Spec => []NeverToNowhere
<1>1. ASSUME Inv PROVE NeverToNowhere
  <2>. SUFFICES ASSUME NEW i \in DOMAIN sent, sent[i] = Unspecified
       PROVE  \E j \in DOMAIN Broadcasts : Broadcasts[j] = Unspecified
    BY DEF NeverToNowhere
  <2>1. sent \in Seq(Address) /\ dests \in Seq(Address) /\ Destinations \in Seq(Address)
    BY <1>1, DestinationsLogged DEF Inv, TypeOK
  <2>2. phase \in {"send", "done"}
    BY <1>1 DEF Inv, TypeOK, EncodeInv, SendInv
  <2>3. Destinations[i] = Unspecified /\ i \in 1 .. Len(Destinations)
    BY <1>1, <2>1, <2>2 DEF Inv, SendInv
  <2>4. CASE ~req.broadcast /\ req.src # Unspecified
    <3>1. Destinations = <<req.src>>
      BY <2>4 DEF Destinations
    <3>2. i = 1 /\ Destinations[1] = req.src
      BY <2>3, <3>1
    <3>. QED BY <2>3, <2>4, <3>2
  <2>5. CASE req.broadcast \/ req.src = Unspecified
    <3> DEFINE copy == IF ~req.broadcast /\ answer.yiaddr # Unspecified
                         THEN <<answer.yiaddr>> ELSE << >>
    <3>1. Destinations = Broadcasts \o copy
      BY <2>5 DEF Destinations, RouteDests
    <3>2. \A k \in 1 .. Len(copy) : copy[k] # Unspecified
      OBVIOUS
    <3>3. answer.yiaddr \in Address
      BY <1>1, ServerAssumption DEF Inv, TypeOK, Answer, Nak
    <3>4. copy \in Seq(Address)
      BY <3>3
    <3>. HIDE DEF copy
    <3>. QED BY <2>3, <3>1, <3>2, <3>4, ServerAssumption
  <2>. QED BY <2>4, <2>5
<1>. QED BY <1>1, Invariance, PTL
=============================================================================
