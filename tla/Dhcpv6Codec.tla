---------------------------- MODULE Dhcpv6Codec -----------------------------
(***************************************************************************)
(* A DHCPv6 message on the wire and back (Packet::encode, Packet::from and *)
(* decode_option in src/src/dhcpv6.rs), one option per step.  Reading is   *)
(* all or nothing: one option that is torn or malformed and the message is *)
(* dropped, whatever came before it.                                       *)
(*                                                                         *)
(* Numbers that are only copied (the IAID, T1, T2 and the lifetimes) stay  *)
(* the big-endian bytes they are on the wire.                              *)
(***************************************************************************)
EXTENDS Integers, Sequences, SequencesExt, Dhcpv6Options

CONSTANTS
  Sendable,   \* the messages a sender may mean; of each option, how it is
              \* written and what it means, which is Torn if it means nothing
  MaxPayload, \* 16#FFFF, the largest payload a 16-bit length can state
  Text        \* the byte strings that are UTF-8

OPT_CLIENTID == 1
OPT_SERVERID == 2
OPT_IA_NA == 3
OPT_IAADDR == 5
OPT_STATUS_CODE == 13
OPT_DNS_SERVERS == 23

Byte == 0 .. 255

\* MsgType::from
MsgType == 1 .. 13

\* u16::MAX
U16Max == 256 * 256 - 1

Bytes(n) == {s \in Seq(Byte) : Len(s) = n}

\* What Rust's types make sure of: Dhcpv6Option, every field in its width.
IsOption(o) ==
  /\ o \in [kind : {"ClientId", "ServerId"}, data : Seq(Byte)]
         \cup [kind : {"Unrecognized"}, code : 0 .. U16Max, data : Seq(Byte)]
         \cup [kind : {"StatusCode"}, status : 0 .. U16Max, message : Seq(Byte)]
         \cup [kind : {"DnsServers"}, addrs : Seq(Bytes(16))]
         \cup [kind : {"IaNa"}, fixed : Bytes(12),
                addrs : Seq([addr : Bytes(16), lifetimes : Bytes(8)])]
  /\ o.kind = "StatusCode" => o.message \in Text

\* And Packet, with a u32 for its transaction id.
ASSUME SendableAssumption ==
  /\ MaxPayload \in 0 .. U16Max
  /\ \A m \in Sendable :
       /\ DOMAIN m = {"msg_type", "transaction_id", "options"}
       /\ m.msg_type \in Byte /\ m.transaction_id \in Nat
       /\ Len(m.options) \in Nat /\ DOMAIN m.options = 1 .. Len(m.options)
       /\ \A i \in DOMAIN m.options : IsOption(m.options[i].written)

VARIABLES
  message, \* what the sender meant: its type, transaction id and options
  input,   \* the bytes that arrived
  status,  \* "writing", "unsent", "header", "options", "decoded", "refused"
  pos,     \* how many of them are consumed
  options  \* the options decoded so far

vars == <<message, input, status, pos, options>>

-----------------------------------------------------------------------------
(* What the encoder makes of an option (see Dhcpv6Options) *)

CodeOf(o) ==
  CASE o.kind = "ClientId" -> OPT_CLIENTID
    [] o.kind = "ServerId" -> OPT_SERVERID
    [] o.kind = "IaNa" -> OPT_IA_NA
    [] o.kind = "DnsServers" -> OPT_DNS_SERVERS
    [] o.kind = "StatusCode" -> OPT_STATUS_CODE
    [] o.kind = "Unrecognized" -> o.code

\* wire_len, less the four bytes in front of the payload.
PayloadLen(o) ==
  CASE o.kind \in {"ClientId", "ServerId", "Unrecognized"} -> Len(o.data)
    [] o.kind = "DnsServers" -> Len(o.addrs) * 16
    [] o.kind = "StatusCode" -> 2 + Len(o.message)
    [] o.kind = "IaNa" -> 12 + Len(o.addrs) * 28

U16(n) == <<(n \div 256) % 256, n % 256>>

AddressOption(a) == U16(OPT_IAADDR) \o U16(24) \o a.addr \o a.lifetimes

Payload(o) ==
  CASE o.kind \in {"ClientId", "ServerId", "Unrecognized"} -> o.data
    [] o.kind = "DnsServers" -> FlattenSeq(o.addrs)
    [] o.kind = "StatusCode" -> U16(o.status) \o o.message
    [] o.kind = "IaNa" ->
         o.fixed \o FlattenSeq([i \in DOMAIN o.addrs |-> AddressOption(o.addrs[i])])

-----------------------------------------------------------------------------
(* Writing *)

TooLarge(o) == PayloadLen(o) > MaxPayload

\* encode_into.  The length is the low 16 bits of the payload's.
Encoded(o) == U16(CodeOf(o)) \o U16(PayloadLen(o) % (MaxPayload + 1)) \o Payload(o)

\* The low 24 bits.
TransactionBytes(tid) == Append(U16(tid \div 256), tid % 256)

\* Packet::encode
Written(m) ==
  <<m.msg_type>> \o TransactionBytes(m.transaction_id)
    \o FlattenSeq([i \in DOMAIN m.options |-> Encoded(m.options[i].written)])

Init ==
  /\ message \in Sendable
  /\ input = <<>> /\ status = "writing" /\ pos = 0 /\ options = <<>>

\* One option that is too large, and the whole message is not sent.
Refuse ==
  /\ status = "writing"
  /\ \E i \in DOMAIN message.options : TooLarge(message.options[i].written)
  /\ status' = "unsent"
  /\ UNCHANGED <<message, input, pos, options>>

\* The message is written, and as much of it arrives as was carried and as the
\* buffer of the receive loop holds.
Arrive ==
  /\ status = "writing"
  /\ \A i \in DOMAIN message.options : ~TooLarge(message.options[i].written)
  /\ \E length \in 0 .. Len(Written(message)) :
       input' = SubSeq(Written(message), 1, length)
  /\ status' = "header"
  /\ UNCHANGED <<message, pos, options>>

-----------------------------------------------------------------------------
(* Reading *)

\* The 16-bit number behind the first p bytes.
U16At(bytes, p) == bytes[p + 1] * 256 + bytes[p + 2]

LengthAt(bytes, p) == U16At(bytes, p + 2)

\* Faulty: a payload that ends with the bytes is taken for a torn one.
FaultyFramedAt(bytes, p) == Len(bytes) - p >= 4 /\ Len(bytes) - p - 4 > LengthAt(bytes, p)

\* Behind p bytes there is a code, a length, and as much as the length says.
FramedAt(bytes, p) == Len(bytes) - p >= 4 /\ Len(bytes) - p - 4 >= LengthAt(bytes, p)

BodyAt(bytes, p) == SubSeq(bytes, p + 5, p + 4 + LengthAt(bytes, p))
Behind(bytes, p) == p + 4 + LengthAt(bytes, p)

IsAddress(data, p) == U16At(data, p) = OPT_IAADDR
TooShort(data, p) == IsAddress(data, p) /\ LengthAt(data, p) < 24

\* The address and its lifetimes; what is behind them is ignored.
AddressIn(body) == IaAddr(SubSeq(body, 1, 16), SubSeq(body, 17, 24))

\* Faulty: what follows the last sub-option that can be framed is ignored.
FaultyAddresses(data) ==
  LET from[p \in 12 .. Len(data)] ==
        IF p = Len(data) \/ ~FramedAt(data, p) THEN <<>>
        ELSE IF TooShort(data, p) THEN <<Torn>>
        ELSE IF IsAddress(data, p) THEN <<AddressIn(BodyAt(data, p))>> \o from[Behind(data, p)]
        ELSE from[Behind(data, p)]
  IN  from[12]

\* The addresses among the sub-options of an IA_NA, which follow its twelve
\* fixed bytes; other sub-options are skipped.  One that cannot be framed, or
\* an address without room for its body, ends them with Torn.
Addresses(data) ==
  LET from[p \in 12 .. Len(data)] ==
        IF p = Len(data) THEN <<>>
        ELSE IF ~FramedAt(data, p) \/ TooShort(data, p) THEN <<Torn>>
        ELSE IF IsAddress(data, p) THEN <<AddressIn(BodyAt(data, p))>> \o from[Behind(data, p)]
        ELSE from[Behind(data, p)]
  IN  from[12]

\* decode_iana
IanaIsMalformed(data) ==
  \/ Len(data) < 12
  \/ \E i \in DOMAIN Addresses(data) : Addresses(data)[i] = Torn

DecodedIana(data) == IaNa(SubSeq(data, 1, 12), Addresses(data))

Malformed(code, data) ==
  CASE code = OPT_IA_NA -> IanaIsMalformed(data)
    [] code = OPT_DNS_SERVERS -> Len(data) % 16 # 0
    [] code = OPT_STATUS_CODE -> Len(data) < 2 \/ SubSeq(data, 3, Len(data)) \notin Text
    [] OTHER -> FALSE

\* decode_option, of a payload that is not malformed.
Decoded(code, data) ==
  CASE code = OPT_CLIENTID -> ClientId(data)
    [] code = OPT_SERVERID -> ServerId(data)
    [] code = OPT_IA_NA -> DecodedIana(data)
    [] code = OPT_DNS_SERVERS ->
         DnsServers([i \in 1 .. Len(data) \div 16 |-> SubSeq(data, 16 * i - 15, 16 * i)])
    [] code = OPT_STATUS_CODE -> StatusCode(U16At(data, 0), SubSeq(data, 3, Len(data)))
    [] OTHER -> Raw(code, data)

Header ==
  /\ status = "header"
  /\ Len(input) >= 4 /\ input[1] \in MsgType
  /\ pos' = 4
  /\ status' = "options"
  /\ UNCHANGED <<message, input, options>>

BadHeader ==
  /\ status = "header"
  /\ ~(Len(input) >= 4 /\ input[1] \in MsgType)
  /\ status' = "refused"
  /\ UNCHANGED <<message, input, pos, options>>

Readable ==
  FramedAt(input, pos) /\ ~Malformed(U16At(input, pos), BodyAt(input, pos))

\* Faulty: one byte too many is consumed.
FaultyDecodeOption ==
  /\ status = "options" /\ pos < Len(input) /\ Readable
  /\ options' = Append(options, Decoded(U16At(input, pos), BodyAt(input, pos)))
  /\ pos' = Behind(input, pos) + 1
  /\ UNCHANGED <<message, input, status>>

DecodeOption ==
  /\ status = "options" /\ pos < Len(input) /\ Readable
  /\ options' = Append(options, Decoded(U16At(input, pos), BodyAt(input, pos)))
  /\ pos' = Behind(input, pos)
  /\ UNCHANGED <<message, input, status>>

BadOption ==
  /\ status = "options" /\ pos < Len(input) /\ ~Readable
  /\ status' = "refused"
  /\ UNCHANGED <<message, input, pos, options>>

Finish ==
  /\ status = "options" /\ pos = Len(input)
  /\ status' = "decoded"
  /\ UNCHANGED <<message, input, pos, options>>

Next == Refuse \/ Arrive \/ Header \/ BadHeader \/ DecodeOption \/ BadOption \/ Finish

Spec == Init /\ [][Next]_vars

\* msg_type and transaction_id of the Packet.
MessageType == input[1]
TransactionId == (input[2] * 256 + input[3]) * 256 + input[4]

-----------------------------------------------------------------------------
(* Properties *)

\* Types; what is consumed has arrived, so that no slice reaches past the end.
TypeOK ==
  /\ message \in Sendable
  /\ input \in Seq(Byte)
  /\ status \in {"writing", "unsent", "header", "options", "decoded", "refused"}
  /\ pos \in 0 .. Len(input)
  /\ \A i \in DOMAIN options : Len(Encoded(options[i])) <= Len(input)

\* Where the first n options of the message end.
EndOf(n) == Len(Written([message EXCEPT !.options = SubSeq(message.options, 1, n)]))

\* Nothing of a torn message is acted upon: one that is decoded has the type
\* and the low 24 bits of the transaction id the sender meant, ends between two
\* of its options (the wire cannot tell that more were to come), and has every
\* option before that, as it was meant and in its order.
AllOrNothing ==
  status = "decoded" =>
    /\ MessageType = message.msg_type
    /\ TransactionId = message.transaction_id % (256 * 256 * 256)
    /\ Len(input) = EndOf(Len(options))
    /\ options = [i \in DOMAIN options |-> message.options[i].means]

\* And a message that comes whole is dropped for a reason: its type is none of
\* the thirteen, or one of its options is malformed.  One that is not even sent
\* had an option that a 16-bit length cannot state.
WholeIsDecoded ==
  /\ status = "refused" /\ Len(input) = EndOf(Len(message.options)) =>
       \/ message.msg_type \notin MsgType
       \/ \E i \in DOMAIN message.options : message.options[i].means = Torn
  /\ status = "unsent" => \E i \in DOMAIN message.options :
       Len(Payload(message.options[i].written)) > MaxPayload
=============================================================================
