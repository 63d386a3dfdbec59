---------------------------- MODULE PacketCodec -----------------------------
(***************************************************************************)
(* Reading a DHCPv4 datagram (decode and decode_option in                  *)
(* src/src/packet.rs), one option per step.  The loop ends silently at the *)
(* first option it rejects, and what follows is never seen.                *)
(*                                                                         *)
(* A datagram is a header and the bytes after the cookie: the wire form of *)
(* the options its sender meant, closed by END and cut to the length that  *)
(* arrived.  What Packet::encode writes of a reply is in Server.           *)
(***************************************************************************)
EXTENDS Integers, Sequences, SequencesExt

CONSTANTS
  None,      \* absent
  Sendable,  \* the options a sender may put in a datagram, each with what of its
             \* data it means: None if it means nothing to this decoder
  MaxSent,   \* bound on their number
  Text       \* the byte strings that are UTF-8

SUBNET_MASK == 1
ROUTER == 3
DOMAIN_NAME_SERVER == 6
HOST_NAME == 12
REQUESTED_IP_ADDRESS == 50
IP_ADDRESS_LEASE_TIME == 51
DHCP_MESSAGE_TYPE == 53
SERVER_IDENTIFIER == 54
MESSAGE == 56
END == 255

Byte == 0 .. 255

\* What a sender can put in a datagram: RawDhcpOption.
ASSUME SendableAssumption ==
  /\ MaxSent \in Nat
  /\ None \notin Seq(Byte)
  /\ \A o \in Sendable : /\ DOMAIN o = {"code", "data", "means"}
                         /\ o.code \in Byte \ {END}
                         /\ o.data \in Seq(Byte) /\ Len(o.data) \in Byte

VARIABLES
  header,   \* how the first 240 bytes read
  sent,     \* the options the sender meant
  input,    \* the bytes after the cookie
  status,   \* "header", "options", "closing", "decoded", "refused", "panicked"
  pos,      \* how many of them are consumed
  options   \* the options decoded so far

vars == <<header, sent, input, status, pos, options>>

-----------------------------------------------------------------------------
(* Writing *)

\* The wire form of options that fit.
Coded(o) == <<o.code, Len(o.data)>> \o o.data
Wire(opts) == FlattenSeq([i \in DOMAIN opts |-> Coded(opts[i])])

Datagram(opts, length) == SubSeq(Append(Wire(opts), END), 1, length)

Init ==
  /\ header \in {"short", "hlen", "cookie", "good"}
  /\ \E n \in 0 .. MaxSent : sent \in [1 .. n -> Sendable]
  /\ \E length \in 0 .. Len(Wire(sent)) + 1 : input = Datagram(sent, length)
  /\ status = "header"
  /\ pos = 0
  /\ options = <<>>

-----------------------------------------------------------------------------
(* Reading *)

\* Fewer than 236 bytes, a hardware address of another length than 6, or no
\* cookie: an Err, and the receive loop goes on.
Header ==
  /\ status = "header"
  /\ status' = IF header = "good" THEN "options" ELSE "refused"
  /\ UNCHANGED <<header, sent, input, pos, options>>

Left == Len(input) - pos
Code == input[pos + 1]
Size == input[pos + 2]
Data == SubSeq(input, pos + 3, pos + 2 + Size)

\* Faulty: one byte too many is consumed.
FaultyAfter == pos + 3 + Size

After == pos + 2 + Size

\* A code, a length, and as many bytes as the length says.
Framed == Left >= 2 /\ Left - 2 >= Size

Addressed == {SERVER_IDENTIFIER, REQUESTED_IP_ADDRESS, SUBNET_MASK, IP_ADDRESS_LEASE_TIME}

\* Faulty: data longer than the four bytes wanted is refused.
FaultyAccepts(code, data) ==
  CASE code = DHCP_MESSAGE_TYPE -> data # <<>> /\ data[1] \in 1 .. 8
    [] code \in Addressed -> Len(data) = 4
    [] code \in {HOST_NAME, MESSAGE} -> data \in Text
    [] OTHER -> code \notin {ROUTER, DOMAIN_NAME_SERVER}

\* What decode_option makes an option of: routers and name servers never.
Accepts(code, data) ==
  CASE code = DHCP_MESSAGE_TYPE -> data # <<>> /\ data[1] \in 1 .. 8
    [] code \in Addressed -> Len(data) >= 4
    [] code \in {HOST_NAME, MESSAGE} -> data \in Text
    [] OTHER -> code \notin {ROUTER, DOMAIN_NAME_SERVER}

\* The part of the data that the option keeps; trailing bytes are ignored.
Kept(code, data) ==
  CASE code = DHCP_MESSAGE_TYPE -> SubSeq(data, 1, 1)
    [] code \in Addressed -> SubSeq(data, 1, 4)
    [] OTHER -> data

\* decode_option asserts that it is not called on an END.
AssertEnd ==
  /\ status = "options"
  /\ Left > 0 /\ Code = END
  /\ status' = "panicked"
  /\ UNCHANGED <<header, sent, input, pos, options>>

\* Faulty: the END is looked for at the next option only.
FaultyAtEnd(p) == FALSE

AtEnd(p) == p < Len(input) /\ input[p + 1] = END

DecodeOption ==
  /\ status = "options"
  /\ Left > 0 /\ Code # END
  /\ Framed /\ Accepts(Code, Data)
  /\ options' = Append(options, [code |-> Code, data |-> Kept(Code, Data)])
  /\ pos' = After
  /\ status' = IF AtEnd(After) THEN "closing" ELSE "options"
  /\ UNCHANGED <<header, sent, input>>

\* Any Err of decode_option ends the loop.
StopSilently ==
  /\ status = "options"
  /\ \/ Left = 0
     \/ Left > 0 /\ Code # END /\ ~Framed
     \/ Left > 0 /\ Code # END /\ Framed /\ ~Accepts(Code, Data)
  /\ status' = "closing"
  /\ UNCHANGED <<header, sent, input, pos, options>>

\* split_at(1): one byte is skipped, whichever it is; there must be one.
Close ==
  /\ status = "closing"
  /\ status' = IF Left > 0 THEN "decoded" ELSE "panicked"
  /\ UNCHANGED <<header, sent, input, pos, options>>

Next == Header \/ AssertEnd \/ DecodeOption \/ StopSilently \/ Close

Spec == Init /\ [][Next]_vars

\* message_type(): the first one there is.
MessageType ==
  LET types == {i \in DOMAIN options : options[i].code = DHCP_MESSAGE_TYPE}
  IN  IF types = {} THEN None
      ELSE options[CHOOSE i \in types : \A j \in types : i <= j].data[1]

-----------------------------------------------------------------------------
(* Properties *)

\* Types; what is consumed has arrived, so that no slice reaches past the end.
TypeOK ==
  /\ header \in {"short", "hlen", "cookie", "good"}
  /\ sent \in Seq(Sendable)
  /\ input \in Seq(Byte)
  /\ status \in {"header", "options", "closing", "decoded", "refused", "panicked"}
  /\ pos \in 0 .. Len(input)
  /\ options \in Seq([code : Byte, data : Seq(Byte)])

\* Where the first n options of the sender end.
EndOf(n) == Len(Wire(SubSeq(sent, 1, n)))

\* The first n arrived whole, and each of them means something.
Good(n) ==
  EndOf(n) <= Len(input) /\ \A i \in 1 .. n : sent[i].means # None

Readable == CHOOSE n \in 0 .. Len(sent) :
  Good(n) /\ \A m \in 0 .. Len(sent) : Good(m) => m <= n

\* A datagram that is decoded yields the sender's options up to the first one
\* that was cut or means nothing, each with its own data, and no other.
\* The message type is the first of these, whatever comes later.
ReadsWhatWasSent ==
  status = "decoded" =>
    /\ options = [i \in 1 .. Readable |->
                    [code |-> sent[i].code, data |-> sent[i].means]]
    /\ \A i \in 1 .. Readable :
         /\ sent[i].code = DHCP_MESSAGE_TYPE
         /\ \A j \in 1 .. i - 1 : sent[j].code # DHCP_MESSAGE_TYPE
         => <<MessageType>> = sent[i].means

\* The thread panics exactly where tests/test_security_extra.rs locks it: on
\* an option area that starts with END, or that ends behind an acceptable
\* option without one.
PanicsExactly ==
  /\ status = "panicked" =>
       \/ sent = <<>> /\ Len(input) = 1
       \/ EndOf(Readable) = Len(input)
  /\ status = "decoded" => sent # <<>> /\ EndOf(Readable) < Len(input)
=============================================================================
