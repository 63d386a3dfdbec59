---------------------------- MODULE MCPacketCodec ----------------------------
(* DHCPv4 datagrams for TLC. *)
EXTENDS PacketCodec

MCText == Seq(0 .. 127)

Opt(c, d, m) == [code |-> c, data |-> d, means |-> m]

\* Message types with and without trailing bytes, empty and unknown; addresses
\* of the right length, one byte short and one too long; text and bytes that
\* are none; a router list; an option that is kept as it is, whose data look
\* like an END and a message type; and an empty one.
MCSendable ==
  {Opt(53, <<1>>, <<1>>), Opt(53, <<3, 9>>, <<3>>), Opt(53, <<>>, None), Opt(53, <<9>>, None),
   Opt(54, <<10, 0, 0, 1>>, <<10, 0, 0, 1>>), Opt(54, <<10, 0, 0>>, None),
   Opt(50, <<10, 0, 0, 7, 1>>, <<10, 0, 0, 7>>),
   Opt(12, <<104>>, <<104>>), Opt(12, <<200>>, None),
   Opt(3, <<10, 0, 0, 1>>, None),
   Opt(61, <<255, 53, 1, 5>>, <<255, 53, 1, 5>>), Opt(80, <<>>, <<>>)}
=============================================================================
