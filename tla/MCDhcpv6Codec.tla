---------------------------- MODULE MCDhcpv6Codec ----------------------------
(* DHCPv6 messages for TLC. *)
EXTENDS Dhcpv6Codec

MCText == Seq(0 .. 127)

A16(n) == [i \in 1 .. 16 |-> n]
T8(n) == [i \in 1 .. 8 |-> n]
F12 == [i \in 1 .. 12 |-> 7]

AddressOf(n) == IaAddr(A16(n), T8(n))
SubAddress(n) == <<0, 5, 0, 24>> \o A16(n) \o T8(n)

\* As the program writes it.
Own(o) == [written |-> o, means |-> o]
\* As another implementation writes it.
Foreign(code, data, means) == [written |-> Raw(code, data), means |-> means]

MCOptions ==
  {Own(ClientId(<<0, 3>>)), Own(ClientId(<<>>)), Own(ServerId(<<0, 0, 0, 4>>)),
   Own(StatusCode(2, <<110>>)), Own(StatusCode(260, <<>>)),
   Own(DnsServers(<<A16(1), A16(2)>>)), Own(DnsServers(<<A16(1), A16(2), A16(3), A16(4)>>)),
   Own(IaNa(F12, <<AddressOf(9)>>)), Own(IaNa(F12, <<>>)),
   Own(Raw(14, <<>>)), Own(Raw(300, <<0, 3, 0, 12>>)),
   \* An address with an option of its own, behind a status.
   Foreign(3, F12 \o <<0, 13, 0, 2, 0, 0, 0, 5, 0, 26>> \o A16(8) \o T8(8) \o <<1, 2>>,
           IaNa(F12, <<AddressOf(8)>>)),
   \* No room for T2; an address without lifetimes; one that is torn.
   Foreign(3, SubSeq(F12, 1, 11), Torn),
   Foreign(3, F12 \o <<0, 5, 0, 16>> \o A16(8), Torn),
   Foreign(3, F12 \o SubAddress(8) \o <<0, 5, 0>>, Torn),
   Foreign(23, Append(A16(1), 1), Torn),
   Foreign(13, <<0>>, Torn), Foreign(13, <<0, 2, 200>>, Torn)}

\* Every pair of options, and transaction ids of 24 bits and of more.
MCMessages ==
  [msg_type : {1}, transaction_id : {16909060}, options : BoundedSeq(MCOptions, 2)]
  \cup [msg_type : {0, 13, 14}, transaction_id : {65793}, options : {<<>>}]
=============================================================================
