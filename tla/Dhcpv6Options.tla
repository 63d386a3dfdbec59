---------------------------- MODULE Dhcpv6Options ---------------------------
(***************************************************************************)
(* The options of a DHCPv6 message as the program holds them (Dhcpv6Option *)
(* and IaAddr in src/src/dhcpv6.rs): a typed one has a kind and its        *)
(* fields, any other one is raw.                                           *)
(***************************************************************************)

Raw(code, data) == [kind |-> "Unrecognized", code |-> code, data |-> data]
ClientId(d) == [kind |-> "ClientId", data |-> d]
ServerId(d) == [kind |-> "ServerId", data |-> d]
StatusCode(c, m) == [kind |-> "StatusCode", status |-> c, message |-> m]
DnsServers(a) == [kind |-> "DnsServers", addrs |-> a]
IaNa(f, a) == [kind |-> "IaNa", fixed |-> f, addrs |-> a]
IaAddr(a, t) == [addr |-> a, lifetimes |-> t]

\* What is no option.
Torn == [kind |-> "Torn", code |-> 0, data |-> <<>>]
=============================================================================
