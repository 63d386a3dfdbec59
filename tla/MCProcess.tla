----------------------------- MODULE MCProcess ------------------------------
(* Instances of Process for TLC. *)
EXTENDS Process, SequencesExt

CONSTANTS a, b, c, s0, s1, s2

MCDefaults ==
  [field |-> [k \in Scalar |->
                CASE k \in Plain -> s0
                  [] k \in Switch -> FALSE
                  [] OTHER -> 1],
   broadcast_ip |-> a,
   extra_broadcast_ips |-> <<>>]

Set(k, v) == [key |-> k, value |-> v]

\* Scalar keys set twice, switched on, and refused; ranges that fit to the last
\* address, that end behind it, and that do so only until a later line; and
\* destinations given twice, in lists and with an address that does not parse.
MCLine ==
  {Skipped, Malformed,
   Set("server_ip", s1), Set("server_ip", s2), Set("server_ip", Bad),
   Set("ip_start", 2), Set("lease_num", 2), Set("lease_num", 3),
   Set("ipv6_start", 3), Set("ipv6_lease_num", 2), Set("ipv6_lease_num", 3),
   Set("server_duid", MaxDuid), Set("server_duid", MaxDuid + 1),
   Set("enable_dhcpv6", TRUE),
   Set("broadcast_ip", <<b>>), Set("broadcast_ip", <<a, c>>), Set("broadcast_ip", <<b, Bad>>),
   Set("extra_broadcast_ips", <<b, a>>), Set("extra_broadcast_ips", <<Bad>>)}

MCFiles == BoundedSeq(MCLine, 3) \cup {None}
=============================================================================
