------------------------------- MODULE Config -------------------------------
(***************************************************************************)
(* dhcp.conf and the configuration it stands for (src/src/config.rs): what *)
(* apply makes of one line, what validate accepts, and the destinations    *)
(* that broadcasts() draws from the result.                                *)
(*                                                                         *)
(* A line is the key and the value that parse splits it into; a value is   *)
(* what its key's parser makes of the text, or Bad where that parser       *)
(* refuses it.                                                             *)
(***************************************************************************)
EXTENDS Integers, Sequences

CONSTANTS
  None,       \* absent
  Bad,        \* text that its key's parser refuses
  Address,    \* IPv4 addresses, as destinations
  Setting,    \* values of the keys that are only handed on
  MaxV4,      \* u32::MAX
  MaxV6,      \* u128::MAX
  MaxCount6,  \* u64::MAX
  MaxDuid,    \* 128 bytes
  Defaults    \* Config::defaults()

\* Keys whose field is replaced by the value.
Plain == {"server_ip", "subnet_mask", "router_ip", "dns_ips", "ntp_ips",
          "lease_duration_secs", "leases_file", "listen_addr", "ipv6_dns",
          "ipv6_lease_duration_secs", "leases_file_v6", "listen_addr_v6"}
Switch == {"enable_ntp", "enable_rapid_commit", "enable_dhcpv6"}
Ranged == {"ip_start", "lease_num", "ipv6_start", "ipv6_lease_num", "server_duid"}
Scalar == Plain \cup Switch \cup Ranged

\* A server_duid is its length: parse_duid_hex refuses an empty one.
Value(key) ==
  CASE key \in Plain -> Setting
    [] key \in Switch -> BOOLEAN
    [] key \in {"ip_start", "lease_num"} -> 0 .. MaxV4
    [] key = "ipv6_start" -> 0 .. MaxV6
    [] key = "ipv6_lease_num" -> 0 .. MaxCount6
    [] key = "server_duid" -> Nat \ {0}

\* Keys that hold a list of destinations.
Listed == {"broadcast_ip", "extra_broadcast_ips"}

\* Lines with no effect (blank, comment, unknown key) and lines that end the
\* parse (no `=`, empty key, empty value).
Skipped == [key |-> "skipped", value |-> None]
Malformed == [key |-> "malformed", value |-> None]

IsLine(line) ==
  \/ line \in {Skipped, Malformed}
  \/ /\ DOMAIN line = {"key", "value"}
     /\ \/ line.key \in Scalar /\ line.value \in Value(line.key) \cup {Bad}
        \/ line.key \in Listed /\ line.value \in Seq(Address \cup {Bad}) \ {<<>>}

IsConfig(c) ==
  /\ DOMAIN c = {"field", "broadcast_ip", "extra_broadcast_ips"}
  /\ DOMAIN c.field = Scalar
  /\ \A k \in Scalar : c.field[k] \in Value(k)
  /\ c.broadcast_ip \in Address
  /\ c.extra_broadcast_ips \in Seq(Address)

-----------------------------------------------------------------------------
(* parse and apply *)

\* Faulty: only the primary destination of a list is parsed.
FaultyRefused(line) ==
  \/ line = Malformed
  \/ line.value = Bad
  \/ line.key \in Listed /\ Head(line.value) = Bad

\* The parse ends at this line with an Err.
Refused(line) ==
  \/ line = Malformed
  \/ line.value = Bad
  \/ line.key \in Listed /\ \E i \in DOMAIN line.value : line.value[i] = Bad

\* A line that is not refused, applied to c.  The first address of a
\* broadcast_ip list is the primary one; the others join the extra ones.
Applied(c, line) ==
  CASE line.key \in Scalar ->
         [c EXCEPT !.field[line.key] = line.value]
    [] line.key = "broadcast_ip" ->
         [c EXCEPT !.broadcast_ip = Head(line.value),
                   !.extra_broadcast_ips = @ \o Tail(line.value)]
    [] line.key = "extra_broadcast_ips" ->
         [c EXCEPT !.extra_broadcast_ips = @ \o line.value]
    [] OTHER -> c

-----------------------------------------------------------------------------
(* validate *)

\* The IPv4 pool may end with the last address there is.
FitsV4(f) == f["ip_start"] + f["lease_num"] <= MaxV4 + 1

\* checked_add: the address after the IPv6 pool must be one.
FitsV6(f) == f["ipv6_start"] + f["ipv6_lease_num"] <= MaxV6

FitsDuid(f) == f["server_duid"] \in 1 .. MaxDuid

\* Faulty: the last IPv4 address is held against the bound of the pool's end.
FaultyValid(c) ==
  /\ FitsDuid(c.field)
  /\ c.field["ip_start"] + c.field["lease_num"] - 1 <= MaxV4 + 1
  /\ FitsV6(c.field)

Valid(c) == FitsDuid(c.field) /\ FitsV4(c.field) /\ FitsV6(c.field)

-----------------------------------------------------------------------------
(* broadcasts *)

InSeq(a, s) == \E i \in DOMAIN s : s[i] = a

\* Faulty: only neighbours are compared.
FaultyBroadcasts(c) ==
  LET extra == c.extra_broadcast_ips
      out[n \in 0 .. Len(extra)] ==
        IF n = 0 THEN <<c.broadcast_ip>>
        ELSE IF out[n - 1][Len(out[n - 1])] = extra[n] THEN out[n - 1]
        ELSE Append(out[n - 1], extra[n])
  IN  out[Len(extra)]

\* The primary destination, then each extra one that is not there yet.
Broadcasts(c) ==
  LET extra == c.extra_broadcast_ips
      out[n \in 0 .. Len(extra)] ==
        IF n = 0 THEN <<c.broadcast_ip>>
        ELSE IF InSeq(extra[n], out[n - 1]) THEN out[n - 1]
        ELSE Append(out[n - 1], extra[n])
  IN  out[Len(extra)]

-----------------------------------------------------------------------------

\* The defaults are a configuration that validate would accept.
ASSUME ConfigAssumption ==
  /\ MaxV4 \in Nat /\ MaxV6 \in Nat /\ MaxCount6 \in Nat /\ MaxDuid \in Nat
  /\ IsConfig(Defaults) /\ Valid(Defaults)
  /\ Bad \notin Address \cup Setting \cup BOOLEAN \cup Nat \cup Seq(Address \cup {Bad})
  /\ None # Bad
=============================================================================
