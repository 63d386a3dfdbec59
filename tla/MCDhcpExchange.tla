--------------------------- MODULE MCDhcpExchange ---------------------------
(* Instances of DhcpExchange for TLC. *)
EXTENDS DhcpExchange, TLC

CONSTANTS m1, m2, n1

MCNameOf == [m \in Mac |-> n1]

Empty == {<<>>}

Reservation(m) == <<[mac |-> m, ip |-> 2]>>

\* An empty leases file, or a reservation outside the pool.  After a restart it
\* may be the other client's.
Reserved == Empty \cup {Reservation(m) : m \in Mac}
=============================================================================
