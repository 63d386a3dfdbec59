----------------------------- MODULE MCMyServer -----------------------------
(* Instances of MyServer for TLC. *)
EXTENDS MyServer, TLC

CONSTANTS m1, m2, m3, n1, n2

\* Two clients share a name.
MCNameOf == (m1 :> n1) @@ (m2 :> n2) @@ (m3 :> n1)

Entry(m, a) == [mac |-> m, ip |-> a]

\* No file, or an empty one.
\* One client at every address of the pool and one outside it.
\* A reservation outside the pool, a skipped line, and an address that a later
\* line gives to another client.
\* Two addresses, the second taken over; then a line whose address does not
\* parse.
MCLeaseFiles ==
  {<<>>,
   <<Entry(m1, 1), Entry(m1, 2), Entry(m1, 3)>>,
   <<Entry(m1, 3), Entry(None, 2), Entry(m1, 1), Entry(m2, 1)>>,
   <<Entry(m1, 1), Entry(m1, 2), Entry(m2, 2)>>,
   <<Entry(m1, 1), Entry(m1, None)>>}
=============================================================================
