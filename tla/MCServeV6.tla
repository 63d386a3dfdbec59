------------------------------ MODULE MCServeV6 -----------------------------
(* Instances of ServeV6 for TLC. *)
EXTENDS ServeV6

CONSTANTS d1, d2, d3

Entry(d, a) == [duid |-> d, addr |-> a]

\* No file, or an empty one.
\* One client at two addresses of the range and one outside it.
\* A reservation outside the range, a malformed line, and an address that a
\* later line gives to another client.
MCLeaseFiles ==
  {<<>>,
   <<Entry(d1, 1), Entry(d1, 2), Entry(d1, 3)>>,
   <<Entry(d1, 3), None, Entry(d1, 1), Entry(d2, 1)>>}
=============================================================================
