--------------------------- MODULE AbstractLeases ---------------------------
(***************************************************************************)
(* What either DHCP service promises, with no storage: one map from        *)
(* address to lease, a clock, and the reply each step gives.  There is no  *)
(* slot array, no counter, no hint and no cursor: any lease a client holds *)
(* may be its current one, and any available address may be the fresh one. *)
(***************************************************************************)
EXTENDS Integers

CONSTANTS Mac, Name, None, Addr, Pool, NameOf, LeaseDuration, MaxTime,
          ReservationsLapse  \* may a permanent lease be taken over?

VARIABLES
  binding,  \* address -> lease, or None
  now,      \* the clock
  phase,    \* "loading", "serving" or "down"
  out       \* the reply the last step gave

vars == <<binding, now, phase, out>>

Names(mac) == {None, NameOf[mac]}

Init ==
  /\ binding = [ip \in Addr |-> None]
  /\ now = 0
  /\ phase = "loading"
  /\ out = None

Held(mac) == {ip \in Addr : binding[ip] # None /\ binding[ip].mac = mac}

\* Free, or under a lease that may be taken over.
Free(ip) ==
  \/ binding[ip] = None
  \/ binding[ip].expiry = None /\ ReservationsLapse
  \/ binding[ip].expiry # None /\ now > binding[ip].expiry

\* Available to a client that holds nothing.
Available == {ip \in Pool : Free(ip)}

Give(mac, ip, expiry, name) ==
  binding' = [binding EXCEPT ![ip] =
                [mac |-> mac, expiry |-> expiry, name |-> name]]

Rename(ip, name) ==
  binding' = IF name = None THEN binding
                            ELSE [binding EXCEPT ![ip].name = name]

Say(type, mac, ip) == out' = [type |-> type, mac |-> mac, yiaddr |-> ip]

-----------------------------------------------------------------------------

\* While loading, any address may be reserved for any client.
Load ==
  /\ phase = "loading"
  /\ \/ UNCHANGED binding
     \/ \E mac \in Mac, ip \in Addr : Give(mac, ip, None, None)
  /\ phase' \in {"loading", "serving", "down"}
  /\ out' = None
  /\ UNCHANGED now

Reset ==
  /\ binding' = [ip \in Addr |-> None]
  /\ phase' = "loading"
  /\ out' = None
  /\ UNCHANGED now

Tick ==
  /\ now < MaxTime
  /\ now' = now + 1
  /\ out' = None
  /\ UNCHANGED <<binding, phase>>

\* A client that holds something is offered or acked one of its addresses.
\* Only the name of the lease may change: its expiry does not.
AnswerHolder(mac) ==
  \E ip \in Held(mac), name \in Names(mac) :
    /\ Rename(ip, name)
    /\ Say("Ack", mac, ip) \/ Say("Offer", mac, ip)

\* A client that holds nothing is offered an available address, granted one,
\* refused, or - when none is available - given no answer.
OfferFresh(mac) ==
  /\ Held(mac) = {}
  /\ \E ip \in Available : Say("Offer", mac, ip)
  /\ UNCHANGED binding

Grant(mac) ==
  /\ Held(mac) = {}
  /\ \E ip \in Available, name \in Names(mac) :
       /\ Give(mac, ip, now + LeaseDuration, name)
       /\ Say("Ack", mac, ip)

Refuse(mac) ==
  /\ Held(mac) = {}
  /\ Addr \ Available # {}
  /\ Say("Nak", mac, 0)
  /\ UNCHANGED binding

Exhausted(mac) ==
  /\ Held(mac) = {}
  /\ Available = {}
  /\ Say("Exhausted", mac, 0)
  /\ UNCHANGED binding

\* A client gives up one of its addresses.
Drop(mac) ==
  /\ \E ip \in Held(mac) : binding' = [binding EXCEPT ![ip] = None]
  /\ out' = None

NoAnswer ==
  /\ out' = None
  /\ UNCHANGED binding

Serve ==
  /\ phase = "serving"
  /\ \/ NoAnswer
     \/ \E mac \in Mac :
          \/ AnswerHolder(mac)
          \/ OfferFresh(mac)
          \/ Grant(mac)
          \/ Refuse(mac)
          \/ Exhausted(mac)
          \/ Drop(mac)
  /\ UNCHANGED <<now, phase>>

Next == Load \/ Reset \/ Tick \/ Serve

Spec == Init /\ [][Next]_vars
=============================================================================
