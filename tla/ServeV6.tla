------------------------------- MODULE ServeV6 ------------------------------
(***************************************************************************)
(* The DHCPv6 service thread, serve_v6 in src/src/main.rs, over V6Pool.    *)
(*                                                                         *)
(* The thread owns its pool and handles one message at a time.  Time may   *)
(* pass at any point; a Solicit with Rapid Commit reads the clock twice,   *)
(* once in discover() and again in request(), and is two actions here with *)
(* nothing but the clock between them.                                     *)
(***************************************************************************)
EXTENDS V6Pool, Sequences

CONSTANTS
  ServerDuid,         \* the identifiers a message may carry in option 2:
  OtherServer,        \* this server's or another's
  LeaseDuration,      \* ipv6_lease_duration_secs
  EnableRapidCommit,  \* enable_rapid_commit
  LeaseFiles,         \* the leases6 files the thread may find at start
  MaxTime             \* bound on the clock

\* A line of leases6; None is any line that does not parse.
Line == [duid : Duid, addr : Addr] \cup {None}

\* An address of None is an IA_NA with status NoAddrsAvail; answers is the type
\* of in_packet, "Request" for a Renew and a Rebind as well.
Message == [type : {"Advertise", "Reply"}, answers : {"Solicit", "Request"},
            duid : Duid, addr : Addr \cup {None}]
Offered == [duid : Duid, addr : Addr]

ASSUME ServerAssumption ==
  /\ LeaseDuration \in Nat /\ MaxTime \in Nat
  /\ EnableRapidCommit \in BOOLEAN
  /\ LeaseFiles \subseteq Seq(Line)
  /\ None \notin Offered \cup Message
  /\ ServerDuid # OtherServer /\ None \notin {ServerDuid, OtherServer}

VARIABLES
  now,      \* Instant::now()
  phase,    \* "loading" the file or "serving" messages
  file,     \* the lines still to load
  offered,  \* what discover() found for the Rapid Commit under way, or None
  out       \* the message the last step sent

vars == <<slots, filled, overflow, by_duid, last, now, phase, file, offered, out>>

Send(type, answers, duid, addr) ==
  out' = [type |-> type, answers |-> answers, duid |-> duid, addr |-> addr]

Init ==
  /\ EmptyTable
  /\ last = 0
  /\ now = 0
  /\ phase = "loading"
  /\ file \in LeaseFiles
  /\ offered = None
  /\ out = None

-----------------------------------------------------------------------------
(* Start-up: malformed lines are skipped, the thread never dies of one *)

LoadLine ==
  /\ phase = "loading"
  /\ file # <<>>
  /\ IF Head(file) = None
       THEN UNCHANGED table
       ELSE Insert(Head(file).addr, Head(file).duid)
  /\ file' = Tail(file)
  /\ out' = None
  /\ UNCHANGED <<last, now, phase, offered>>

StartServing ==
  /\ phase = "loading"
  /\ file = <<>>
  /\ phase' = "serving"
  /\ out' = None
  /\ UNCHANGED <<table, last, now, file, offered>>

\* The process is stopped and started again.
Restart ==
  /\ slots' = NoSlots /\ filled' = 0 /\ overflow' = NoOverflow /\ by_duid' = NoHints
  /\ last' = 0
  /\ phase' = "loading"
  /\ file' \in LeaseFiles
  /\ offered' = None
  /\ out' = None
  /\ UNCHANGED now

-----------------------------------------------------------------------------
(* Messages.  Idle: the previous message is done with. *)

Idle == phase = "serving" /\ offered = None

\* discover() returns addr: the current lease, else the first free address.
Discover(duid, addr) ==
  \/ addr \in CurrentLease(duid) /\ UNCHANGED last
  \/ /\ HasNoLease(duid)
     /\ \E k \in 1 .. Count :
          /\ FirstFree(duid, k, now)
          /\ addr = Candidate(k)
          /\ last' = Cursor(k)

\* discover() returns None, the cursor gone once round.
DiscoverNone(duid) == HasNoLease(duid) /\ NoneFree(duid, now) /\ UNCHANGED last

Solicit(duid) ==
  /\ Idle
  /\ \E addr \in Addr :
       /\ Discover(duid, addr)
       /\ Send("Advertise", "Solicit", duid, addr)
  /\ UNCHANGED <<table, now, phase, file, offered>>

SolicitNone(duid) ==
  /\ Idle
  /\ DiscoverNone(duid)
  /\ Send("Advertise", "Solicit", duid, None)
  /\ UNCHANGED <<table, now, phase, file, offered>>

\* Rapid Commit: discover() here, request() in RapidCommit.
SolicitRapid(duid) ==
  /\ Idle
  /\ EnableRapidCommit
  /\ \E addr \in Addr :
       /\ Discover(duid, addr)
       /\ offered' = [duid |-> duid, addr |-> addr]
  /\ out' = None
  /\ UNCHANGED <<table, now, phase, file>>

\* Faulty: a full slot array is taken for exhaustion, lapsed leases and all.
FaultySolicitRapidNone(duid) ==
  /\ Idle
  /\ EnableRapidCommit
  /\ HasNoLease(duid)
  /\ filled = Count
  /\ Send("Reply", "Solicit", duid, None)
  /\ UNCHANGED <<table, last, now, phase, file, offered>>

SolicitRapidNone(duid) ==
  /\ Idle
  /\ EnableRapidCommit
  /\ DiscoverNone(duid)
  /\ Send("Reply", "Solicit", duid, None)
  /\ UNCHANGED <<table, now, phase, file, offered>>

\* Faulty: a client's own lease is moved to the address it asks for.
FaultyRequested(answers, duid, addr) ==
  \/ /\ ~AvailableAt(duid, addr, now)
     /\ Send("Reply", answers, duid, None)
     /\ UNCHANGED table
  \/ /\ AvailableAt(duid, addr, now)
     /\ Commit(addr, duid, now + LeaseDuration)
     /\ Send("Reply", answers, duid, addr)

\* request(): the current lease unchanged, else addr if it is available.
Requested(answers, duid, addr) ==
  \/ /\ \E held \in CurrentLease(duid) : Send("Reply", answers, duid, held)
     /\ UNCHANGED table
  \/ /\ HasNoLease(duid)
     /\ ~AvailableAt(duid, addr, now)
     /\ Send("Reply", answers, duid, None)
     /\ UNCHANGED table
  \/ /\ HasNoLease(duid)
     /\ AvailableAt(duid, addr, now)
     /\ Commit(addr, duid, now + LeaseDuration)
     /\ Send("Reply", answers, duid, addr)

RapidCommit ==
  /\ phase = "serving"
  /\ offered # None
  /\ Requested("Solicit", offered.duid, offered.addr)
  /\ offered' = None
  /\ UNCHANGED <<last, now, phase, file>>

\* Request, Renew and Rebind alike; the server identifier is not looked at.
Request(duid, wanted) ==
  /\ Idle
  /\ Requested("Request", duid, wanted)
  /\ UNCHANGED <<last, now, phase, file, offered>>

IsForServer(server_id) == server_id = ServerDuid

\* Release and Decline alike; neither is answered.
Release(duid, server_id) ==
  /\ Idle
  /\ IsForServer(server_id)
  /\ \E addr \in CurrentLease(duid) : Remove(duid, addr)
  /\ out' = None
  /\ UNCHANGED <<last, now, phase, file, offered>>

\* Messages that change nothing and are not answered: no client identifier, a
\* Request with no address in its IA_NA, a Release for another server or from
\* a client with no lease, any other type.
Ignored ==
  /\ Idle
  /\ out' = None
  /\ UNCHANGED <<table, last, now, phase, file, offered>>

Tick ==
  /\ now < MaxTime
  /\ now' = now + 1
  /\ out' = None
  /\ UNCHANGED <<table, last, phase, file, offered>>

HandleMessage(duid) ==
  \/ Solicit(duid)
  \/ SolicitNone(duid)
  \/ SolicitRapid(duid)
  \/ SolicitRapidNone(duid)
  \/ \E wanted \in Addr : Request(duid, wanted)
  \/ \E server_id \in {None, ServerDuid, OtherServer} : Release(duid, server_id)

Next ==
  \/ LoadLine
  \/ StartServing
  \/ Restart
  \/ Tick
  \/ RapidCommit
  \/ Ignored
  \/ \E duid \in Duid : HandleMessage(duid)

Spec == Init /\ [][Next]_vars

-----------------------------------------------------------------------------
(* Properties *)

\* Every variable has its type.
TypeOK ==
  /\ TableTypeOK
  /\ last \in Nat
  /\ Count > 0 => last < Count
  /\ now \in 0 .. MaxTime
  /\ phase \in {"loading", "serving"}
  /\ file \in Seq(Line)
  /\ offered \in Offered \cup {None}
  /\ offered # None => phase = "serving"
  /\ out \in Message \cup {None}

\* The counter behind is_empty() agrees with the slot array.
FilledExact == filled = Cardinality({i \in SlotIndex : slots[i] # None})

\* Hints may be stale - request() leaves the previous owner's behind - but
\* they never mislead: current_lease names an address its client holds, and
\* names none only to a client that holds none.
HintsHarmless ==
  \A d \in Duid :
    /\ \A addr \in CurrentLease(d) : Lookup(addr) # None /\ Lookup(addr).duid = d
    /\ HasNoLease(d) =>
         \A addr \in Addr : Lookup(addr) # None => Lookup(addr).duid # d

\* A client that got an address from the server holds that address only.
DynamicIsSole ==
  \A a, b \in Addr :
    /\ a # b
    /\ Lookup(a) # None
    /\ Lookup(b) # None
    /\ Lookup(a).duid = Lookup(b).duid
    => Lookup(a).expiry = None /\ Lookup(b).expiry = None

\* A lease that has not run out, and any permanent one.
Protected(addr) ==
  Lookup(addr) # None /\ (Lookup(addr).expiry # None => now <= Lookup(addr).expiry)

\* A protected lease stays as it is until its own client releases or declines
\* it, or the process restarts: permanent reservations cannot be taken over.
ProtectedKept ==
  [][\A addr \in Addr : Protected(addr) /\ phase = "serving" =>
       \/ Lookup(addr)' = Lookup(addr)
       \/ Release(Lookup(addr).duid, ServerDuid)
       \/ Restart]_vars

\* A Rapid Commit always ends with an address for the client, however much
\* time passes before request() looks again: the one discover() found, or one
\* the client holds (two walks of the overflow map may differ in this model).
RapidCommitSucceeds ==
  [][\A d \in Duid, found \in Addr :
       offered = [duid |-> d, addr |-> found] /\ offered' = None =>
         \/ \E addr \in {found} \cup CurrentLease(d) :
              out' = [type |-> "Reply", answers |-> "Solicit",
                      duid |-> d, addr |-> addr]
         \/ Restart]_vars

\* A Solicit is answered without an address, by an Advertise or by the Reply of
\* a Rapid Commit, only when every address of the range is under an unexpired or
\* permanent lease of another client, and the client holds none elsewhere.
NoneMeansFull ==
  out # None /\ out.answers = "Solicit" /\ out.addr = None =>
    \A addr \in Addr :
      /\ addr \in Pool => Protected(addr)
      /\ Lookup(addr) # None => Lookup(addr).duid # out.duid

-----------------------------------------------------------------------------
(* The same promise as the IPv4 side's, but for permanent reservations      *)

\* A lease in the terms of AbstractLeases; IPv6 keeps no names.
Binding(lease) == [mac |-> lease.duid, expiry |-> lease.expiry, name |-> None]

ASSUME BindingAssumption ==
  None \notin [mac : Duid, expiry : Nat \cup {None}, name : {None}]

\* The pool as one map of such leases.
Bindings ==
  [addr \in Addr |->
     IF Lookup(addr) = None THEN None ELSE Binding(Lookup(addr))]

\* The IPv4 reply each message stands for: a client that solicits is turned
\* away for want of any address, one that requests for want of the one it names.
Answer ==
  IF out = None THEN None
  ELSE [type |-> CASE out.addr = None /\ out.answers = "Solicit" -> "Exhausted"
                   [] out.addr = None /\ out.answers = "Request" -> "Nak"
                   [] out.addr # None /\ out.type = "Advertise" -> "Offer"
                   [] out.addr # None /\ out.type = "Reply" -> "Ack",
        mac |-> out.duid,
        yiaddr |-> IF out.addr = None THEN 0 ELSE out.addr]

Promise == INSTANCE AbstractLeases
             WITH Mac <- Duid, Name <- {}, NameOf <- [d \in Duid |-> None],
                  binding <- Bindings, out <- Answer, ReservationsLapse <- FALSE

\* IPv6 leases work like IPv4 ones, except that permanent reservations are
\* never taken over.
KeepsPromise == Promise!Spec
=============================================================================
