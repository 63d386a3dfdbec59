------------------------------ MODULE MyServer ------------------------------
(***************************************************************************)
(* The DHCPv4 server process: main's loader of the leases file and         *)
(* MyServer::handle_request (src/src/main.rs) over the lease table.        *)
(*                                                                         *)
(* One packet is handled at a time, by the only thread that owns MyServer, *)
(* so each handler is one action.  The leases file is loaded line by line  *)
(* before the first packet is read.  Memory is all the state there is: a   *)
(* restart forgets every lease and loads the file again.                   *)
(***************************************************************************)
EXTENDS LeaseTable, Sequences

CONSTANTS
  NameOf,             \* the host name each client announces, when it does
  ServerIp,           \* the identifiers a packet may carry in option 54:
  OtherServer,        \* this server's or another's
  LeaseDuration,      \* lease_duration_secs
  EnableRapidCommit,  \* enable_rapid_commit
  LeaseFiles,         \* the leases files the process may find at start
  MaxTime             \* bound on the clock

\* What the loader tells apart in a line of the file: a mac of None is a line
\* it skips (not two fields, or not six hex octets), an ip of None one whose
\* second field does not parse.
Line == [mac : Mac \cup {None}, ip : Addr \cup {None}]

ASSUME ServerAssumption ==
  /\ NameOf \in [Mac -> Name]
  /\ LeaseDuration \in Nat /\ MaxTime \in Nat
  /\ EnableRapidCommit \in BOOLEAN
  /\ LeaseFiles \subseteq Seq(Line)
  /\ ServerIp # OtherServer /\ None \notin {ServerIp, OtherServer}

VARIABLES
  last_lease,  \* round-robin cursor of the free-address scan
  now,         \* Instant::now()
  phase,       \* "loading" the file, "serving" packets, or "down"
  file,        \* the lines still to load
  out          \* the reply the last step asked the Server to send

vars == <<slots, filled, overflow, by_mac, last_lease, now, phase, file, out>>

\* "Exhausted" stands for the log line `no reply (pool exhausted)`.
Reply == [type : {"Offer", "Ack", "Nak", "Exhausted"}, mac : Mac, yiaddr : Addr]

Unspecified == 0

Init ==
  /\ EmptyTable
  /\ last_lease = 0
  /\ now = 0
  /\ phase = "loading"
  /\ file \in LeaseFiles
  /\ out = None

-----------------------------------------------------------------------------
(* Start-up *)

\* One line of the leases file.  A well-formed MAC with an unparsable address
\* is an unwrap() on an Err: the main thread panics and the process is gone.
LoadLine ==
  /\ phase = "loading"
  /\ file # <<>>
  /\ LET line == Head(file)
     IN  \/ /\ line.mac = None
            /\ UNCHANGED <<table, phase>>
         \/ /\ line.mac # None /\ line.ip = None
            /\ phase' = "down"
            /\ UNCHANGED table
         \/ /\ line.mac # None /\ line.ip # None
            /\ InsertLease(line.ip, line.mac, None, None)
            /\ UNCHANGED phase
  /\ file' = Tail(file)
  /\ out' = None
  /\ UNCHANGED <<last_lease, now>>

StartServing ==
  /\ phase = "loading"
  /\ file = <<>>
  /\ phase' = "serving"
  /\ out' = None
  /\ UNCHANGED <<table, last_lease, now, file>>

\* The process ends (a kill, a receive error, a panic before) and is started
\* again, on a leases file that may have been edited since.
Restart ==
  /\ slots' = NoSlots /\ filled' = 0 /\ overflow' = NoOverflow /\ by_mac' = NoHints
  /\ last_lease' = 0
  /\ phase' = "loading"
  /\ file' \in LeaseFiles
  /\ out' = None
  /\ UNCHANGED now

-----------------------------------------------------------------------------
(* Discover *)

\* Faulty: the cursor is read before it is moved.
FaultyCursor(k) == (last_lease + k - 1) % LeaseNum

\* The cursor after k increments, and the address it stands for.
Cursor(k) == (last_lease + k) % LeaseNum
Candidate(k) == IpStart + Cursor(k)

\* The scan stops after k increments, at the first address free for mac.
FirstFree(mac, k) ==
  /\ k \in 1 .. LeaseNum
  /\ AvailableAt(mac, Candidate(k), now)
  /\ \A j \in 1 .. (k - 1) : ~AvailableAt(mac, Candidate(j), now)

\* Faulty: the scan stops one address short.
FaultyNoneFree(mac) ==
  \A j \in 1 .. (LeaseNum - 1) : ~AvailableAt(mac, Candidate(j), now)

\* No address is free: the cursor has gone once round the pool.
NoneFree(mac) == \A j \in 1 .. LeaseNum : ~AvailableAt(mac, Candidate(j), now)

\* An Offer, or at once an Ack when the client asks for Rapid Commit and the
\* configuration allows it.
DiscoverReply(mac, rapid, ip) ==
  [type |-> IF EnableRapidCommit /\ rapid THEN "Ack" ELSE "Offer",
   mac |-> mac, yiaddr |-> ip]

\* The client has a lease, lapsed or not: it is offered (or acked) again.
DiscoverExisting(mac, rapid, name) ==
  /\ phase = "serving"
  /\ \E ip \in CurrentLease(mac) :
       /\ RememberHostname(ip, name)
       /\ out' = DiscoverReply(mac, rapid, ip)
  /\ UNCHANGED <<last_lease, now, phase, file>>

\* A Rapid Commit leases the new address at once; an Offer only names it.
CommitFresh(mac, rapid, ip, name) ==
  IF EnableRapidCommit /\ rapid
    THEN InsertLease(ip, mac, now + LeaseDuration, name)
    ELSE UNCHANGED table

\* No lease: the first free address behind the cursor.
DiscoverFresh(mac, rapid, name) ==
  /\ phase = "serving"
  /\ HasNoLease(mac)
  /\ \E k \in 1 .. LeaseNum :
       /\ FirstFree(mac, k)
       /\ last_lease' = Cursor(k)
       /\ CommitFresh(mac, rapid, Candidate(k), name)
       /\ out' = DiscoverReply(mac, rapid, Candidate(k))
  /\ UNCHANGED <<now, phase, file>>

\* Silence, Rapid Commit or not.
DiscoverExhausted(mac) ==
  /\ phase = "serving"
  /\ HasNoLease(mac)
  /\ NoneFree(mac)
  /\ out' = [type |-> "Exhausted", mac |-> mac, yiaddr |-> Unspecified]
  /\ UNCHANGED <<table, last_lease, now, phase, file>>

-----------------------------------------------------------------------------
(* Request.  req_ip is option 50, else ciaddr.  The server identifier of    *)
(* another server is only logged: the packet is served anyway.             *)

\* The client's lease is acked as it stands, whatever address it asked for.
RequestExisting(mac, name) ==
  /\ phase = "serving"
  /\ \E ip \in CurrentLease(mac) :
       /\ RememberHostname(ip, name)
       /\ out' = [type |-> "Ack", mac |-> mac, yiaddr |-> ip]
  /\ UNCHANGED <<last_lease, now, phase, file>>

RequestNak(mac, req_ip) ==
  /\ phase = "serving"
  /\ HasNoLease(mac)
  /\ ~AvailableAt(mac, req_ip, now)
  /\ out' = [type |-> "Nak", mac |-> mac, yiaddr |-> Unspecified]
  /\ UNCHANGED <<table, last_lease, now, phase, file>>

RequestGrant(mac, req_ip, name) ==
  /\ phase = "serving"
  /\ HasNoLease(mac)
  /\ AvailableAt(mac, req_ip, now)
  /\ InsertLease(req_ip, mac, now + LeaseDuration, name)
  /\ out' = [type |-> "Ack", mac |-> mac, yiaddr |-> req_ip]
  /\ UNCHANGED <<last_lease, now, phase, file>>

-----------------------------------------------------------------------------
(* Release and Decline are handled alike, and are never answered.          *)

ForThisServer(server_id) == server_id = ServerIp

Release(mac, server_id) ==
  /\ phase = "serving"
  /\ ForThisServer(server_id)
  /\ \E ip \in CurrentLease(mac) : RemoveLease(mac, ip)
  /\ out' = None
  /\ UNCHANGED <<last_lease, now, phase, file>>

\* Packets that change nothing and get no reply: a Release or Decline meant
\* for another server or from a client with no lease, and every message type
\* the server does not implement.
Ignored(mac, server_id) ==
  /\ phase = "serving"
  /\ ~ForThisServer(server_id) \/ HasNoLease(mac)
  /\ out' = None
  /\ UNCHANGED <<table, last_lease, now, phase, file>>

-----------------------------------------------------------------------------

Tick ==
  /\ now < MaxTime
  /\ now' = now + 1
  /\ out' = None
  /\ UNCHANGED <<table, last_lease, phase, file>>

\* handle_request on a packet of client mac.
HandleRequest(mac) ==
  \/ \E name \in {None, NameOf[mac]} :
       \/ \E rapid \in BOOLEAN : DiscoverExisting(mac, rapid, name)
       \/ \E rapid \in BOOLEAN : DiscoverFresh(mac, rapid, name)
       \/ RequestExisting(mac, name)
       \/ \E req_ip \in Addr : RequestGrant(mac, req_ip, name)
  \/ DiscoverExhausted(mac)
  \/ \E req_ip \in Addr : RequestNak(mac, req_ip)
  \/ \E server_id \in {None, ServerIp, OtherServer} :
       \/ Release(mac, server_id)
       \/ Ignored(mac, server_id)

Next ==
  \/ LoadLine
  \/ StartServing
  \/ Restart
  \/ Tick
  \/ \E mac \in Mac : HandleRequest(mac)

Spec == Init /\ [][Next]_vars

-----------------------------------------------------------------------------
(* Properties *)

\* Every variable has its type.
TypeOK ==
  /\ TableTypeOK
  /\ last_lease \in Nat
  /\ LeaseNum > 0 => last_lease < LeaseNum
  /\ now \in 0 .. MaxTime
  /\ phase \in {"loading", "serving", "down"}
  /\ file \in Seq(Line)
  /\ out \in Reply \cup {None}

\* The counter is_empty() relies on agrees with the slot array: were it ever
\* to reach zero too early, current_lease would answer None to every client.
FilledExact == filled = Cardinality({i \in SlotIndex : slots[i] # None})

\* A hint is never stale: by_mac names an address its client holds.  (The
\* reverse fails: a client may hold an address without a hint.)
HintSound ==
  \A m \in Mac : by_mac[m] # None =>
    /\ Lookup(by_mac[m]) # None
    /\ Lookup(by_mac[m]).mac = m

\* A client that got an address from the server (rather than from the leases
\* file) holds that address only.
DynamicIsSole ==
  \A a, b \in Addr :
    /\ a # b
    /\ Lookup(a) # None
    /\ Lookup(b) # None
    /\ Lookup(a).mac = Lookup(b).mac
    => Lookup(a).expiry = None /\ Lookup(b).expiry = None

\* The name stored with a lease is one its holder announced: a name does not
\* outlive a change of holder.
NameFromHolder ==
  \A ip \in Addr :
    Lookup(ip) # None => Lookup(ip).name \in {None, NameOf[Lookup(ip).mac]}

\* What the server may not take away: a timed lease before its expiry has
\* passed, and a reservation outside the pool.
Protected(ip) ==
  /\ Lookup(ip) # None
  /\ \/ ip \notin Pool
     \/ Lookup(ip).expiry # None /\ now <= Lookup(ip).expiry

SameBinding(old, new) ==
  new # None /\ new.mac = old.mac /\ new.expiry = old.expiry

\* A protected lease keeps its holder and its expiry unless the holder itself
\* releases or declines it, or the process restarts; while the leases file
\* is loaded, a later line may replace an earlier one.
ProtectedKept ==
  [][\A ip \in Addr : Protected(ip) /\ phase = "serving" =>
       \/ SameBinding(Lookup(ip), Lookup(ip)')
       \/ Release(Lookup(ip).mac, ServerIp)
       \/ Restart]_vars

Told(type, mac) == out # None /\ out.type = type /\ out.mac = mac

\* A client that is told nothing because the pool is exhausted holds nothing,
\* and every address of the pool is under another client's unexpired lease.
ExhaustedMeansFull ==
  \A mac \in Mac : Told("Exhausted", mac) =>
    \A ip \in Addr :
      /\ ip \in Pool => Protected(ip)
      /\ Lookup(ip) # None => Lookup(ip).mac # mac

\* Offers reserve nothing, only the cursor keeps two clients that discover in
\* turn apart: a client without a lease is not offered the address the cursor
\* stands on while another one is available to it.
OffersSpread ==
  [][\A mac \in Mac : HasNoLease(mac) /\ Told("Offer", mac)' =>
       \/ out'.yiaddr # IpStart + last_lease
       \/ \A ip \in Pool : ip # out'.yiaddr => ~AvailableAt(mac, ip, now)]_vars

\* A permanent reservation of the leases file stays its client's until that
\* client gives it up.
PermanentKept ==
  [][\A ip \in Addr :
       phase = "serving" /\ Lookup(ip) # None /\ Lookup(ip).expiry = None =>
         \/ SameBinding(Lookup(ip), Lookup(ip)')
         \/ Release(Lookup(ip).mac, ServerIp)
         \/ Restart]_vars

\* The slots, the overflow map and the hints implement one map of leases.
LeaseView == [ip \in Addr |-> Lookup(ip)]

Promise == INSTANCE AbstractLeases WITH binding <- LeaseView, ReservationsLapse <- TRUE

\* Every behaviour of the server is one the storage-free specification allows.
KeepsPromise == Promise!Spec
=============================================================================
