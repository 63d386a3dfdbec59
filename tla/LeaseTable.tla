----------------------------- MODULE LeaseTable -----------------------------
(***************************************************************************)
(* The IPv4 lease table of MyServer (src/src/main.rs): the dense slot      *)
(* array with its `filled` counter, the overflow map, and the MAC -> IP    *)
(* hint, with the methods that read and write them.                        *)
(*                                                                         *)
(* Addresses are the numbers 0 .. MaxAddr (the u32 the code computes       *)
(* with); 0 is 0.0.0.0.  An absent value (Option::None, a missing map key) *)
(* is None; an expiry of None is INFINITE_LEASE.                           *)
(***************************************************************************)
EXTENDS Integers, FiniteSets

CONSTANTS
  Mac,        \* client hardware addresses
  Name,       \* host names (option 12)
  None,       \* absent
  MaxAddr,    \* the last IPv4 address
  IpStart,    \* ip_start_num
  LeaseNum,   \* lease_num, the pool size
  MaxSlots    \* 100_000 in main.rs: a larger pool gets no slot array

\* Config::validate is what makes the pool fit the address space.
ASSUME PoolAssumption ==
  /\ MaxAddr \in Nat /\ IpStart \in Nat /\ LeaseNum \in Nat /\ MaxSlots \in Nat
  /\ IpStart + LeaseNum <= MaxAddr + 1

UseSlots == LeaseNum <= MaxSlots

Addr == 0 .. MaxAddr
Pool == IpStart .. (IpStart + LeaseNum - 1)
SlotIndex == IF UseSlots THEN 0 .. (LeaseNum - 1) ELSE {}

Lease == [mac : Mac, expiry : Nat \cup {None}, name : Name \cup {None}]

ASSUME NoneAssumption ==
  None \notin Mac \cup Name \cup Nat \cup Lease

VARIABLES
  slots,      \* in-pool leases, indexed by ip - ip_start_num
  filled,     \* how many slots are occupied
  overflow,   \* leases outside the pool; every lease of a hash-only pool
  by_mac      \* where a client's lease was last put: a hint

table == <<slots, filled, overflow, by_mac>>

TableTypeOK ==
  /\ slots \in [SlotIndex -> Lease \cup {None}]
  /\ filled \in Nat
  /\ overflow \in [Addr -> Lease \cup {None}]
  /\ by_mac \in [Mac -> Addr \cup {None}]

NoSlots == [i \in SlotIndex |-> None]
NoOverflow == [ip \in Addr |-> None]
NoHints == [m \in Mac |-> None]

EmptyTable ==
  slots = NoSlots /\ filled = 0 /\ overflow = NoOverflow /\ by_mac = NoHints

-----------------------------------------------------------------------------
(* Reading the table *)

\* idx() is Some: the address has a slot.
HasSlot(ip) == UseSlots /\ ip \in Pool
Idx(ip) == ip - IpStart

Lookup(ip) == IF HasSlot(ip) THEN slots[Idx(ip)] ELSE overflow[ip]

IsEmpty == filled = 0 /\ \A ip \in Addr : overflow[ip] = None

\* Faulty: the expiry instant itself already counts as past.
FaultyLapsed(lease, t) == lease.expiry # None => t >= lease.expiry

\* An infinite lease counts as lapsed: `expiry.map_or(true, |exp| now > exp)`.
Lapsed(lease, t) == lease.expiry # None => t > lease.expiry

FreeFor(entry, mac, t) ==
  entry # None => entry.mac = mac \/ Lapsed(entry, t)

\* Faulty: a hash-only pool without the range test.
FaultyAvailableAt(mac, ip, t) ==
  \/ HasSlot(ip) /\ FreeFor(slots[Idx(ip)], mac, t)
  \/ ~UseSlots /\ FreeFor(overflow[ip], mac, t)

\* Out-of-pool addresses are never available.
AvailableAt(mac, ip, t) ==
  \/ HasSlot(ip) /\ FreeFor(slots[Idx(ip)], mac, t)
  \/ ~UseSlots /\ ip \in Pool /\ FreeFor(overflow[ip], mac, t)

HintVerified(mac) ==
  /\ by_mac[mac] # None
  /\ Lookup(by_mac[mac]) # None
  /\ Lookup(by_mac[mac]).mac = mac

SlotsOf(s, mac) == {i \in SlotIndex : s[i] # None /\ s[i].mac = mac}
OverflowOf(o, mac) == {ip \in Addr : o[ip] # None /\ o[ip].mac = mac}

\* What a full scan for mac may come upon: its first slot, or else any of its
\* overflow entries (a HashMap is walked in no particular order).
Scan(s, o, mac) ==
  LET mine == SlotsOf(s, mac)
  IN  {IpStart + i : i \in {j \in mine : \A k \in mine : j <= k}}
        \cup (IF mine = {} THEN OverflowOf(o, mac) ELSE {})

\* The addresses current_lease(mac) may return.
CurrentLease(mac) ==
  IF IsEmpty THEN {}
  ELSE IF HintVerified(mac) THEN {by_mac[mac]}
  ELSE Scan(slots, overflow, mac)

\* Faulty: the hint alone is consulted, with no scan behind it.
FaultyHasNoLease(mac) == IsEmpty \/ ~HintVerified(mac)

\* current_lease(mac) is None.
HasNoLease(mac) ==
  \/ IsEmpty
  \/ /\ ~HintVerified(mac)
     /\ SlotsOf(slots, mac) = {}
     /\ OverflowOf(overflow, mac) = {}

-----------------------------------------------------------------------------
(* Writing the table *)

\* Faulty: the previous owner's hint is left pointing at ip.
FaultyHintsAfterInsert(ip, mac) == [by_mac EXCEPT ![mac] = ip]

\* The hints once ip has gone over to mac: the previous owner's is dropped if
\* it pointed at ip.
HintsAfterInsert(ip, mac) ==
  LET old == Lookup(ip)
      dropped == IF old # None /\ old.mac # mac /\ by_mac[old.mac] = ip
                   THEN [by_mac EXCEPT ![old.mac] = None]
                   ELSE by_mac
  IN  [dropped EXCEPT ![mac] = ip]

\* Faulty: taking a slot over counts as filling one.
FaultyPut(ip, entry) ==
  IF HasSlot(ip)
    THEN /\ slots' = [slots EXCEPT ![Idx(ip)] = entry]
         /\ filled' = filled + 1
         /\ UNCHANGED overflow
    ELSE /\ overflow' = [overflow EXCEPT ![ip] = entry]
         /\ UNCHANGED <<slots, filled>>

Put(ip, entry) ==
  IF HasSlot(ip)
    THEN /\ slots' = [slots EXCEPT ![Idx(ip)] = entry]
         /\ filled' = IF slots[Idx(ip)] = None THEN filled + 1 ELSE filled
         /\ UNCHANGED overflow
    ELSE /\ overflow' = [overflow EXCEPT ![ip] = entry]
         /\ UNCHANGED <<slots, filled>>

\* Faulty: a taken-over entry keeps its name when the new client sends none.
FaultyInsertLease(ip, mac, expiry, name) ==
  LET old == Lookup(ip)
      kept == IF name = None /\ old # None THEN old.name ELSE name
  IN  /\ Put(ip, [mac |-> mac, expiry |-> expiry, name |-> kept])
      /\ by_mac' = HintsAfterInsert(ip, mac)

InsertLease(ip, mac, expiry, name) ==
  /\ Put(ip, [mac |-> mac, expiry |-> expiry, name |-> name])
  /\ by_mac' = HintsAfterInsert(ip, mac)

\* Faulty: the counter of slots goes down for an overflow entry as well.
FaultyRemoveLease(mac, ip) ==
  /\ IF HasSlot(ip)
       THEN slots' = [slots EXCEPT ![Idx(ip)] = None] /\ UNCHANGED overflow
       ELSE overflow' = [overflow EXCEPT ![ip] = None] /\ UNCHANGED slots
  /\ filled' = filled - 1
  /\ by_mac' = IF by_mac[mac] = ip THEN [by_mac EXCEPT ![mac] = None] ELSE by_mac

\* mac gives up ip, its current lease.  A hint that pointed at ip is
\* re-pointed at a lease mac still has, if any.
RemoveLease(mac, ip) ==
  /\ IF HasSlot(ip)
       THEN /\ slots' = [slots EXCEPT ![Idx(ip)] = None]
            /\ filled' = filled - 1
            /\ UNCHANGED overflow
       ELSE /\ overflow' = [overflow EXCEPT ![ip] = None]
            /\ UNCHANGED <<slots, filled>>
  /\ IF by_mac[mac] # ip
       THEN UNCHANGED by_mac
       ELSE LET left == Scan(slots', overflow', mac)
            IN  \E hint \in (IF left = {} THEN {None} ELSE left) :
                  by_mac' = [by_mac EXCEPT ![mac] = hint]

\* A packet without option 12 leaves the stored name alone.
RememberHostname(ip, name) ==
  /\ LET entry == Lookup(ip)
         named == [entry EXCEPT !.name = name]
     IN  IF name = None \/ entry = None
           THEN UNCHANGED <<slots, overflow>>
         ELSE IF HasSlot(ip)
           THEN /\ slots' = [slots EXCEPT ![Idx(ip)] = named]
                /\ UNCHANGED overflow
           ELSE /\ overflow' = [overflow EXCEPT ![ip] = named]
                /\ UNCHANGED slots
  /\ UNCHANGED <<filled, by_mac>>
=============================================================================
