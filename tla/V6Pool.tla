------------------------------- MODULE V6Pool -------------------------------
(***************************************************************************)
(* V6Pool (src/src/dhcpv6.rs), the allocator of the managed IPv6 range:    *)
(* the slot array with its counter, the overflow map, the DUID -> address  *)
(* hint and the round-robin cursor, with the methods that use them.        *)
(*                                                                         *)
(* Addresses are 0 .. MaxAddr (u128 in the code); None is an absent value, *)
(* and the expiry of a permanent reservation.                              *)
(***************************************************************************)
EXTENDS Integers, FiniteSets

CONSTANTS
  Duid,      \* client identifiers
  None,      \* absent
  MaxAddr,   \* the last IPv6 address
  Start,     \* first address of the range
  Count,     \* how many addresses it has
  MaxSlots   \* MAX_SLOTS: a larger range gets no slot array

ASSUME PoolAssumption ==
  /\ MaxAddr \in Nat /\ Start \in Nat /\ Count \in Nat /\ MaxSlots \in Nat
  /\ Start <= MaxAddr

UseSlots == Count <= MaxSlots

Addr == 0 .. MaxAddr
SlotIndex == IF UseSlots THEN 0 .. (Count - 1) ELSE {}

Lease == [duid : Duid, expiry : Nat \cup {None}]

ASSUME NoneAssumption == None \notin Duid \cup Nat \cup Lease

\* end is Some: start + count fits the address type.
EndKnown == Start + Count <= MaxAddr

\* in_range: a range whose end overflows contains nothing.
Pool == IF EndKnown THEN Start .. (Start + Count - 1) ELSE {}

VARIABLES
  slots,     \* in-range leases, indexed by addr - start
  filled,    \* how many slots are occupied
  overflow,  \* leases out of range; every lease of a hash-only pool
  by_duid,   \* where a client's lease was last put: a hint, maybe stale
  last       \* round-robin cursor

table == <<slots, filled, overflow, by_duid>>

TableTypeOK ==
  /\ slots \in [SlotIndex -> Lease \cup {None}]
  /\ filled \in Nat
  /\ overflow \in [Addr -> Lease \cup {None}]
  /\ by_duid \in [Duid -> Addr \cup {None}]

NoSlots == [i \in SlotIndex |-> None]
NoOverflow == [addr \in Addr |-> None]
NoHints == [d \in Duid |-> None]

EmptyTable ==
  slots = NoSlots /\ filled = 0 /\ overflow = NoOverflow /\ by_duid = NoHints

-----------------------------------------------------------------------------
(* Reading the pool *)

\* idx() is Some.
HasSlot(addr) == UseSlots /\ addr \in Pool
Idx(addr) == addr - Start

Lookup(addr) == IF HasSlot(addr) THEN slots[Idx(addr)] ELSE overflow[addr]

IsEmpty == filled = 0 /\ \A addr \in Addr : overflow[addr] = None

\* Faulty: a permanent reservation is free for the taking, as on the v4 side.
FaultyLapsed(lease, t) == lease.expiry # None => t > lease.expiry

\* A permanent reservation never lapses: `expiry.map_or(false, |exp| now > exp)`.
Lapsed(lease, t) == lease.expiry # None /\ t > lease.expiry

FreeFor(entry, duid, t) ==
  entry # None => entry.duid = duid \/ Lapsed(entry, t)

AvailableAt(duid, addr, t) ==
  \/ HasSlot(addr) /\ FreeFor(slots[Idx(addr)], duid, t)
  \/ ~UseSlots /\ addr \in Pool /\ FreeFor(overflow[addr], duid, t)

\* Faulty: the hint is believed without looking at what the address holds.
FaultyHintVerified(duid) == by_duid[duid] # None

HintVerified(duid) ==
  /\ by_duid[duid] # None
  /\ Lookup(by_duid[duid]) # None
  /\ Lookup(by_duid[duid]).duid = duid

SlotsOf(s, duid) == {i \in SlotIndex : s[i] # None /\ s[i].duid = duid}
OverflowOf(o, duid) == {addr \in Addr : o[addr] # None /\ o[addr].duid = duid}

\* A full scan: the client's first slot, or else any of its overflow entries.
Scan(s, o, duid) ==
  LET mine == SlotsOf(s, duid)
  IN  {Start + i : i \in {j \in mine : \A k \in mine : j <= k}}
        \cup (IF mine = {} THEN OverflowOf(o, duid) ELSE {})

\* The addresses current_lease(duid) may return.
CurrentLease(duid) ==
  IF IsEmpty THEN {}
  ELSE IF HintVerified(duid) THEN {by_duid[duid]}
  ELSE Scan(slots, overflow, duid)

\* Faulty: only the slots are scanned behind the hint.
FaultyHasNoLease(duid) ==
  \/ IsEmpty
  \/ ~HintVerified(duid) /\ SlotsOf(slots, duid) = {}

\* current_lease(duid) is None.
HasNoLease(duid) ==
  \/ IsEmpty
  \/ /\ ~HintVerified(duid)
     /\ SlotsOf(slots, duid) = {}
     /\ OverflowOf(overflow, duid) = {}

-----------------------------------------------------------------------------
(* discover: the cursor after k increments; free addresses *)

Cursor(k) == (last + k) % Count
Candidate(k) == Start + Cursor(k)

\* Faulty: discover() takes a lease for lapsed a moment before request() does.
FaultyFirstFree(duid, k, t) ==
  /\ k \in 1 .. Count
  /\ AvailableAt(duid, Candidate(k), t + 1)
  /\ \A j \in 1 .. (k - 1) : ~AvailableAt(duid, Candidate(j), t + 1)

FirstFree(duid, k, t) ==
  /\ k \in 1 .. Count
  /\ AvailableAt(duid, Candidate(k), t)
  /\ \A j \in 1 .. (k - 1) : ~AvailableAt(duid, Candidate(j), t)

\* No address is available, the cursor gone once round.
NoneFree(duid, t) == \A k \in 1 .. Count : ~AvailableAt(duid, Candidate(k), t)

-----------------------------------------------------------------------------
(* Writing the pool *)

Put(addr, entry) ==
  IF HasSlot(addr)
    THEN /\ slots' = [slots EXCEPT ![Idx(addr)] = entry]
         /\ filled' = IF slots[Idx(addr)] = None THEN filled + 1 ELSE filled
         /\ UNCHANGED overflow
    ELSE /\ overflow' = [overflow EXCEPT ![addr] = entry]
         /\ UNCHANGED <<slots, filled>>

\* insert(): a permanent reservation; the previous owner's hint is dropped if
\* it pointed here.
Insert(addr, duid) ==
  /\ Put(addr, [duid |-> duid, expiry |-> None])
  /\ LET old == Lookup(addr)
         dropped == IF old # None /\ old.duid # duid /\ by_duid[old.duid] = addr
                      THEN [by_duid EXCEPT ![old.duid] = None]
                      ELSE by_duid
     IN  by_duid' = [dropped EXCEPT ![duid] = addr]

\* The insertion in request(): the previous owner's hint stays as it is.
Commit(addr, duid, expiry) ==
  /\ Put(addr, [duid |-> duid, expiry |-> expiry])
  /\ by_duid' = [by_duid EXCEPT ![duid] = addr]

\* Faulty: the counter of slots goes down for an overflow entry as well.
FaultyRemove(duid, addr) ==
  /\ IF HasSlot(addr)
       THEN slots' = [slots EXCEPT ![Idx(addr)] = None] /\ UNCHANGED overflow
       ELSE overflow' = [overflow EXCEPT ![addr] = None] /\ UNCHANGED slots
  /\ filled' = filled - 1
  /\ UNCHANGED by_duid

\* release() of addr, duid's current lease: a hint that pointed there is
\* re-pointed at a surviving lease, if any.
Remove(duid, addr) ==
  /\ IF HasSlot(addr)
       THEN /\ slots' = [slots EXCEPT ![Idx(addr)] = None]
            /\ filled' = filled - 1
            /\ UNCHANGED overflow
       ELSE /\ overflow' = [overflow EXCEPT ![addr] = None]
            /\ UNCHANGED <<slots, filled>>
  /\ IF by_duid[duid] # addr
       THEN UNCHANGED by_duid
       ELSE LET left == Scan(slots', overflow', duid)
            IN  \E hint \in (IF left = {} THEN {None} ELSE left) :
                  by_duid' = [by_duid EXCEPT ![duid] = hint]
=============================================================================
