---------------------------- MODULE ServeV6Proofs ---------------------------
(***************************************************************************)
(* Proofs about ServeV6 for every value of its constants, ranges whose end *)
(* overflows included.                                                     *)
(*                                                                         *)
(* As on the IPv4 side the pool is read as one map, LeaseView; but hints   *)
(* may be stale here, so nothing rests on them: HintsHarmless is proved    *)
(* from the verification and the scan alone.                               *)
(***************************************************************************)
EXTENDS ServeV6, FiniteSetTheorems, TLAPS

LeaseView == [addr \in Addr |-> Lookup(addr)]

\* No in-range address has an entry in overflow that its slot would hide.
NoHiddenLease == \A addr \in Addr : HasSlot(addr) => overflow[addr] = None

\* Nothing is timed before the first message is served.
LoadedPermanent ==
  phase = "loading" =>
    \A addr \in Addr : Lookup(addr) # None => Lookup(addr).expiry = None

\* The slot array of a range whose end overflows is never used.
NoStraySlot == ~EndKnown => \A i \in SlotIndex : slots[i] = None

TableInv == TableTypeOK /\ FilledExact /\ NoHiddenLease /\ NoStraySlot

\* Between the two halves of a Rapid Commit: what discover() found is still
\* there for request() to take.
OfferStands ==
  offered # None /\ HasNoLease(offered.duid) =>
    AvailableAt(offered.duid, offered.addr, now)

LeasesInv ==
  /\ TableInv
  /\ LoadedPermanent
  /\ DynamicIsSole

Inv == TypeOK /\ LeasesInv /\ OfferStands

-----------------------------------------------------------------------------
(* The map a pool stands for *)

LEMMA PoolInAddr == Pool \subseteq Addr
BY PoolAssumption, SMT DEF Pool, Addr, EndKnown

\* idx() maps the addresses with a slot one to one into the slots.
LEMMA SlotOfAddress ==
  /\ \A addr \in Addr : HasSlot(addr) => Idx(addr) \in SlotIndex
  /\ \A a, b \in Addr : HasSlot(a) /\ HasSlot(b) /\ Idx(a) = Idx(b) => a = b
  /\ EndKnown => \A i \in SlotIndex :
       Start + i \in Addr /\ HasSlot(Start + i) /\ Idx(Start + i) = i
BY PoolAssumption, SMT DEF HasSlot, Idx, SlotIndex, Addr, Pool, UseSlots, EndKnown

LEMMA ViewType ==
  ASSUME TableTypeOK
  PROVE  /\ LeaseView \in [Addr -> Lease \cup {None}]
         /\ \A addr \in Addr : LeaseView[addr] = Lookup(addr)
BY SlotOfAddress DEF TableTypeOK, LeaseView, Lookup

LEMMA LeaseNotNone ==
  ASSUME NEW l \in Lease
  PROVE  l # None /\ l.duid \in Duid /\ l.expiry \in Nat \cup {None}
BY NoneAssumption DEF Lease

LEMMA SlotsFinite == \A S \in SUBSET SlotIndex : IsFiniteSet(S)
<1>1. Count - 1 \in Int /\ 0 \in Int
  BY PoolAssumption
<1>2. IsFiniteSet(0 .. (Count - 1))
  BY <1>1, FS_Interval
<1>3. IsFiniteSet(SlotIndex)
  BY <1>2, FS_EmptySet DEF SlotIndex
<1> QED BY <1>3, FS_Subset

LEMMA FillSlot ==
  ASSUME TableTypeOK, FilledExact,
         NEW i \in SlotIndex, NEW entry \in Lease,
         slots' = [slots EXCEPT ![i] = entry],
         filled' = IF slots[i] = None THEN filled + 1 ELSE filled
  PROVE  FilledExact' /\ filled' \in Nat
<1> DEFINE Occ == {j \in SlotIndex : slots[j] # None}
<1>1. IsFiniteSet(Occ)
  BY SlotsFinite
<1>2. {j \in SlotIndex : slots'[j] # None} = Occ \cup {i}
  BY NoneAssumption DEF TableTypeOK
<1>3. Cardinality(Occ \cup {i}) =
        IF i \in Occ THEN Cardinality(Occ) ELSE Cardinality(Occ) + 1
  BY <1>1, FS_AddElement
<1>4. Cardinality(Occ) \in Nat
  BY <1>1, FS_CardinalityType
<1> QED BY <1>2, <1>3, <1>4 DEF FilledExact

LEMMA EmptySlot ==
  ASSUME TableTypeOK, FilledExact,
         NEW i \in SlotIndex, slots[i] # None,
         slots' = [slots EXCEPT ![i] = None],
         filled' = filled - 1
  PROVE  FilledExact' /\ filled' \in Nat
<1> DEFINE Occ == {j \in SlotIndex : slots[j] # None}
<1>1. IsFiniteSet(Occ)
  BY SlotsFinite
<1>2. {j \in SlotIndex : slots'[j] # None} = Occ \ {i}
  BY DEF TableTypeOK
<1>3. /\ IsFiniteSet(Occ \ {i})
      /\ Cardinality(Occ \ {i}) = Cardinality(Occ) - 1
  BY <1>1, FS_RemoveElement
<1>4. Cardinality(Occ \ {i}) \in Nat
  BY <1>3, FS_CardinalityType
<1> QED BY <1>2, <1>3, <1>4 DEF FilledExact

\* is_empty() is right: an empty pool has no lease anywhere.
LEMMA EmptyHasNothing ==
  ASSUME TableInv, IsEmpty
  PROVE  \A addr \in Addr : LeaseView[addr] = None
<1> DEFINE Occ == {j \in SlotIndex : slots[j] # None}
<1>1. IsFiniteSet(Occ)
  BY SlotsFinite
<1>2. Occ = {}
  BY <1>1, FS_EmptySet DEF TableInv, FilledExact, IsEmpty
<1> QED
  BY <1>2, ViewType, SlotOfAddress DEF TableInv, IsEmpty, Lookup

-----------------------------------------------------------------------------
(* What the writing methods do to the map *)

LEMMA PutView ==
  ASSUME TableInv, NEW addr \in Addr, NEW entry \in Lease, Put(addr, entry),
         by_duid' \in [Duid -> Addr \cup {None}]
  PROVE  /\ LeaseView' = [LeaseView EXCEPT ![addr] = entry]
         /\ TableInv'
<1>1. CASE HasSlot(addr)
  <2>1. Idx(addr) \in SlotIndex
    BY <1>1, SlotOfAddress
  <2>0. EndKnown
    BY <1>1 DEF HasSlot, Pool
  <2>2. /\ slots' = [slots EXCEPT ![Idx(addr)] = entry]
        /\ filled' = IF slots[Idx(addr)] = None THEN filled + 1 ELSE filled
        /\ overflow' = overflow
    BY <1>1 DEF Put
  <2>3. FilledExact' /\ filled' \in Nat
    BY <2>1, <2>2, FillSlot DEF TableInv
  <2>4. LeaseView' = [LeaseView EXCEPT ![addr] = entry]
    BY <1>1, <2>1, <2>2, SlotOfAddress
    DEF LeaseView, Lookup, TableInv, TableTypeOK, HasSlot
  <2> QED
    BY <2>0, <2>1, <2>2, <2>3, <2>4
    DEF TableInv, TableTypeOK, NoHiddenLease, NoStraySlot, HasSlot
<1>2. CASE ~HasSlot(addr)
  <2>1. /\ overflow' = [overflow EXCEPT ![addr] = entry]
        /\ UNCHANGED <<slots, filled>>
    BY <1>2 DEF Put
  <2> QED
    BY <1>2, <2>1 DEF LeaseView, Lookup, TableInv, TableTypeOK, FilledExact,
      NoHiddenLease, NoStraySlot, HasSlot
<1> QED BY <1>1, <1>2

LEMMA InsertView ==
  ASSUME TableInv, NEW addr \in Addr, NEW duid \in Duid, Insert(addr, duid)
  PROVE  /\ LeaseView' = [LeaseView EXCEPT ![addr] = [duid |-> duid, expiry |-> None]]
         /\ TableInv'
<1>1. [duid |-> duid, expiry |-> None] \in Lease
  BY DEF Lease
<1>2. by_duid' \in [Duid -> Addr \cup {None}]
  BY ViewType DEF Insert, TableInv, TableTypeOK
<1> QED BY <1>1, <1>2, PutView DEF Insert

LEMMA CommitView ==
  ASSUME TableInv, NEW addr \in Addr, NEW duid \in Duid, NEW expiry \in Nat,
         Commit(addr, duid, expiry)
  PROVE  /\ LeaseView' = [LeaseView EXCEPT ![addr] = [duid |-> duid, expiry |-> expiry]]
         /\ TableInv'
<1>1. [duid |-> duid, expiry |-> expiry] \in Lease
  BY DEF Lease
<1>2. by_duid' \in [Duid -> Addr \cup {None}]
  BY DEF Commit, TableInv, TableTypeOK
<1> QED BY <1>1, <1>2, PutView DEF Commit

\* What a scan comes upon is held by the client it looks for.
LEMMA ScanFinds ==
  ASSUME NEW s, NEW o, NEW duid, NEW addr \in Scan(s, o, duid)
  PROVE  \/ \E i \in SlotIndex : addr = Start + i /\ s[i] # None /\ s[i].duid = duid
         \/ addr \in Addr /\ o[addr] # None /\ o[addr].duid = duid
BY DEF Scan, SlotsOf, OverflowOf


Holds(duid, addr) == addr \in Addr /\ Lookup(addr) # None /\ Lookup(addr).duid = duid

\* A slot found by a scan belongs to the address it stands for.
LEMMA SlotHolds ==
  ASSUME TableInv, NEW duid, NEW addr, NEW i \in SlotIndex,
         addr = Start + i, slots[i] # None, slots[i].duid = duid
  PROVE  Holds(duid, addr)
BY SlotOfAddress DEF Holds, Lookup, TableInv, NoStraySlot

LEMMA ScanHolds ==
  ASSUME TableInv, NEW duid, NEW addr \in Scan(slots, overflow, duid)
  PROVE  Holds(duid, addr)
<1>1. CASE \E i \in SlotIndex : addr = Start + i /\ slots[i] # None /\ slots[i].duid = duid
  BY <1>1, SlotHolds
<1>2. CASE addr \in Addr /\ overflow[addr] # None /\ overflow[addr].duid = duid
  BY <1>2 DEF TableInv, NoHiddenLease, Holds, Lookup
<1> QED BY <1>1, <1>2, ScanFinds

\* current_lease only ever names an address the client holds ...
LEMMA CurrentLeaseHeld ==
  ASSUME TableInv, NEW duid \in Duid, NEW addr \in CurrentLease(duid)
  PROVE  Holds(duid, addr)
<1>1. CASE HintVerified(duid)
  <2>1. addr = by_duid[duid]
    BY <1>1 DEF CurrentLease
  <2> QED
    BY <1>1, <2>1 DEF HintVerified, Holds, TableInv, TableTypeOK
<1>2. CASE ~HintVerified(duid)
  <2>1. addr \in Scan(slots, overflow, duid)
    BY <1>2 DEF CurrentLease
  <2> QED BY <2>1, ScanHolds
<1> QED BY <1>1, <1>2

\* ... and when it names none, the client holds nothing.
LEMMA HasNoLeaseHolds ==
  ASSUME TableInv, NEW duid \in Duid, HasNoLease(duid)
  PROVE  \A addr \in Addr : ~Holds(duid, addr)
<1>1. CASE IsEmpty
  BY <1>1, EmptyHasNothing, ViewType DEF TableInv, Holds
<1>2. CASE ~IsEmpty
  BY <1>2, SlotOfAddress DEF HasNoLease, SlotsOf, OverflowOf, Holds, Lookup
<1> QED BY <1>1, <1>2

LEMMA RemoveView ==
  ASSUME TableInv, NEW addr \in Addr, NEW duid \in Duid, Holds(duid, addr),
         Remove(duid, addr)
  PROVE  /\ LeaseView' = [LeaseView EXCEPT ![addr] = None]
         /\ TableInv'
<1>1. /\ slots' \in [SlotIndex -> Lease \cup {None}]
      /\ overflow' \in [Addr -> Lease \cup {None}]
      /\ filled' \in Nat
      /\ FilledExact'
      /\ NoHiddenLease'
      /\ NoStraySlot'
      /\ LeaseView' = [LeaseView EXCEPT ![addr] = None]
  <2>1. CASE HasSlot(addr)
    <3>1. /\ slots' = [slots EXCEPT ![Idx(addr)] = None]
          /\ filled' = filled - 1
          /\ overflow' = overflow
      BY <2>1 DEF Remove
    <3>2. Idx(addr) \in SlotIndex /\ slots[Idx(addr)] # None
      BY <2>1, SlotOfAddress DEF Lookup, Holds
    <3>3. FilledExact' /\ filled' \in Nat
      BY <3>1, <3>2, EmptySlot DEF TableInv
    <3>4. LeaseView' = [LeaseView EXCEPT ![addr] = None]
      BY <2>1, <3>1, <3>2, SlotOfAddress
      DEF LeaseView, Lookup, TableInv, TableTypeOK, HasSlot
    <3> QED
      BY <3>1, <3>2, <3>3, <3>4
      DEF TableInv, TableTypeOK, NoHiddenLease, NoStraySlot, HasSlot
  <2>2. CASE ~HasSlot(addr)
    <3>1. overflow' = [overflow EXCEPT ![addr] = None] /\ UNCHANGED <<slots, filled>>
      BY <2>2 DEF Remove
    <3> QED
      BY <2>2, <3>1 DEF LeaseView, Lookup, TableInv, TableTypeOK, FilledExact,
        NoHiddenLease, NoStraySlot, HasSlot
  <2> QED BY <2>1, <2>2
<1>2. \A a \in Scan(slots', overflow', duid) : a \in Addr
  <2> SUFFICES ASSUME NEW a \in Scan(slots', overflow', duid) PROVE a \in Addr
    OBVIOUS
  <2>1. CASE \E i \in SlotIndex : a = Start + i /\ slots'[i] # None /\ slots'[i].duid = duid
    BY <1>1, <2>1, SlotOfAddress DEF NoStraySlot
  <2> QED BY <2>1, ScanFinds
<1>3. by_duid' \in [Duid -> Addr \cup {None}]
  <2>1. CASE by_duid[duid] # addr
    BY <2>1 DEF Remove, TableInv, TableTypeOK
  <2>2. CASE by_duid[duid] = addr
    <3> DEFINE left == Scan(slots', overflow', duid)
    <3>1. \E hint \in (IF left = {} THEN {None} ELSE left) :
            by_duid' = [by_duid EXCEPT ![duid] = hint]
      BY <2>2 DEF Remove
    <3> QED BY <1>2, <3>1 DEF TableInv, TableTypeOK
  <2> QED BY <2>1, <2>2
<1> QED BY <1>1, <1>3 DEF TableInv, TableTypeOK

-----------------------------------------------------------------------------
(* The cursor *)

LEMMA ModRange ==
  ASSUME NEW n \in Nat, n > 0, NEW x \in Nat
  PROVE  /\ x % n \in Nat /\ x % n < n
         /\ x < n => x % n = x
         /\ n <= x /\ x < 2 * n => x % n = x - n
OBVIOUS

LEMMA CursorInRange ==
  ASSUME last \in Nat, NEW k \in 1 .. Count
  PROVE  Cursor(k) \in Nat /\ Cursor(k) < Count
<1>1. Count \in Nat /\ Count > 0 /\ last + k \in Nat
  BY PoolAssumption
<1> QED BY <1>1, ModRange DEF Cursor

\* Count increments of the cursor go through the whole range.
LEMMA CandidatesCoverPool ==
  ASSUME TypeOK, NEW addr \in Pool
  PROVE  \E k \in 1 .. Count : Candidate(k) = addr
<1> DEFINE d == addr - Start
           k == IF d > last THEN d - last ELSE d - last + Count
<1>1. /\ Count \in Nat /\ Count > 0 /\ Start \in Nat
      /\ d \in Nat /\ d < Count /\ addr = Start + d
      /\ last \in Nat /\ last < Count
  BY PoolAssumption DEF TypeOK, Pool
<1>2. k \in 1 .. Count
  BY <1>1
<1>3. (last + k) % Count = d
  <2>1. CASE d > last
    BY <1>1, <2>1, ModRange
  <2>2. CASE ~(d > last)
    <3>1. last + k = d + Count
      BY <1>1, <2>2
    <3>2. d + Count \in Nat /\ Count <= d + Count /\ d + Count < 2 * Count
      BY <1>1
    <3>3. (d + Count) % Count = d + Count - Count
      BY <1>1, <3>2, ModRange
    <3> QED BY <1>1, <3>1, <3>3
  <2> QED BY <2>1, <2>2
<1>4. Candidate(k) = addr
  BY <1>1, <1>3 DEF Candidate, Cursor
<1> QED BY <1>2, <1>4

LEMMA AvailableInPool ==
  ASSUME NEW duid, NEW addr, NEW t, AvailableAt(duid, addr, t)
  PROVE  addr \in Pool /\ addr \in Addr
BY PoolInAddr DEF AvailableAt, HasSlot

LEMMA AvailableFree ==
  ASSUME NEW duid, NEW addr \in Addr, NEW t
  PROVE  AvailableAt(duid, addr, t) <=> addr \in Pool /\ FreeFor(Lookup(addr), duid, t)
BY DEF AvailableAt, HasSlot, Lookup

\* Time only ever makes more addresses available.
LEMMA AvailableLater ==
  ASSUME TableInv, NEW duid, NEW addr \in Addr, NEW t \in Nat,
         AvailableAt(duid, addr, t)
  PROVE  AvailableAt(duid, addr, t + 1)
<1>1. Lookup(addr) # None => Lookup(addr).expiry \in Nat \cup {None}
  BY ViewType, LeaseNotNone DEF TableInv
<1> QED BY <1>1, AvailableFree, NoneAssumption DEF FreeFor, Lapsed

-----------------------------------------------------------------------------
(* How each use of the pool preserves LeasesInv *)

\* request() gives a client without a lease one that will run out.
LEMMA CommittedLease ==
  ASSUME LeasesInv, phase = "serving", UNCHANGED phase,
         NEW duid \in Duid, NEW addr \in Addr, NEW expiry \in Nat,
         HasNoLease(duid),
         Commit(addr, duid, expiry)
  PROVE  LeasesInv'
<1>1. /\ LeaseView' = [LeaseView EXCEPT ![addr] = [duid |-> duid, expiry |-> expiry]]
      /\ TableInv'
  BY CommitView DEF LeasesInv
<1>2. /\ LeaseView \in [Addr -> Lease \cup {None}]
      /\ \A a \in Addr : LeaseView[a] = Lookup(a) /\ LeaseView'[a] = Lookup(a)'
  BY ViewType DEF LeasesInv, TableInv, LeaseView
<1>3. \A a \in Addr : LeaseView[a] # None => LeaseView[a].duid # duid
  BY <1>2, HasNoLeaseHolds DEF LeasesInv, Holds
<1>4. DynamicIsSole'
  BY <1>1, <1>2, <1>3 DEF LeasesInv, DynamicIsSole
<1>5. LoadedPermanent'
  BY DEF LoadedPermanent
<1> QED BY <1>1, <1>4, <1>5 DEF LeasesInv

\* The loader gives any client a permanent reservation.
LEMMA LoadedLease ==
  ASSUME LeasesInv, phase = "loading", UNCHANGED phase,
         NEW duid \in Duid, NEW addr \in Addr,
         Insert(addr, duid)
  PROVE  LeasesInv'
<1>1. /\ LeaseView' = [LeaseView EXCEPT ![addr] = [duid |-> duid, expiry |-> None]]
      /\ TableInv'
  BY InsertView DEF LeasesInv
<1>2. /\ LeaseView \in [Addr -> Lease \cup {None}]
      /\ \A a \in Addr : LeaseView[a] = Lookup(a) /\ LeaseView'[a] = Lookup(a)'
  BY ViewType DEF LeasesInv, TableInv, LeaseView
<1>3. \A a \in Addr : LeaseView'[a] # None => LeaseView'[a].expiry = None
  BY <1>1, <1>2 DEF LeasesInv, LoadedPermanent
<1>4. LoadedPermanent' /\ DynamicIsSole'
  BY <1>2, <1>3 DEF LoadedPermanent, DynamicIsSole
<1> QED BY <1>1, <1>4 DEF LeasesInv

\* A client gives up its current lease.
LEMMA RemovedLease ==
  ASSUME LeasesInv, UNCHANGED phase,
         NEW duid \in Duid, NEW addr \in CurrentLease(duid),
         Remove(duid, addr)
  PROVE  LeasesInv'
<1>1. Holds(duid, addr)
  BY CurrentLeaseHeld DEF LeasesInv
<1>2. /\ LeaseView' = [LeaseView EXCEPT ![addr] = None]
      /\ TableInv'
  BY <1>1, RemoveView DEF LeasesInv, Holds
<1>3. /\ LeaseView \in [Addr -> Lease \cup {None}]
      /\ \A a \in Addr : LeaseView[a] = Lookup(a) /\ LeaseView'[a] = Lookup(a)'
  BY ViewType DEF LeasesInv, TableInv, LeaseView
<1>4. \A a \in Addr : LeaseView'[a] # None => LeaseView'[a] = LeaseView[a]
  BY <1>2, <1>3
<1>5. LoadedPermanent' /\ DynamicIsSole'
  BY <1>3, <1>4 DEF LeasesInv, LoadedPermanent, DynamicIsSole
<1> QED BY <1>2, <1>5 DEF LeasesInv

\* A step that leaves the pool alone, and does not start the loader.
LEMMA UnchangedTable ==
  ASSUME LeasesInv, UNCHANGED table, phase' = "loading" => phase = "loading"
  PROVE  LeasesInv'
<1>1. \A addr \in Addr : Lookup(addr)' = Lookup(addr)
  BY DEF Lookup, table
<1>2. TableInv'
  BY DEF LeasesInv, TableInv, TableTypeOK, FilledExact, NoHiddenLease, NoStraySlot, table
<1> QED BY <1>1, <1>2 DEF LeasesInv, LoadedPermanent, DynamicIsSole

\* The pool of a process that has just started.
LEMMA FreshTable ==
  ASSUME EmptyTable
  PROVE  LeasesInv
<1> USE DEF EmptyTable, NoSlots, NoOverflow, NoHints
<1>1. TableTypeOK
  BY DEF TableTypeOK
<1>2. FilledExact
  <2>1. {i \in SlotIndex : slots[i] # None} = {}
    OBVIOUS
  <2> QED BY <2>1, FS_EmptySet DEF FilledExact
<1>3. \A addr \in Addr : Lookup(addr) = None
  BY SlotOfAddress DEF Lookup
<1>4. NoHiddenLease /\ NoStraySlot
  BY DEF NoHiddenLease, NoStraySlot
<1> QED
  BY <1>1, <1>2, <1>3, <1>4 DEF LeasesInv, TableInv, LoadedPermanent, DynamicIsSole

LEMMA FreshTableAfter ==
  ASSUME EmptyTable'
  PROVE  LeasesInv'
<1> USE DEF EmptyTable, NoSlots, NoOverflow, NoHints
<1>1. TableTypeOK'
  BY DEF TableTypeOK
<1>2. FilledExact'
  <2>1. {i \in SlotIndex : slots'[i] # None} = {}
    OBVIOUS
  <2> QED BY <2>1, FS_EmptySet DEF FilledExact
<1>3. \A addr \in Addr : Lookup(addr)' = None
  BY SlotOfAddress DEF Lookup, HasSlot
<1>4. NoHiddenLease' /\ NoStraySlot'
  BY DEF NoHiddenLease, NoStraySlot
<1> QED
  BY <1>1, <1>2, <1>3, <1>4 DEF LeasesInv, TableInv, LoadedPermanent, DynamicIsSole

-----------------------------------------------------------------------------
(* The inductive invariant *)

\* What TypeOK says besides the type of the pool.
RestTypeOK ==
  /\ last \in Nat
  /\ Count > 0 => last < Count
  /\ now \in 0 .. MaxTime
  /\ phase \in {"loading", "serving"}
  /\ file \in Seq(Line)
  /\ offered \in Offered \cup {None}
  /\ offered # None => phase = "serving"
  /\ out \in Message \cup {None}

LEMMA InvSplit ==
  /\ Inv <=> RestTypeOK /\ LeasesInv /\ OfferStands
  /\ Inv' <=> RestTypeOK' /\ LeasesInv' /\ OfferStands'
BY DEF Inv, TypeOK, RestTypeOK, LeasesInv, TableInv

\* Outside a Rapid Commit there is no offer to stand.
LEMMA NoOffer ==
  /\ offered = None => OfferStands
  /\ offered' = None => OfferStands'
BY DEF OfferStands

LEMMA InitInv == Init => Inv
<1> SUFFICES ASSUME Init PROVE Inv
  OBVIOUS
<1>1. LeasesInv
  BY FreshTable DEF Init
<1>2. RestTypeOK
  BY PoolAssumption, ServerAssumption DEF Init, RestTypeOK
<1> QED BY <1>1, <1>2, InvSplit, NoOffer DEF Init

LEMMA StartUpInv ==
  ASSUME Inv, LoadLine \/ StartServing \/ Restart
  PROVE  Inv'
<1> USE InvSplit, NoOffer
<1>1. CASE LoadLine
  <2> DEFINE line == Head(file)
  <2>1. file \in Seq(Line) /\ file # <<>> /\ offered = None
    BY <1>1 DEF LoadLine, RestTypeOK
  <2>2. line \in Line /\ file' \in Seq(Line)
    BY <1>1, <2>1 DEF LoadLine
  <2>3. RestTypeOK'
    BY <1>1, <2>2 DEF LoadLine, RestTypeOK
  <2>4. LeasesInv'
    <3>1. CASE line = None
      BY <1>1, <3>1, UnchangedTable DEF LoadLine
    <3>2. CASE line # None
      <4>1. line.duid \in Duid /\ line.addr \in Addr
        BY <2>2, <3>2 DEF Line
      <4> QED BY <1>1, <3>2, <4>1, LoadedLease DEF LoadLine
    <3> QED BY <3>1, <3>2
  <2> QED BY <1>1, <2>1, <2>3, <2>4 DEF LoadLine
<1>2. CASE StartServing
  <2>1. RestTypeOK' /\ offered' = None
    BY <1>2 DEF StartServing, RestTypeOK
  <2>2. LeasesInv'
    BY <1>2, UnchangedTable DEF StartServing
  <2> QED BY <2>1, <2>2
<1>3. CASE Restart
  <2>1. RestTypeOK' /\ offered' = None
    BY <1>3, ServerAssumption, PoolAssumption DEF Restart, RestTypeOK
  <2>2. LeasesInv'
    BY <1>3, FreshTableAfter DEF Restart, EmptyTable
  <2> QED BY <2>1, <2>2
<1> QED BY <1>1, <1>2, <1>3

\* What discover() found stays available as time passes.
LEMMA TickInv ==
  ASSUME Inv, Tick
  PROVE  Inv'
<1>1. RestTypeOK'
  BY ServerAssumption, InvSplit DEF Tick, RestTypeOK
<1>2. LeasesInv'
  BY UnchangedTable, InvSplit DEF Tick
<1>3. OfferStands'
  <2> SUFFICES ASSUME offered # None, HasNoLease(offered.duid)'
               PROVE  AvailableAt(offered.duid, offered.addr, now)'
    BY DEF OfferStands, Tick
  <2>1. HasNoLease(offered.duid)
    BY DEF Tick, table, HasNoLease, IsEmpty, HintVerified, SlotsOf, OverflowOf, Lookup
  <2>2. offered.addr \in Addr /\ now \in Nat
    BY InvSplit, ServerAssumption DEF RestTypeOK, Offered
  <2>3. AvailableAt(offered.duid, offered.addr, now)
    BY <2>1, InvSplit DEF OfferStands
  <2>4. AvailableAt(offered.duid, offered.addr, now + 1)
    BY <2>2, <2>3, AvailableLater, InvSplit DEF LeasesInv
  <2> QED BY <2>4 DEF Tick, table, AvailableAt
<1> QED BY <1>1, <1>2, <1>3, InvSplit

\* discover() moves the cursor along the range, and nothing else.
LEMMA DiscoverCursor ==
  ASSUME RestTypeOK, LeasesInv,
         NEW duid \in Duid, NEW addr \in Addr, Discover(duid, addr)
  PROVE  /\ last' \in Nat
         /\ Count > 0 => last' < Count
         /\ addr \in CurrentLease(duid) \/ AvailableAt(duid, addr, now)
BY CursorInRange DEF Discover, RestTypeOK, FirstFree

LEMMA SolicitInv ==
  ASSUME Inv, NEW duid \in Duid,
         Solicit(duid) \/ SolicitNone(duid) \/ SolicitRapidNone(duid)
  PROVE  Inv'
<1>1. offered' = None /\ UNCHANGED <<table, now, phase, file, offered>> /\ OfferStands'
  BY NoOffer DEF Solicit, SolicitNone, SolicitRapidNone, Idle
<1>2. LeasesInv'
  BY <1>1, UnchangedTable, InvSplit
<1>3. RestTypeOK'
  <2>1. CASE Solicit(duid)
    <3>1. PICK addr \in Addr :
            Discover(duid, addr) /\ Send("Advertise", "Solicit", duid, addr)
      BY <2>1 DEF Solicit
    <3>2. last' \in Nat /\ (Count > 0 => last' < Count)
      BY <3>1, DiscoverCursor, InvSplit
    <3> QED BY <1>1, <3>1, <3>2, InvSplit DEF RestTypeOK, Send, Message
  <2>2. CASE SolicitNone(duid) \/ SolicitRapidNone(duid)
    BY <1>1, <2>2, InvSplit
    DEF SolicitNone, SolicitRapidNone, DiscoverNone, RestTypeOK, Send, Message
  <2> QED BY <2>1, <2>2
<1> QED BY <1>1, <1>2, <1>3, InvSplit

\* The offer of a Rapid Commit is the current lease or an available address.
LEMMA SolicitRapidInv ==
  ASSUME Inv, NEW duid \in Duid, SolicitRapid(duid)
  PROVE  Inv'
<1>1. PICK addr \in Addr :
        Discover(duid, addr) /\ offered' = [duid |-> duid, addr |-> addr]
  BY DEF SolicitRapid
<1>2. /\ last' \in Nat /\ (Count > 0 => last' < Count)
      /\ addr \in CurrentLease(duid) \/ AvailableAt(duid, addr, now)
  BY <1>1, DiscoverCursor, InvSplit
<1>3. LeasesInv'
  BY UnchangedTable, InvSplit DEF SolicitRapid
<1>4. RestTypeOK'
  BY <1>1, <1>2, InvSplit DEF SolicitRapid, Idle, RestTypeOK, Offered
<1>5. OfferStands'
  <2> SUFFICES ASSUME HasNoLease(duid)'
               PROVE  AvailableAt(duid, addr, now)'
    BY <1>1 DEF OfferStands
  <2>1. UNCHANGED <<table, now>>
    BY DEF SolicitRapid
  <2>2. HasNoLease(duid)
    BY <2>1 DEF table, HasNoLease, IsEmpty, HintVerified, SlotsOf, OverflowOf, Lookup
  <2>3. addr \notin CurrentLease(duid)
    BY <2>2, CurrentLeaseHeld, HasNoLeaseHolds, InvSplit DEF LeasesInv, Holds
  <2> QED BY <1>2, <2>1, <2>3 DEF table, AvailableAt
<1> QED BY <1>3, <1>4, <1>5, InvSplit

\* request() itself, called by two handlers.
LEMMA RequestedInv ==
  ASSUME RestTypeOK, LeasesInv, phase = "serving",
         UNCHANGED <<last, now, phase, file>>, offered' = None,
         NEW answers \in {"Solicit", "Request"},
         NEW duid \in Duid, NEW addr \in Addr, Requested(answers, duid, addr)
  PROVE  Inv'
<1>1. RestTypeOK'
  <2>1. out' \in Message
    <3>1. \A held \in CurrentLease(duid) : held \in Addr
      BY CurrentLeaseHeld DEF LeasesInv, Holds
    <3> QED BY <3>1 DEF Requested, Send, Message
  <2> QED BY <2>1 DEF RestTypeOK
<1>2. LeasesInv'
  <2>1. CASE UNCHANGED table
    BY <2>1, UnchangedTable
  <2>2. CASE HasNoLease(duid) /\ Commit(addr, duid, now + LeaseDuration)
    <3>1. now + LeaseDuration \in Nat
      BY ServerAssumption DEF RestTypeOK
    <3> QED BY <2>2, <3>1, CommittedLease
  <2> QED BY <2>1, <2>2 DEF Requested
<1> QED BY <1>1, <1>2, InvSplit, NoOffer

LEMMA RequestInv ==
  ASSUME Inv, NEW duid \in Duid, NEW wanted \in Addr, Request(duid, wanted)
  PROVE  Inv'
BY RequestedInv, InvSplit DEF Request, Idle

LEMMA RapidCommitInv ==
  ASSUME Inv, RapidCommit
  PROVE  Inv'
<1>1. offered.duid \in Duid /\ offered.addr \in Addr
  BY InvSplit DEF RapidCommit, RestTypeOK, Offered
<1> QED BY <1>1, RequestedInv, InvSplit DEF RapidCommit

LEMMA ReleaseInv ==
  ASSUME Inv, NEW duid \in Duid, NEW server_id, Release(duid, server_id)
  PROVE  Inv'
<1>1. RestTypeOK' /\ offered' = None
  BY InvSplit DEF Release, Idle, RestTypeOK
<1>2. LeasesInv'
  BY RemovedLease, InvSplit DEF Release
<1> QED BY <1>1, <1>2, InvSplit, NoOffer

LEMMA StepInv == Inv /\ [Next]_vars => Inv'
<1> SUFFICES ASSUME Inv, [Next]_vars PROVE Inv'
  OBVIOUS
<1>1. CASE LoadLine \/ StartServing \/ Restart
  BY <1>1, StartUpInv
<1>2. CASE Tick \/ RapidCommit
  BY <1>2, TickInv, RapidCommitInv
<1>3. ASSUME NEW duid \in Duid, HandleMessage(duid)
      PROVE  Inv'
  BY <1>3, SolicitInv, SolicitRapidInv, RequestInv, ReleaseInv DEF HandleMessage
<1>4. CASE Ignored
  <2>1. RestTypeOK' /\ offered' = None
    BY <1>4, InvSplit DEF Ignored, Idle, RestTypeOK
  <2>2. LeasesInv'
    BY <1>4, UnchangedTable, InvSplit DEF Ignored
  <2> QED BY <2>1, <2>2, InvSplit, NoOffer
<1>5. CASE UNCHANGED vars
  <2>1. LeasesInv'
    BY <1>5, UnchangedTable, InvSplit DEF vars, table
  <2>2. RestTypeOK'
    BY <1>5, InvSplit DEF vars, RestTypeOK
  <2>3. OfferStands'
    BY <1>5, InvSplit DEF vars, OfferStands, AvailableAt, HasNoLease, IsEmpty,
      HintVerified, SlotsOf, OverflowOf, Lookup
  <2> QED BY <2>1, <2>2, <2>3, InvSplit
<1> QED BY <1>1, <1>2, <1>3, <1>4, <1>5 DEF Next

LEMMA Invariance == Spec => []Inv
BY InitInv, StepInv, PTL DEF Spec

\* Every variable of the thread keeps its type.
THEOREM TypeCorrect == Spec => []TypeOK
BY Invariance, PTL DEF Inv

\* The counter behind is_empty() always agrees with the slot array.
THEOREM FilledCorrect == Spec => []FilledExact
BY Invariance, PTL DEF Inv, LeasesInv, TableInv

\* A client with an address from the range's free ones holds no other.
THEOREM DynamicLeasesAreSole == Spec => []DynamicIsSole
BY Invariance, PTL DEF Inv, LeasesInv

\* Stale hints never mislead current_lease.
THEOREM StaleHintsAreHarmless == Spec => []HintsHarmless
<1>1. Inv => HintsHarmless
  BY CurrentLeaseHeld, HasNoLeaseHolds DEF Inv, LeasesInv, HintsHarmless, Holds
<1> QED BY <1>1, Invariance, PTL

-----------------------------------------------------------------------------
(* Who may take an address, and when *)

\* For a client that holds nothing, available means unprotected.
LEMMA AvailableIsUnprotected ==
  ASSUME TableInv, now \in Nat,
         NEW duid \in Duid, HasNoLease(duid), NEW addr \in Addr
  PROVE  AvailableAt(duid, addr, now) <=> addr \in Pool /\ ~Protected(addr)
<1>1. Lookup(addr) # None => Lookup(addr) \in Lease /\ Lookup(addr).duid # duid
  BY ViewType, HasNoLeaseHolds DEF TableInv, Holds
<1>2. Lookup(addr) # None => Lookup(addr).expiry \in Nat \cup {None}
  BY <1>1, LeaseNotNone
<1> QED BY <1>1, <1>2, AvailableFree DEF FreeFor, Lapsed, Protected

KeepsLease(addr) ==
  Protected(addr) /\ phase = "serving" =>
    \/ Lookup(addr)' = Lookup(addr)
    \/ Release(Lookup(addr).duid, ServerDuid)
    \/ Restart

LEMMA SameTableKeeps ==
  ASSUME UNCHANGED table, NEW addr \in Addr
  PROVE  KeepsLease(addr)
BY DEF table, KeepsLease, Lookup

\* request() commits an unprotected address or none.
LEMMA RequestedKeeps ==
  ASSUME Inv, NEW answers, NEW duid \in Duid, NEW wanted \in Addr,
         Requested(answers, duid, wanted),
         NEW addr \in Addr
  PROVE  KeepsLease(addr)
<1>1. CASE UNCHANGED table
  BY <1>1, SameTableKeeps
<1>2. CASE /\ HasNoLease(duid) /\ AvailableAt(duid, wanted, now)
           /\ Commit(wanted, duid, now + LeaseDuration)
  <2>1. now \in Nat /\ now + LeaseDuration \in Nat
    BY ServerAssumption, InvSplit DEF RestTypeOK
  <2>2. ~Protected(wanted)
    BY <1>2, <2>1, AvailableIsUnprotected, InvSplit DEF LeasesInv
  <2>3. LeaseView' = [LeaseView EXCEPT ![wanted] =
                        [duid |-> duid, expiry |-> now + LeaseDuration]]
    BY <1>2, <2>1, CommitView, InvSplit DEF LeasesInv
  <2>4. /\ LeaseView \in [Addr -> Lease \cup {None}]
        /\ LeaseView[addr] = Lookup(addr) /\ LeaseView'[addr] = Lookup(addr)'
    BY ViewType, InvSplit DEF LeasesInv, TableInv, LeaseView
  <2>5. addr # wanted => LeaseView'[addr] = LeaseView[addr]
    BY <2>3, <2>4
  <2> QED BY <2>2, <2>4, <2>5 DEF KeepsLease
<1> QED BY <1>1, <1>2 DEF Requested

\* Only the holder's own Release or Decline frees an address.
LEMMA ReleaseKeeps ==
  ASSUME Inv, NEW duid \in Duid, NEW server_id, Release(duid, server_id),
         NEW addr \in Addr
  PROVE  KeepsLease(addr)
<1>1. PICK freed \in CurrentLease(duid) : Remove(duid, freed)
  BY DEF Release
<1>2. Holds(duid, freed) /\ server_id = ServerDuid
  BY CurrentLeaseHeld, InvSplit DEF Release, IsForServer, LeasesInv
<1>3. LeaseView' = [LeaseView EXCEPT ![freed] = None]
  BY <1>1, <1>2, RemoveView, InvSplit DEF LeasesInv, Holds
<1>4. /\ LeaseView \in [Addr -> Lease \cup {None}]
      /\ LeaseView'[addr] = Lookup(addr)' /\ LeaseView[addr] = Lookup(addr)
  BY ViewType, InvSplit DEF LeasesInv, TableInv, LeaseView
<1>5. CASE addr = freed
  BY <1>2, <1>5 DEF KeepsLease, Holds
<1>6. CASE addr # freed
  BY <1>3, <1>4, <1>6 DEF KeepsLease
<1> QED BY <1>5, <1>6

\* A permanent reservation, and a lease that has not run out, is only taken
\* away by its holder's own Release or Decline, or by a restart.
THEOREM ProtectedLeasesKept == Spec => ProtectedKept
<1>1. ASSUME Inv, Next, NEW addr \in Addr
      PROVE  KeepsLease(addr)
  <2>1. CASE LoadLine \/ StartServing \/ Restart
    BY <2>1 DEF LoadLine, StartServing, KeepsLease
  <2>2. CASE Tick \/ Ignored
    BY <2>2, SameTableKeeps DEF Tick, Ignored
  <2>3. CASE RapidCommit
    <3>1. offered.duid \in Duid /\ offered.addr \in Addr
      BY <1>1, <2>3, InvSplit DEF RapidCommit, RestTypeOK, Offered
    <3> QED BY <1>1, <2>3, <3>1, RequestedKeeps DEF RapidCommit
  <2>4. ASSUME NEW duid \in Duid, HandleMessage(duid)
        PROVE  KeepsLease(addr)
    <3>1. CASE Solicit(duid) \/ SolicitNone(duid) \/ SolicitRapid(duid)
               \/ SolicitRapidNone(duid)
      BY <3>1, SameTableKeeps DEF Solicit, SolicitNone, SolicitRapid, SolicitRapidNone
    <3>2. ASSUME NEW wanted \in Addr, Request(duid, wanted)
          PROVE  KeepsLease(addr)
      BY <1>1, <3>2, RequestedKeeps DEF Request
    <3>3. ASSUME NEW server_id, Release(duid, server_id)
          PROVE  KeepsLease(addr)
      BY <1>1, <3>3, ReleaseKeeps
    <3> QED BY <2>4, <3>1, <3>2, <3>3 DEF HandleMessage
  <2> QED BY <1>1, <2>1, <2>2, <2>3, <2>4 DEF Next
<1>2. Inv /\ [Next]_vars =>
        [\A addr \in Addr : Protected(addr) /\ phase = "serving" =>
           \/ Lookup(addr)' = Lookup(addr)
           \/ Release(Lookup(addr).duid, ServerDuid)
           \/ Restart]_vars
  BY <1>1 DEF KeepsLease
<1> QED BY <1>2, Invariance, PTL DEF Spec, ProtectedKept

\* The reading of the clock between discover() and request() never costs the
\* client of a Rapid Commit the address found for it.
THEOREM RapidCommitsSucceed == Spec => RapidCommitSucceeds
<1> DEFINE Succeeds(d, found) ==
      offered = [duid |-> d, addr |-> found] /\ offered' = None =>
         \/ \E addr \in {found} \cup CurrentLease(d) :
              out' = [type |-> "Reply", answers |-> "Solicit",
                      duid |-> d, addr |-> addr]
         \/ Restart
<1>1. ASSUME Inv, Next, NEW d \in Duid, NEW found \in Addr
      PROVE  Succeeds(d, found)
  <2> SUFFICES ASSUME offered = [duid |-> d, addr |-> found], offered' = None,
                      ~Restart
               PROVE  \E addr \in {found} \cup CurrentLease(d) :
                        out' = [type |-> "Reply", answers |-> "Solicit",
                      duid |-> d, addr |-> addr]
    OBVIOUS
  <2>1. offered # None /\ offered.duid = d /\ offered.addr = found
    BY ServerAssumption DEF Offered
  <2>2. RapidCommit
    BY <1>1, <2>1
    DEF Next, LoadLine, StartServing, Tick, Ignored, HandleMessage, Solicit,
      SolicitNone, SolicitRapid, SolicitRapidNone, Request, Release, Idle
  <2>3. Requested("Solicit", d, found)
    BY <2>1, <2>2 DEF RapidCommit
  <2>4. HasNoLease(d) => AvailableAt(d, found, now)
    BY <1>1, <2>1, InvSplit DEF OfferStands
  <2> QED BY <2>3, <2>4 DEF Requested, Send
<1>2. Inv /\ [Next]_vars => [\A d \in Duid, found \in Addr : Succeeds(d, found)]_vars
  BY <1>1
<1> QED BY <1>2, Invariance, PTL DEF Spec, RapidCommitSucceeds

\* When the scan comes back empty, no address of the range is available.
LEMMA NoneFreeInPool ==
  ASSUME Inv, NEW duid \in Duid, NoneFree(duid, now), NEW addr \in Pool
  PROVE  ~AvailableAt(duid, addr, now)
BY CandidatesCoverPool DEF NoneFree, Inv

\* What request() does for the client of a Rapid Commit gives it an address.
LEMMA RapidCommitAnswers ==
  ASSUME Inv, RapidCommit
  PROVE  out'.addr # None
<1>1. /\ offered.duid \in Duid /\ offered.addr \in Addr
      /\ Requested("Solicit", offered.duid, offered.addr)
  BY InvSplit DEF RapidCommit, RestTypeOK, Offered
<1>2. HasNoLease(offered.duid) => AvailableAt(offered.duid, offered.addr, now)
  BY InvSplit DEF OfferStands, RapidCommit
<1>3. \A held \in CurrentLease(offered.duid) : held \in Addr
  BY <1>1, CurrentLeaseHeld, InvSplit DEF LeasesInv, Holds
<1>4. \A addr \in Addr : addr # None
  BY NoneAssumption DEF Addr
<1> QED BY <1>1, <1>2, <1>3, <1>4 DEF Requested, Send

\* A Solicit, with Rapid Commit or without, is never turned away wrongly: the
\* whole range is under permanent or unexpired leases of other clients.
THEOREM ExhaustionIsReal == Spec => []NoneMeansFull
<1>1. Init => NoneMeansFull
  BY DEF Init, NoneMeansFull
<1>2. Inv /\ NoneMeansFull /\ [Next]_vars => NoneMeansFull'
  <2> SUFFICES ASSUME Inv, NoneMeansFull, [Next]_vars
               PROVE  NoneMeansFull'
    OBVIOUS
  <2>1. CASE Next
    <3> SUFFICES ASSUME out' # None, out'.answers = "Solicit", out'.addr = None,
                        NEW addr \in Addr
                 PROVE  /\ addr \in Pool => Protected(addr)'
                        /\ Lookup(addr)' # None => Lookup(addr)'.duid # out'.duid
      BY DEF NoneMeansFull
    <3>1. PICK duid \in Duid : HandleMessage(duid)
      BY <2>1, RapidCommitAnswers
      DEF Next, LoadLine, StartServing, Restart, Tick, Ignored
    <3>2. SolicitNone(duid) \/ SolicitRapidNone(duid)
      <4>1. ~Solicit(duid)
        <5>1. \A a \in Addr : a # None
          BY NoneAssumption DEF Addr
        <5> QED BY <5>1 DEF Solicit, Send
      <4>2. /\ ~SolicitRapid(duid)
            /\ \A wanted \in Addr : ~Request(duid, wanted)
            /\ \A server_id : ~Release(duid, server_id)
        BY DEF SolicitRapid, Request, Requested, Release, Send
      <4> QED BY <3>1, <4>1, <4>2 DEF HandleMessage
    <3>3. /\ HasNoLease(duid) /\ NoneFree(duid, now) /\ UNCHANGED <<table, now>>
          /\ out'.duid = duid
      BY <3>2 DEF SolicitNone, SolicitRapidNone, DiscoverNone, Send
    <3>4. now \in Nat
      BY InvSplit, ServerAssumption DEF RestTypeOK
    <3>5. addr \in Pool => Protected(addr)
      BY <3>3, <3>4, NoneFreeInPool, AvailableIsUnprotected, InvSplit DEF LeasesInv
    <3>6. Lookup(addr) # None => Lookup(addr).duid # duid
      BY <3>3, HasNoLeaseHolds, InvSplit DEF LeasesInv, Holds
    <3>7. Lookup(addr)' = Lookup(addr)
      BY <3>3 DEF table, Lookup
    <3> QED BY <3>3, <3>5, <3>6, <3>7 DEF Protected
  <2>2. CASE UNCHANGED vars
    BY <2>2 DEF vars, NoneMeansFull, Protected, Lookup
  <2> QED BY <2>1, <2>2
<1> QED BY <1>1, <1>2, Invariance, PTL DEF Spec

-----------------------------------------------------------------------------
(* The promise kept *)

LEMMA BindingNotNone ==
  ASSUME NEW l \in Lease
  PROVE  Binding(l) # None /\ Binding(l).mac = l.duid /\ Binding(l).expiry = l.expiry
BY LeaseNotNone, BindingAssumption DEF Binding

\* What AbstractLeases sees at an address.
LEMMA BindingsView ==
  ASSUME TableInv, NEW addr \in Addr
  PROVE  /\ Lookup(addr) = None => Bindings[addr] = None
         /\ Lookup(addr) # None =>
              /\ Bindings[addr] # None
              /\ Bindings[addr].mac = Lookup(addr).duid
              /\ Bindings[addr].expiry = Lookup(addr).expiry
<1>1. Lookup(addr) \in Lease \cup {None}
  BY ViewType DEF TableInv
<1> QED BY <1>1, BindingNotNone DEF Bindings

LEMMA HeldView ==
  ASSUME TableInv, NEW duid \in Duid
  PROVE  /\ \A addr : addr \in Promise!Held(duid) <=> Holds(duid, addr)
         /\ HasNoLease(duid) => Promise!Held(duid) = {}
<1>1. \A addr : addr \in Promise!Held(duid) <=> Holds(duid, addr)
  BY BindingsView DEF Promise!Held, Holds
<1>2. HasNoLease(duid) => Promise!Held(duid) = {}
  BY <1>1, HasNoLeaseHolds DEF Holds
<1> QED BY <1>1, <1>2

LEMMA AvailableView ==
  ASSUME TableInv, NEW duid \in Duid, HasNoLease(duid), NEW addr \in Addr
  PROVE  AvailableAt(duid, addr, now) <=> addr \in Promise!Available
<1>1. Lookup(addr) # None => Lookup(addr).duid # duid
  BY HasNoLeaseHolds DEF Holds
<1> QED
  BY <1>1, AvailableFree, BindingsView, PoolInAddr
  DEF FreeFor, Lapsed, Promise!Available, Promise!Free

LEMMA ViewUnchanged ==
  ASSUME UNCHANGED table
  PROVE  UNCHANGED Bindings
BY DEF Bindings, Binding, Lookup, table

\* One address of the map changes hands.
LEMMA ViewChanged ==
  ASSUME TableInv, NEW addr \in Addr, NEW entry \in Lease \cup {None},
         LeaseView' = [LeaseView EXCEPT ![addr] = entry]
  PROVE  Bindings' = [Bindings EXCEPT ![addr] =
                        IF entry = None THEN None ELSE Binding(entry)]
<1>1. /\ LeaseView \in [Addr -> Lease \cup {None}]
      /\ \A a \in Addr : LeaseView[a] = Lookup(a) /\ LeaseView'[a] = Lookup(a)'
  BY ViewType DEF TableInv, LeaseView
<1>2. \A a \in Addr : LeaseView'[a] = IF a = addr THEN entry ELSE LeaseView[a]
  BY <1>1
<1> QED BY <1>1, <1>2 DEF Bindings, Binding

\* What each message says in AbstractLeases' terms.
LEMMA AnswerView ==
  /\ out' = None => Answer' = None
  /\ \A duid \in Duid, addr \in Addr, answers \in {"Solicit", "Request"} :
       /\ Send("Advertise", answers, duid, addr) => Promise!Say("Offer", duid, addr)
       /\ Send("Reply", answers, duid, addr) => Promise!Say("Ack", duid, addr)
  /\ \A duid \in Duid, type \in {"Advertise", "Reply"} :
       /\ Send(type, "Request", duid, None) => Promise!Say("Nak", duid, 0)
       /\ Send(type, "Solicit", duid, None) => Promise!Say("Exhausted", duid, 0)
<1>1. ASSUME NEW type \in {"Advertise", "Reply"}, NEW answers \in {"Solicit", "Request"},
             NEW duid \in Duid, NEW addr \in Addr \cup {None},
             Send(type, answers, duid, addr)
      PROVE  /\ out' # None
             /\ out'.type = type /\ out'.answers = answers
             /\ out'.duid = duid /\ out'.addr = addr
  BY <1>1, ServerAssumption DEF Send, Message
<1>2. \A addr \in Addr : addr # None
  BY NoneAssumption DEF Addr
<1>3. ASSUME NEW answers \in {"Solicit", "Request"}, NEW duid \in Duid, NEW addr \in Addr
      PROVE  /\ Send("Advertise", answers, duid, addr) => Promise!Say("Offer", duid, addr)
             /\ Send("Reply", answers, duid, addr) => Promise!Say("Ack", duid, addr)
  BY <1>1, <1>2 DEF Answer, Promise!Say
<1>4. ASSUME NEW type \in {"Advertise", "Reply"}, NEW duid \in Duid
      PROVE  /\ Send(type, "Request", duid, None) => Promise!Say("Nak", duid, 0)
             /\ Send(type, "Solicit", duid, None) => Promise!Say("Exhausted", duid, 0)
  BY <1>1 DEF Answer, Promise!Say
<1> QED BY <1>3, <1>4 DEF Answer

LEMMA InitPromise == Init => Promise!Init
BY SlotOfAddress
DEF Init, EmptyTable, NoSlots, NoOverflow, NoHints, Bindings, Lookup, Answer, Promise!Init

LEMMA StartUpPromise ==
  ASSUME Inv, LoadLine \/ StartServing \/ Restart \/ Tick
  PROVE  Promise!Next
<1>0. Answer' = None
  BY AnswerView DEF LoadLine, StartServing, Restart, Tick
<1>1. CASE LoadLine
  <2> DEFINE line == Head(file)
  <2>1. line \in Line /\ phase = "loading" /\ UNCHANGED <<now, phase>>
    BY <1>1 DEF LoadLine, Inv, TypeOK
  <2>2. CASE line = None
    <3>1. UNCHANGED Bindings
      BY <1>1, <2>2, ViewUnchanged DEF LoadLine
    <3> QED BY <1>0, <2>1, <3>1 DEF Promise!Next, Promise!Load
  <2>3. CASE line # None
    <3>1. line.duid \in Duid /\ line.addr \in Addr
      BY <2>1, <2>3 DEF Line
    <3> DEFINE entry == [duid |-> line.duid, expiry |-> None]
    <3>2. entry \in Lease /\ entry # None /\ entry.duid = line.duid /\ entry.expiry = None
      BY <3>1, LeaseNotNone DEF Lease
    <3>3. LeaseView' = [LeaseView EXCEPT ![line.addr] = entry]
      BY <1>1, <2>3, <3>1, InsertView, InvSplit DEF LoadLine, LeasesInv
    <3> HIDE DEF line, entry
    <3>4. Bindings' = [Bindings EXCEPT ![line.addr] = Binding(entry)]
      BY <3>1, <3>2, <3>3, ViewChanged, InvSplit DEF LeasesInv
    <3>5. Promise!Give(line.duid, line.addr, None, None)
      BY <3>2, <3>4 DEF Promise!Give, Binding
    <3> QED BY <1>0, <2>1, <3>1, <3>5 DEF Promise!Next, Promise!Load
  <2> QED BY <2>2, <2>3
<1>2. CASE StartServing
  BY <1>0, <1>2, ViewUnchanged DEF StartServing, Promise!Next, Promise!Load
<1>3. CASE Restart
  <2>1. Bindings' = [addr \in Addr |-> None]
    BY <1>3, SlotOfAddress
    DEF Restart, NoSlots, NoOverflow, NoHints, Bindings, Lookup, HasSlot
  <2> QED BY <1>0, <1>3, <2>1 DEF Restart, Promise!Next, Promise!Reset
<1>4. CASE Tick
  BY <1>0, <1>4, ViewUnchanged DEF Tick, Promise!Next, Promise!Tick
<1> QED BY <1>1, <1>2, <1>3, <1>4

\* A client that holds something is answered with an address it holds.
LEMMA HolderPromise ==
  ASSUME Inv, NEW duid \in Duid, NEW addr \in CurrentLease(duid),
         NEW answers \in {"Solicit", "Request"}, UNCHANGED table,
         Send("Advertise", answers, duid, addr) \/ Send("Reply", answers, duid, addr)
  PROVE  Promise!AnswerHolder(duid)
<1>1. Holds(duid, addr) /\ addr \in Promise!Held(duid)
  BY CurrentLeaseHeld, HeldView, InvSplit DEF LeasesInv
<1>2. Promise!Rename(addr, None)
  BY ViewUnchanged DEF Promise!Rename
<1>3. Promise!Say("Ack", duid, addr) \/ Promise!Say("Offer", duid, addr)
  BY <1>1, AnswerView DEF Holds
<1> QED BY <1>1, <1>2, <1>3 DEF Promise!AnswerHolder, Promise!Names

\* request() acks an address held, refuses, or grants an available address.
LEMMA RequestedPromise ==
  ASSUME Inv, phase = "serving", UNCHANGED <<now, phase>>,
         NEW answers \in {"Solicit", "Request"},
         NEW duid \in Duid, NEW addr \in Addr, Requested(answers, duid, addr),
         answers = "Solicit" /\ HasNoLease(duid) => AvailableAt(duid, addr, now)
  PROVE  Promise!Serve
<1>0. TableInv
  BY InvSplit DEF LeasesInv
<1>1. CASE \E held \in CurrentLease(duid) : Send("Reply", answers, duid, held) /\ UNCHANGED table
  BY <1>1, HolderPromise DEF Promise!Serve
<1>2. CASE /\ HasNoLease(duid) /\ ~AvailableAt(duid, addr, now)
           /\ Send("Reply", answers, duid, None) /\ UNCHANGED table
  <2>1. UNCHANGED Bindings /\ Promise!Held(duid) = {}
    BY <1>0, <1>2, ViewUnchanged, HeldView
  <2>2. addr \in Addr \ Promise!Available /\ answers = "Request"
    BY <1>0, <1>2, AvailableView
  <2> QED BY <1>2, <2>1, <2>2, AnswerView DEF Promise!Serve, Promise!Refuse
<1>3. CASE /\ HasNoLease(duid) /\ AvailableAt(duid, addr, now)
           /\ Commit(addr, duid, now + LeaseDuration)
           /\ Send("Reply", answers, duid, addr)
  <2> DEFINE entry == [duid |-> duid, expiry |-> now + LeaseDuration]
  <2>1. now + LeaseDuration \in Nat
    BY ServerAssumption, InvSplit DEF RestTypeOK
  <2>2. /\ entry \in Lease /\ entry # None
        /\ entry.duid = duid /\ entry.expiry = now + LeaseDuration
    BY <2>1, LeaseNotNone DEF Lease
  <2>3. LeaseView' = [LeaseView EXCEPT ![addr] = entry]
    BY <1>0, <1>3, <2>1, CommitView
  <2> HIDE DEF entry
  <2>4. Bindings' = [Bindings EXCEPT ![addr] = Binding(entry)]
    BY <1>0, <2>2, <2>3, ViewChanged
  <2>5. Promise!Give(duid, addr, now + LeaseDuration, None)
    BY <2>2, <2>4 DEF Promise!Give, Binding
  <2>6. Promise!Held(duid) = {} /\ addr \in Promise!Available
    BY <1>0, <1>3, HeldView, AvailableView
  <2> QED
    BY <1>3, <2>5, <2>6, AnswerView DEF Promise!Serve, Promise!Grant, Promise!Names
<1> QED BY <1>1, <1>2, <1>3 DEF Requested

LEMMA DiscoverPromise ==
  ASSUME Inv, NEW duid \in Duid, NEW addr \in Addr,
         Idle, UNCHANGED <<table, now, phase>>,
         Discover(duid, addr), Send("Advertise", "Solicit", duid, addr)
  PROVE  Promise!Serve
<1>1. CASE addr \in CurrentLease(duid)
  BY <1>1, HolderPromise DEF Promise!Serve, Idle
<1>2. CASE HasNoLease(duid) /\ AvailableAt(duid, addr, now)
  <2>1. addr \in Promise!Available /\ Promise!Held(duid) = {} /\ UNCHANGED Bindings
    BY <1>2, AvailableView, HeldView, ViewUnchanged, InvSplit DEF LeasesInv
  <2> QED BY <2>1, AnswerView DEF Promise!Serve, Promise!OfferFresh, Idle
<1> QED BY <1>1, <1>2 DEF Discover, FirstFree

LEMMA DiscoverNonePromise ==
  ASSUME Inv, NEW duid \in Duid, phase = "serving", UNCHANGED <<table, now, phase>>,
         DiscoverNone(duid),
         Send("Advertise", "Solicit", duid, None) \/ Send("Reply", "Solicit", duid, None)
  PROVE  Promise!Serve
<1>1. UNCHANGED Bindings /\ Promise!Held(duid) = {}
  BY ViewUnchanged, HeldView, InvSplit DEF DiscoverNone, LeasesInv
<1>2. Promise!Available = {}
  BY AvailableView, NoneFreeInPool, PoolInAddr, InvSplit
  DEF DiscoverNone, LeasesInv, Promise!Available
<1> QED
  BY <1>1, <1>2, AnswerView DEF Promise!Serve, Promise!Exhausted

\* Each message, like each half of a Rapid Commit, is a step of the
\* storage-free specification.
LEMMA HandleMessagePromise ==
  ASSUME Inv, NEW duid \in Duid, HandleMessage(duid)
  PROVE  Promise!Serve
<1>1. CASE Solicit(duid)
  BY <1>1, DiscoverPromise DEF Solicit
<1>2. CASE SolicitNone(duid) \/ SolicitRapidNone(duid)
  BY <1>2, DiscoverNonePromise DEF SolicitNone, SolicitRapidNone, Idle
<1>3. CASE SolicitRapid(duid)
  BY <1>3, ViewUnchanged, AnswerView DEF SolicitRapid, Idle, Promise!Serve, Promise!NoAnswer
<1>4. ASSUME NEW wanted \in Addr, Request(duid, wanted)
      PROVE  Promise!Serve
  BY <1>4, RequestedPromise DEF Request, Idle
<1>5. ASSUME NEW server_id, Release(duid, server_id)
      PROVE  Promise!Serve
  <2>1. PICK addr \in CurrentLease(duid) : Remove(duid, addr)
    BY <1>5 DEF Release
  <2>2. Holds(duid, addr) /\ addr \in Promise!Held(duid)
    BY <2>1, CurrentLeaseHeld, HeldView, InvSplit DEF LeasesInv
  <2>3. LeaseView' = [LeaseView EXCEPT ![addr] = None]
    BY <2>1, <2>2, RemoveView, InvSplit DEF LeasesInv, Holds
  <2>4. Bindings' = [Bindings EXCEPT ![addr] = None]
    BY <2>2, <2>3, ViewChanged, InvSplit DEF LeasesInv, Holds
  <2> QED
    BY <1>5, <2>2, <2>4, AnswerView DEF Release, Idle, Promise!Serve, Promise!Drop
<1> QED BY <1>1, <1>2, <1>3, <1>4, <1>5 DEF HandleMessage

\* The thread with its slots, counter, overflow, stale hints and cursor is an
\* implementation of the plain map of leases in which reservations never lapse.
THEOREM Refinement == Spec => KeepsPromise
<1>1. Inv /\ [Next]_vars => [Promise!Next]_Promise!vars
  <2> SUFFICES ASSUME Inv, [Next]_vars PROVE [Promise!Next]_Promise!vars
    OBVIOUS
  <2>1. CASE LoadLine \/ StartServing \/ Restart \/ Tick
    BY <2>1, StartUpPromise
  <2>2. ASSUME NEW duid \in Duid, HandleMessage(duid)
        PROVE  Promise!Next
    BY <2>2, HandleMessagePromise DEF Promise!Next
  <2>3. CASE RapidCommit
    <3>1. offered.duid \in Duid /\ offered.addr \in Addr
      BY <2>3, InvSplit DEF RapidCommit, RestTypeOK, Offered
    <3>2. HasNoLease(offered.duid) => AvailableAt(offered.duid, offered.addr, now)
      BY <2>3, InvSplit DEF RapidCommit, OfferStands
    <3> QED BY <2>3, <3>1, <3>2, RequestedPromise DEF RapidCommit, Promise!Next
  <2>4. CASE Ignored
    BY <2>4, ViewUnchanged, AnswerView
    DEF Ignored, Idle, Promise!Next, Promise!Serve, Promise!NoAnswer
  <2>5. CASE UNCHANGED vars
    BY <2>5, ViewUnchanged DEF vars, table, Answer, Promise!vars
  <2> QED BY <2>1, <2>2, <2>3, <2>4, <2>5 DEF Next
<1> QED BY <1>1, InitPromise, Invariance, PTL DEF Spec, KeepsPromise, Promise!Spec
=============================================================================
