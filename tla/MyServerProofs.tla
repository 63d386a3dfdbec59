--------------------------- MODULE MyServerProofs ---------------------------
(***************************************************************************)
(* Proofs about MyServer for every value of its constants.                 *)
(*                                                                         *)
(* The argument goes through LeaseView, the lease table read as one map:   *)
(* first what each writing method does to that map and to the counter,     *)
(* then what current_lease finds in it, then one step per action.          *)
(***************************************************************************)
EXTENDS MyServer, FiniteSetTheorems, TLAPS

\* No in-pool address has an entry in overflow that its slot would hide.
NoHiddenLease == \A ip \in Addr : HasSlot(ip) => overflow[ip] = None

\* Nothing is timed before the first packet is served.
LoadedPermanent ==
  phase = "loading" =>
    \A ip \in Addr : Lookup(ip) # None => Lookup(ip).expiry = None

\* What the methods of the table preserve.
TableInv == TableTypeOK /\ FilledExact /\ NoHiddenLease

\* The inductive invariant: the leases ...
LeasesInv ==
  /\ TableInv
  /\ HintSound
  /\ LoadedPermanent
  /\ DynamicIsSole
  /\ NameFromHolder

\* ... and the rest of the state.
Inv == TypeOK /\ LeasesInv

-----------------------------------------------------------------------------
(* The map a table stands for *)

LEMMA PoolInAddr == Pool \subseteq Addr
BY PoolAssumption, SMT DEF Pool, Addr

\* idx() maps the addresses with a slot one to one to the slots.
LEMMA SlotOfAddress ==
  /\ \A ip \in Addr : HasSlot(ip) => Idx(ip) \in SlotIndex /\ ip = IpStart + Idx(ip)
  /\ \A i \in SlotIndex :
       IpStart + i \in Addr /\ HasSlot(IpStart + i) /\ Idx(IpStart + i) = i
  /\ SlotIndex \subseteq Nat
BY PoolAssumption, SMT DEF HasSlot, Idx, SlotIndex, Addr, Pool, UseSlots

LEMMA ViewType ==
  ASSUME TableTypeOK
  PROVE  /\ LeaseView \in [Addr -> Lease \cup {None}]
         /\ \A ip \in Addr : LeaseView[ip] = Lookup(ip)
BY SlotOfAddress DEF TableTypeOK, LeaseView, Lookup

LEMMA SlotsFinite ==
  /\ IsFiniteSet(SlotIndex)
  /\ \A S \in SUBSET SlotIndex : IsFiniteSet(S)
<1>1. LeaseNum - 1 \in Int /\ 0 \in Int
  BY PoolAssumption
<1>2. IsFiniteSet(0 .. (LeaseNum - 1))
  BY <1>1, FS_Interval
<1>3. IsFiniteSet(SlotIndex)
  BY <1>2, FS_EmptySet DEF SlotIndex
<1> QED BY <1>3, FS_Subset

\* A counter and a slot array that agree still do when a slot is filled.
LEMMA FillSlot ==
  ASSUME TableTypeOK, FilledExact,
         NEW i \in SlotIndex, NEW entry \in Lease,
         slots' = [slots EXCEPT ![i] = entry],
         filled' = IF slots[i] = None THEN filled + 1 ELSE filled
  PROVE  FilledExact'
<1> DEFINE Occ == {j \in SlotIndex : slots[j] # None}
<1>1. IsFiniteSet(Occ)
  BY SlotsFinite
<1>2. {j \in SlotIndex : slots'[j] # None} = Occ \cup {i}
  BY NoneAssumption DEF TableTypeOK
<1>3. Cardinality(Occ \cup {i}) =
        IF i \in Occ THEN Cardinality(Occ) ELSE Cardinality(Occ) + 1
  BY <1>1, FS_AddElement
<1> QED BY <1>2, <1>3 DEF FilledExact

\* ... and when one is emptied; the counter was not zero.
LEMMA EmptySlot ==
  ASSUME TableTypeOK, FilledExact,
         NEW i \in SlotIndex, slots[i] # None,
         slots' = [slots EXCEPT ![i] = None],
         filled' = filled - 1
  PROVE  FilledExact' /\ filled' \in Nat
<1> DEFINE Occ == {j \in SlotIndex : slots[j] # None}
<1>1. IsFiniteSet(Occ)
  BY SlotsFinite
<1>2. {j \in SlotIndex : slots'[j] # None} = Occ \ {i}
  BY DEF TableTypeOK
<1>3. /\ IsFiniteSet(Occ \ {i})
      /\ Cardinality(Occ \ {i}) = Cardinality(Occ) - 1
  BY <1>1, FS_RemoveElement
<1>4. Cardinality(Occ \ {i}) \in Nat
  BY <1>3, FS_CardinalityType
<1> QED BY <1>2, <1>3, <1>4 DEF FilledExact

\* is_empty() is right: an empty table has no lease anywhere.
LEMMA EmptyHasNothing ==
  ASSUME TableInv, IsEmpty
  PROVE  \A ip \in Addr : LeaseView[ip] = None
<1> DEFINE Occ == {j \in SlotIndex : slots[j] # None}
<1>1. IsFiniteSet(Occ)
  BY SlotsFinite
<1>2. Occ = {}
  BY <1>1, FS_EmptySet DEF TableInv, FilledExact, IsEmpty
<1> QED
  BY <1>2, ViewType, SlotOfAddress DEF TableInv, IsEmpty, Lookup

-----------------------------------------------------------------------------
(* What the writing methods do to the map *)

LEMMA PutView ==
  ASSUME TableInv, NEW ip \in Addr, NEW entry \in Lease, Put(ip, entry)
  PROVE  /\ LeaseView' = [LeaseView EXCEPT ![ip] = entry]
         /\ slots' \in [SlotIndex -> Lease \cup {None}]
         /\ overflow' \in [Addr -> Lease \cup {None}]
         /\ filled' \in Nat
         /\ FilledExact'
         /\ NoHiddenLease'
<1>1. CASE HasSlot(ip)
  <2>1. Idx(ip) \in SlotIndex
    BY <1>1, SlotOfAddress
  <2>2. /\ slots' = [slots EXCEPT ![Idx(ip)] = entry]
        /\ filled' = IF slots[Idx(ip)] = None THEN filled + 1 ELSE filled
        /\ overflow' = overflow
    BY <1>1 DEF Put
  <2>3. FilledExact'
    BY <2>1, <2>2, FillSlot DEF TableInv
  <2>4. LeaseView' = [LeaseView EXCEPT ![ip] = entry]
    BY <1>1, <2>1, <2>2, SlotOfAddress
    DEF LeaseView, Lookup, TableInv, TableTypeOK, HasSlot
  <2> QED
    BY <2>1, <2>2, <2>3, <2>4
    DEF TableInv, TableTypeOK, NoHiddenLease, HasSlot
<1>2. CASE ~HasSlot(ip)
  <2>1. /\ overflow' = [overflow EXCEPT ![ip] = entry]
        /\ UNCHANGED <<slots, filled>>
    BY <1>2 DEF Put
  <2> QED
    BY <1>2, <2>1 DEF LeaseView, Lookup, TableInv, TableTypeOK, FilledExact,
      NoHiddenLease, HasSlot
<1> QED BY <1>1, <1>2

\* A hint that was sound is still sound once ip has gone over to mac.
LEMMA InsertLeaseView ==
  ASSUME TableInv, HintSound,
         NEW ip \in Addr, NEW mac \in Mac,
         NEW expiry \in Nat \cup {None}, NEW name \in Name \cup {None},
         InsertLease(ip, mac, expiry, name)
  PROVE  /\ LeaseView' = [LeaseView EXCEPT ![ip] =
                            [mac |-> mac, expiry |-> expiry, name |-> name]]
         /\ TableInv'
         /\ HintSound'
<1> DEFINE entry == [mac |-> mac, expiry |-> expiry, name |-> name]
<1>1. entry \in Lease /\ entry.mac = mac
  BY DEF Lease
<1> HIDE DEF entry
<1>2. Put(ip, entry) /\ by_mac' = HintsAfterInsert(ip, mac)
  BY DEF InsertLease, entry
<1>3. /\ LeaseView' = [LeaseView EXCEPT ![ip] = entry]
      /\ slots' \in [SlotIndex -> Lease \cup {None}]
      /\ overflow' \in [Addr -> Lease \cup {None}]
      /\ filled' \in Nat
      /\ FilledExact'
      /\ NoHiddenLease'
  BY <1>1, <1>2, PutView
<1>4. /\ LeaseView \in [Addr -> Lease \cup {None}]
      /\ \A a \in Addr : LeaseView[a] = Lookup(a)
      /\ by_mac \in [Mac -> Addr \cup {None}]
  BY ViewType DEF TableInv, TableTypeOK
<1>5. \A l \in Lease : l # None /\ l.mac \in Mac
  BY NoneAssumption DEF Lease
<1> DEFINE old == LeaseView[ip]
           drops == old # None /\ old.mac # mac /\ by_mac[old.mac] = ip
           dropped == IF drops THEN [by_mac EXCEPT ![old.mac] = None] ELSE by_mac
<1>6. by_mac' = [dropped EXCEPT ![mac] = ip]
  BY <1>2, <1>4 DEF HintsAfterInsert
<1>7. by_mac' \in [Mac -> Addr \cup {None}]
  BY <1>4, <1>6
<1>8. TableInv'
  BY <1>3, <1>7 DEF TableInv, TableTypeOK
<1>9. \A a \in Addr : Lookup(a)' = LeaseView'[a]
  BY DEF LeaseView
<1>10. ASSUME NEW m \in Mac, by_mac'[m] # None
       PROVE  Lookup(by_mac[m])' # None /\ Lookup(by_mac[m])'.mac = m
  <2>1. CASE m = mac
    BY <1>1, <1>3, <1>4, <1>5, <1>6, <1>9, <2>1
  <2>2. CASE m # mac
    <3>1. by_mac'[m] = dropped[m] /\ dropped[m] = by_mac[m] /\ by_mac[m] \in Addr
      BY <1>4, <1>6, <1>10, <2>2
    <3>2. LeaseView[by_mac[m]] # None /\ LeaseView[by_mac[m]].mac = m
      BY <1>4, <1>10, <3>1 DEF HintSound
    <3>3. by_mac[m] # ip
      BY <1>4, <1>6, <1>10, <2>2, <3>1, <3>2
    <3>4. LeaseView'[by_mac[m]] = LeaseView[by_mac[m]]
      BY <1>3, <1>4, <3>1, <3>3
    <3> QED BY <1>9, <3>1, <3>2, <3>4
  <2> QED BY <2>1, <2>2
<1>11. HintSound'
  BY <1>10 DEF HintSound
<1> QED BY <1>3, <1>8, <1>11 DEF entry

\* remember_hostname touches the name of a lease, and nothing else.
LEMMA RememberHostnameView ==
  ASSUME TableInv, HintSound,
         NEW ip \in Addr, Lookup(ip) # None,
         NEW name \in Name \cup {None},
         RememberHostname(ip, name)
  PROVE  /\ LeaseView' = IF name = None THEN LeaseView
                         ELSE [LeaseView EXCEPT ![ip].name = name]
         /\ TableInv'
         /\ HintSound'
<1> DEFINE entry == Lookup(ip)
           named == [entry EXCEPT !.name = name]
<1>0. UNCHANGED <<filled, by_mac>>
  BY DEF RememberHostname
<1>1. entry \in Lease /\ named \in Lease /\ named # None /\ named.mac = entry.mac
  BY ViewType, NoneAssumption DEF TableInv, Lease
<1>2. CASE name = None
  <2>1. UNCHANGED <<slots, overflow>>
    BY <1>2 DEF RememberHostname
  <2> QED
    BY <1>0, <1>2, <2>1 DEF LeaseView, Lookup, TableInv, TableTypeOK,
      FilledExact, NoHiddenLease, HintSound, HasSlot
<1>3. CASE name # None
  <2>1. \A i \in SlotIndex : slots'[i] = None <=> slots[i] = None
    BY <1>1, <1>3, SlotOfAddress DEF RememberHostname, TableInv, TableTypeOK, Lookup
  <2>2. /\ slots' \in [SlotIndex -> Lease \cup {None}]
        /\ overflow' \in [Addr -> Lease \cup {None}]
    BY <1>1, <1>3, SlotOfAddress DEF RememberHostname, TableInv, TableTypeOK
  <2>3. LeaseView' = [LeaseView EXCEPT ![ip] = named]
    <3>1. CASE HasSlot(ip)
      <4>1. slots' = [slots EXCEPT ![Idx(ip)] = named] /\ overflow' = overflow
        BY <1>1, <1>3, <3>1 DEF RememberHostname
      <4> HIDE DEF named
      <4> QED
        BY <1>1, <3>1, <4>1, SlotOfAddress
        DEF LeaseView, Lookup, TableInv, TableTypeOK, HasSlot
    <3>2. CASE ~HasSlot(ip)
      BY <1>1, <1>3, <3>2
      DEF RememberHostname, LeaseView, Lookup, TableInv, TableTypeOK, HasSlot
    <3> QED BY <3>1, <3>2
  <2>4. LeaseView' = [LeaseView EXCEPT ![ip].name = name]
    BY <1>1, <2>3 DEF LeaseView
  <2>5. {i \in SlotIndex : slots'[i] # None} = {i \in SlotIndex : slots[i] # None}
    BY <2>1
  <2>6. FilledExact'
    BY <1>0, <2>5 DEF FilledExact, TableInv
  <2>7. NoHiddenLease'
    BY <1>3, <1>1 DEF RememberHostname, NoHiddenLease, TableInv, TableTypeOK, HasSlot
  <2>8. TableInv'
    BY <1>0, <2>2, <2>6, <2>7 DEF TableInv, TableTypeOK
  <2>9. HintSound'
    <3> SUFFICES ASSUME NEW m \in Mac, by_mac'[m] # None
                 PROVE  Lookup(by_mac[m])' # None /\ Lookup(by_mac[m])'.mac = m
      BY DEF HintSound
    <3>1. /\ by_mac'[m] = by_mac[m] /\ by_mac[m] \in Addr
          /\ LeaseView[by_mac[m]] # None /\ LeaseView[by_mac[m]].mac = m
      BY <1>0, ViewType DEF TableInv, TableTypeOK, HintSound
    <3>2. LeaseView'[by_mac[m]] # None /\ LeaseView'[by_mac[m]].mac = m
      BY <1>1, <2>3, <3>1 DEF LeaseView
    <3> QED BY <3>1, <3>2 DEF LeaseView
  <2> QED BY <1>3, <2>4, <2>8, <2>9
<1> QED BY <1>2, <1>3

\* What a scan comes upon is held by the client it looks for.
LEMMA ScanFinds ==
  ASSUME NEW s, NEW o, NEW mac, NEW ip \in Scan(s, o, mac)
  PROVE  \/ \E i \in SlotIndex : ip = IpStart + i /\ s[i] # None /\ s[i].mac = mac
         \/ ip \in Addr /\ o[ip] # None /\ o[ip].mac = mac
BY DEF Scan, SlotsOf, OverflowOf

\* remove_lease frees one address of the client and leaves sound hints.
LEMMA RemoveLeaseView ==
  ASSUME TableInv, HintSound,
         NEW ip \in Addr, NEW mac \in Mac,
         Lookup(ip) # None, Lookup(ip).mac = mac,
         RemoveLease(mac, ip)
  PROVE  /\ LeaseView' = [LeaseView EXCEPT ![ip] = None]
         /\ TableInv'
         /\ HintSound'
<1>1. /\ slots' \in [SlotIndex -> Lease \cup {None}]
      /\ overflow' \in [Addr -> Lease \cup {None}]
      /\ filled' \in Nat
      /\ FilledExact'
      /\ NoHiddenLease'
      /\ LeaseView' = [LeaseView EXCEPT ![ip] = None]
  <2>1. CASE HasSlot(ip)
    <3>1. /\ slots' = [slots EXCEPT ![Idx(ip)] = None]
          /\ filled' = filled - 1
          /\ overflow' = overflow
      BY <2>1 DEF RemoveLease
    <3>2. Idx(ip) \in SlotIndex /\ slots[Idx(ip)] # None
      BY <2>1, SlotOfAddress DEF Lookup
    <3>3. FilledExact' /\ filled' \in Nat
      BY <3>1, <3>2, EmptySlot DEF TableInv
    <3>4. LeaseView' = [LeaseView EXCEPT ![ip] = None]
      BY <2>1, <3>1, <3>2, SlotOfAddress
      DEF LeaseView, Lookup, TableInv, TableTypeOK, HasSlot
    <3> QED
      BY <3>1, <3>2, <3>3, <3>4 DEF TableInv, TableTypeOK, NoHiddenLease, HasSlot
  <2>2. CASE ~HasSlot(ip)
    <3>1. overflow' = [overflow EXCEPT ![ip] = None] /\ UNCHANGED <<slots, filled>>
      BY <2>2 DEF RemoveLease
    <3> QED
      BY <2>2, <3>1 DEF LeaseView, Lookup, TableInv, TableTypeOK, FilledExact,
        NoHiddenLease, HasSlot
  <2> QED BY <2>1, <2>2
<1>2. /\ LeaseView \in [Addr -> Lease \cup {None}]
      /\ \A a \in Addr : LeaseView[a] = Lookup(a)
      /\ \A a \in Addr : LeaseView'[a] = Lookup(a)'
      /\ by_mac \in [Mac -> Addr \cup {None}]
  BY ViewType DEF TableInv, TableTypeOK, LeaseView
<1>3. \A a \in Scan(slots', overflow', mac) :
        a \in Addr /\ LeaseView'[a] # None /\ LeaseView'[a].mac = mac
  <2> SUFFICES ASSUME NEW a \in Scan(slots', overflow', mac)
               PROVE  a \in Addr /\ LeaseView'[a] # None /\ LeaseView'[a].mac = mac
    OBVIOUS
  <2>1. CASE \E i \in SlotIndex : a = IpStart + i /\ slots'[i] # None /\ slots'[i].mac = mac
    <3>1. PICK i \in SlotIndex : a = IpStart + i /\ slots'[i] # None /\ slots'[i].mac = mac
      BY <2>1
    <3>2. a \in Addr /\ HasSlot(a) /\ Idx(a) = i
      BY <3>1, SlotOfAddress
    <3> QED BY <1>2, <3>1, <3>2 DEF Lookup, HasSlot
  <2>2. CASE a \in Addr /\ overflow'[a] # None /\ overflow'[a].mac = mac
    BY <1>1, <1>2, <2>2 DEF NoHiddenLease, Lookup, HasSlot
  <2> QED BY <2>1, <2>2, ScanFinds
<1>4. PICK hint \in Addr \cup {None, by_mac[mac]} :
        /\ by_mac' = [by_mac EXCEPT ![mac] = hint]
        /\ by_mac[mac] = ip /\ hint # None =>
             hint \in Addr /\ LeaseView'[hint] # None /\ LeaseView'[hint].mac = mac
        /\ by_mac[mac] # ip => hint = by_mac[mac]
  <2>1. CASE by_mac[mac] # ip
    <3>1. by_mac' = by_mac
      BY <2>1 DEF RemoveLease
    <3> QED BY <1>2, <2>1, <3>1
  <2>2. CASE by_mac[mac] = ip
    <3> DEFINE left == Scan(slots', overflow', mac)
    <3>1. \E hint \in (IF left = {} THEN {None} ELSE left) :
            by_mac' = [by_mac EXCEPT ![mac] = hint]
      BY <2>2 DEF RemoveLease
    <3> QED BY <1>3, <2>2, <3>1
  <2> QED BY <2>1, <2>2
<1>5. by_mac' \in [Mac -> Addr \cup {None}]
  BY <1>2, <1>4
<1>6. TableInv'
  BY <1>1, <1>5 DEF TableInv, TableTypeOK
<1>7. ASSUME NEW m \in Mac, by_mac'[m] # None
      PROVE  by_mac'[m] \in Addr /\ LeaseView'[by_mac'[m]] # None
             /\ LeaseView'[by_mac'[m]].mac = m
  <2>1. CASE m = mac /\ by_mac[mac] = ip
    BY <1>2, <1>4, <1>7, <2>1
  <2>2. CASE ~(m = mac /\ by_mac[mac] = ip)
    <3>1. by_mac'[m] = by_mac[m]
      BY <1>2, <1>4, <2>2
    <3>2. /\ by_mac[m] \in Addr
          /\ LeaseView[by_mac[m]] # None /\ LeaseView[by_mac[m]].mac = m
      BY <1>2, <1>7, <3>1 DEF HintSound
    <3>3. by_mac[m] # ip
      BY <1>2, <2>2, <3>2
    <3> QED BY <1>1, <1>2, <3>1, <3>2, <3>3
  <2> QED BY <2>1, <2>2
<1>8. HintSound'
  BY <1>2, <1>7 DEF HintSound
<1> QED BY <1>1, <1>6, <1>8

-----------------------------------------------------------------------------
(* What current_lease finds in the map *)

Holds(mac, ip) == ip \in Addr /\ Lookup(ip) # None /\ Lookup(ip).mac = mac

\* current_lease only ever names an address the client holds ...
LEMMA CurrentLeaseHeld ==
  ASSUME TableInv, NEW mac \in Mac, NEW ip \in CurrentLease(mac)
  PROVE  Holds(mac, ip)
<1>1. CASE HintVerified(mac)
  <2>1. ip = by_mac[mac]
    BY <1>1 DEF CurrentLease
  <2> QED
    BY <1>1, <2>1 DEF HintVerified, Holds, TableInv, TableTypeOK
<1>2. CASE ~HintVerified(mac)
  <2>1. ip \in Scan(slots, overflow, mac)
    BY <1>2 DEF CurrentLease
  <2>2. CASE \E i \in SlotIndex : ip = IpStart + i /\ slots[i] # None /\ slots[i].mac = mac
    BY <2>2, SlotOfAddress DEF Holds, Lookup
  <2>3. CASE ip \in Addr /\ overflow[ip] # None /\ overflow[ip].mac = mac
    BY <2>3 DEF TableInv, NoHiddenLease, Holds, Lookup
  <2> QED BY <2>1, <2>2, <2>3, ScanFinds
<1> QED BY <1>1, <1>2

\* ... and when it names none, the client holds nothing.
LEMMA HasNoLeaseHolds ==
  ASSUME TableInv, NEW mac \in Mac, HasNoLease(mac)
  PROVE  \A ip \in Addr : ~Holds(mac, ip)
<1>1. CASE IsEmpty
  BY <1>1, EmptyHasNothing, ViewType DEF TableInv, Holds
<1>2. CASE ~IsEmpty
  BY <1>2, SlotOfAddress DEF HasNoLease, SlotsOf, OverflowOf, Holds, Lookup
<1> QED BY <1>1, <1>2

-----------------------------------------------------------------------------
(* What each use of the table preserves *)

\* A new timed lease goes to a client that holds nothing, under its own name.
LEMMA FreshLease ==
  ASSUME LeasesInv, phase = "serving", UNCHANGED phase,
         NEW mac \in Mac, NEW ip \in Addr, NEW expiry \in Nat,
         NEW name \in {None, NameOf[mac]},
         HasNoLease(mac),
         InsertLease(ip, mac, expiry, name)
  PROVE  LeasesInv'
<1>1. name \in Name \cup {None}
  BY ServerAssumption
<1>2. /\ LeaseView' = [LeaseView EXCEPT ![ip] =
                         [mac |-> mac, expiry |-> expiry, name |-> name]]
      /\ TableInv' /\ HintSound'
  BY <1>1, InsertLeaseView DEF LeasesInv
<1>3. /\ LeaseView \in [Addr -> Lease \cup {None}]
      /\ \A a \in Addr : LeaseView[a] = Lookup(a) /\ LeaseView'[a] = Lookup(a)'
  BY ViewType DEF LeasesInv, TableInv, LeaseView
<1>4. \A a \in Addr : LeaseView[a] # None => LeaseView[a].mac # mac
  BY <1>3, HasNoLeaseHolds DEF LeasesInv, Holds
<1>5. DynamicIsSole'
  BY <1>2, <1>3, <1>4 DEF LeasesInv, DynamicIsSole
<1>6. NameFromHolder'
  BY <1>2, <1>3 DEF LeasesInv, NameFromHolder
<1> QED BY <1>2, <1>5, <1>6 DEF LeasesInv, LoadedPermanent

\* A lease of the file is permanent, and so is every other one while loading.
LEMMA LoadedLease ==
  ASSUME LeasesInv, phase = "loading", UNCHANGED phase,
         NEW mac \in Mac, NEW ip \in Addr,
         InsertLease(ip, mac, None, None)
  PROVE  LeasesInv'
<1>1. /\ LeaseView' = [LeaseView EXCEPT ![ip] =
                         [mac |-> mac, expiry |-> None, name |-> None]]
      /\ TableInv' /\ HintSound'
  BY InsertLeaseView DEF LeasesInv
<1>2. /\ LeaseView \in [Addr -> Lease \cup {None}]
      /\ \A a \in Addr : LeaseView[a] = Lookup(a) /\ LeaseView'[a] = Lookup(a)'
  BY ViewType DEF LeasesInv, TableInv, LeaseView
<1>3. LoadedPermanent'
  BY <1>1, <1>2 DEF LeasesInv, LoadedPermanent
<1>4. DynamicIsSole'
  BY <1>2, <1>3 DEF LoadedPermanent, DynamicIsSole
<1>5. NameFromHolder'
  BY <1>1, <1>2 DEF LeasesInv, NameFromHolder
<1> QED BY <1>1, <1>3, <1>4, <1>5 DEF LeasesInv

\* A client's current lease takes the name that client announces.
LEMMA RenamedLease ==
  ASSUME LeasesInv, UNCHANGED phase,
         NEW mac \in Mac, NEW ip \in CurrentLease(mac),
         NEW name \in {None, NameOf[mac]},
         RememberHostname(ip, name)
  PROVE  LeasesInv'
<1>1. Holds(mac, ip)
  BY CurrentLeaseHeld DEF LeasesInv
<1>2. name \in Name \cup {None}
  BY ServerAssumption
<1>3. /\ LeaseView' = IF name = None THEN LeaseView
                      ELSE [LeaseView EXCEPT ![ip].name = name]
      /\ TableInv' /\ HintSound'
  BY <1>1, <1>2, RememberHostnameView DEF LeasesInv, Holds
<1>4. /\ LeaseView \in [Addr -> Lease \cup {None}]
      /\ \A a \in Addr : LeaseView[a] = Lookup(a) /\ LeaseView'[a] = Lookup(a)'
  BY ViewType DEF LeasesInv, TableInv, LeaseView
<1>5. \A a \in Addr :
        /\ LeaseView'[a] = None <=> LeaseView[a] = None
        /\ LeaseView[a] # None =>
             /\ LeaseView'[a].mac = LeaseView[a].mac
             /\ LeaseView'[a].expiry = LeaseView[a].expiry
             /\ LeaseView'[a].name = IF a = ip /\ name # None THEN name
                                     ELSE LeaseView[a].name
  <2> SUFFICES ASSUME NEW a \in Addr
               PROVE  /\ LeaseView'[a] = None <=> LeaseView[a] = None
                      /\ LeaseView[a] # None =>
                           /\ LeaseView'[a].mac = LeaseView[a].mac
                           /\ LeaseView'[a].expiry = LeaseView[a].expiry
                           /\ LeaseView'[a].name = IF a = ip /\ name # None THEN name
                                                   ELSE LeaseView[a].name
    OBVIOUS
  <2>1. CASE a # ip \/ name = None
    BY <1>3, <1>4, <2>1
  <2>2. CASE a = ip /\ name # None
    <3>1. LeaseView[ip] \in Lease
      BY <1>1, <1>4 DEF Holds
    <3>2. LeaseView'[ip] = [LeaseView[ip] EXCEPT !.name = name]
      BY <1>3, <1>4, <2>2
    <3>3. LeaseView'[ip] \in Lease
      BY <1>2, <3>1, <3>2 DEF Lease
    <3> QED BY <2>2, <3>1, <3>2, <3>3, NoneAssumption DEF Lease
  <2> QED BY <2>1, <2>2
<1>6. LoadedPermanent' /\ DynamicIsSole'
  BY <1>4, <1>5 DEF LeasesInv, LoadedPermanent, DynamicIsSole
<1>7. NameFromHolder'
  BY <1>1, <1>4, <1>5 DEF LeasesInv, NameFromHolder, Holds
<1> QED BY <1>3, <1>6, <1>7 DEF LeasesInv

\* A client gives up its current lease.
LEMMA RemovedLease ==
  ASSUME LeasesInv, UNCHANGED phase,
         NEW mac \in Mac, NEW ip \in CurrentLease(mac),
         RemoveLease(mac, ip)
  PROVE  LeasesInv'
<1>1. Holds(mac, ip)
  BY CurrentLeaseHeld DEF LeasesInv
<1>2. /\ LeaseView' = [LeaseView EXCEPT ![ip] = None]
      /\ TableInv' /\ HintSound'
  BY <1>1, RemoveLeaseView DEF LeasesInv, Holds
<1>3. /\ LeaseView \in [Addr -> Lease \cup {None}]
      /\ \A a \in Addr : LeaseView[a] = Lookup(a) /\ LeaseView'[a] = Lookup(a)'
  BY ViewType DEF LeasesInv, TableInv, LeaseView
<1>4. \A a \in Addr : LeaseView'[a] # None => LeaseView'[a] = LeaseView[a]
  BY <1>2, <1>3
<1>5. LoadedPermanent' /\ DynamicIsSole' /\ NameFromHolder'
  BY <1>3, <1>4 DEF LeasesInv, LoadedPermanent, DynamicIsSole, NameFromHolder
<1> QED BY <1>2, <1>5 DEF LeasesInv

\* A step that leaves the table alone, and does not start the loader.
LEMMA UnchangedTable ==
  ASSUME LeasesInv, UNCHANGED table, phase' = "loading" => phase = "loading"
  PROVE  LeasesInv'
<1>1. \A ip \in Addr : Lookup(ip)' = Lookup(ip)
  BY DEF Lookup, table
<1>2. TableInv'
  BY DEF LeasesInv, TableInv, TableTypeOK, FilledExact, NoHiddenLease, table
<1>3. HintSound'
  BY <1>1 DEF LeasesInv, TableInv, TableTypeOK, HintSound, table
<1> QED
  BY <1>1, <1>2, <1>3
  DEF LeasesInv, LoadedPermanent, DynamicIsSole, NameFromHolder

\* The table of a process that has just started.
LEMMA FreshTable ==
  ASSUME EmptyTable
  PROVE  LeasesInv
<1>1. TableTypeOK
  BY DEF EmptyTable, NoSlots, NoOverflow, NoHints, TableTypeOK
<1>2. FilledExact
  <2>1. {i \in SlotIndex : slots[i] # None} = {}
    BY DEF EmptyTable, NoSlots, NoOverflow, NoHints
  <2> QED BY <2>1, FS_EmptySet DEF EmptyTable, NoSlots, NoOverflow, NoHints, FilledExact
<1>3. \A ip \in Addr : Lookup(ip) = None
  BY SlotOfAddress DEF EmptyTable, NoSlots, NoOverflow, NoHints, Lookup
<1>4. NoHiddenLease /\ HintSound
  BY DEF EmptyTable, NoSlots, NoOverflow, NoHints, NoHiddenLease, HintSound
<1> QED
  BY <1>1, <1>2, <1>3, <1>4
  DEF LeasesInv, TableInv, LoadedPermanent, DynamicIsSole, NameFromHolder

LEMMA FreshTableAfter ==
  ASSUME EmptyTable'
  PROVE  LeasesInv'
<1>1. TableTypeOK'
  BY DEF EmptyTable, NoSlots, NoOverflow, NoHints, TableTypeOK
<1>2. FilledExact'
  <2>1. {i \in SlotIndex : slots'[i] # None} = {}
    BY DEF EmptyTable, NoSlots, NoOverflow, NoHints
  <2> QED BY <2>1, FS_EmptySet DEF EmptyTable, NoSlots, NoOverflow, NoHints, FilledExact
<1>3. \A ip \in Addr : Lookup(ip)' = None
  BY SlotOfAddress DEF EmptyTable, NoSlots, NoOverflow, NoHints, Lookup, HasSlot
<1>4. NoHiddenLease' /\ HintSound'
  BY DEF EmptyTable, NoSlots, NoOverflow, NoHints, NoHiddenLease, HintSound
<1> QED
  BY <1>1, <1>2, <1>3, <1>4
  DEF LeasesInv, TableInv, LoadedPermanent, DynamicIsSole, NameFromHolder

-----------------------------------------------------------------------------
(* The cursor *)

LEMMA ModRange ==
  ASSUME NEW n \in Nat, n > 0, NEW x \in Nat
  PROVE  /\ x % n \in Nat /\ x % n < n
         /\ x < n => x % n = x
         /\ n <= x /\ x < 2 * n => x % n = x - n
OBVIOUS

\* k increments of the cursor lead to an address of the pool ...
LEMMA CandidateInPool ==
  ASSUME last_lease \in Nat, NEW k \in 1 .. LeaseNum
  PROVE  /\ Cursor(k) \in Nat /\ Cursor(k) < LeaseNum
         /\ Candidate(k) \in Pool /\ Candidate(k) \in Addr
<1>1. LeaseNum \in Nat /\ LeaseNum > 0 /\ last_lease + k \in Nat
  BY PoolAssumption
<1>2. Cursor(k) \in Nat /\ Cursor(k) < LeaseNum
  BY <1>1, ModRange DEF Cursor
<1>3. Candidate(k) \in Pool
  BY <1>1, <1>2, PoolAssumption DEF Candidate, Pool
<1> QED BY <1>2, <1>3, PoolInAddr

\* ... and LeaseNum increments go through the whole pool.
LEMMA CandidatesCoverPool ==
  ASSUME TypeOK, NEW ip \in Pool
  PROVE  \E k \in 1 .. LeaseNum : Candidate(k) = ip
<1> DEFINE d == ip - IpStart
           k == IF d > last_lease THEN d - last_lease ELSE d - last_lease + LeaseNum
<1>1. /\ LeaseNum \in Nat /\ LeaseNum > 0 /\ IpStart \in Nat
      /\ d \in Nat /\ d < LeaseNum /\ ip = IpStart + d
      /\ last_lease \in Nat /\ last_lease < LeaseNum
  BY PoolAssumption DEF TypeOK, Pool
<1>2. k \in 1 .. LeaseNum
  BY <1>1
<1>3. (last_lease + k) % LeaseNum = d
  <2>1. CASE d > last_lease
    BY <1>1, <2>1, ModRange
  <2>2. CASE ~(d > last_lease)
    <3>1. last_lease + k = d + LeaseNum
      BY <1>1, <2>2
    <3>2. d + LeaseNum \in Nat /\ LeaseNum <= d + LeaseNum /\ d + LeaseNum < 2 * LeaseNum
      BY <1>1
    <3>3. (d + LeaseNum) % LeaseNum = d + LeaseNum - LeaseNum
      BY <1>1, <3>2, ModRange
    <3> QED BY <1>1, <3>1, <3>3
  <2> QED BY <2>1, <2>2
<1>4. Candidate(k) = ip
  BY <1>1, <1>3 DEF Candidate, Cursor
<1> QED BY <1>2, <1>4

\* A free address for a client is one of the pool.
LEMMA AvailableInPool ==
  ASSUME NEW mac, NEW ip, AvailableAt(mac, ip, now)
  PROVE  ip \in Pool /\ ip \in Addr
BY PoolInAddr DEF AvailableAt, HasSlot

-----------------------------------------------------------------------------
(* The inductive invariant *)

\* What TypeOK says besides the type of the table.
RestTypeOK ==
  /\ last_lease \in Nat
  /\ LeaseNum > 0 => last_lease < LeaseNum
  /\ now \in 0 .. MaxTime
  /\ phase \in {"loading", "serving", "down"}
  /\ file \in Seq(Line)
  /\ out \in Reply \cup {None}

LEMMA InvSplit ==
  /\ Inv <=> RestTypeOK /\ LeasesInv
  /\ Inv' <=> RestTypeOK' /\ LeasesInv'
BY DEF Inv, TypeOK, RestTypeOK, LeasesInv, TableInv

\* Initially the process has an empty table and is about to load a file.
LEMMA InitInv == Init => Inv
<1> SUFFICES ASSUME Init PROVE Inv
  OBVIOUS
<1>1. LeasesInv
  BY FreshTable DEF Init
<1>2. RestTypeOK
  BY PoolAssumption, ServerAssumption DEF Init, RestTypeOK
<1> QED BY <1>1, <1>2, InvSplit

LEMMA StartUpInv ==
  ASSUME Inv, LoadLine \/ StartServing \/ Restart \/ Tick
  PROVE  Inv'
<1> USE InvSplit
<1>1. CASE LoadLine
  <2> DEFINE line == Head(file)
  <2>1. file \in Seq(Line) /\ file # <<>>
    BY <1>1 DEF LoadLine, RestTypeOK
  <2>2. line \in Line /\ file' \in Seq(Line)
    BY <1>1, <2>1 DEF LoadLine
  <2>3. RestTypeOK'
    BY <1>1, <2>2 DEF LoadLine, RestTypeOK
  <2>4. CASE UNCHANGED table
    BY <1>1, <2>3, <2>4, UnchangedTable DEF LoadLine
  <2>5. CASE line.mac # None /\ line.ip # None
             /\ InsertLease(line.ip, line.mac, None, None) /\ UNCHANGED phase
    <3>1. line.mac \in Mac /\ line.ip \in Addr
      BY <2>2, <2>5 DEF Line
    <3>2. LeasesInv'
      BY <1>1, <2>5, <3>1, LoadedLease DEF LoadLine
    <3> QED BY <2>3, <3>2
  <2> QED BY <1>1, <2>4, <2>5 DEF LoadLine
<1>2. CASE StartServing
  BY <1>2, UnchangedTable DEF StartServing, RestTypeOK
<1>3. CASE Restart
  <2>1. RestTypeOK'
    BY <1>3, ServerAssumption, PoolAssumption DEF Restart, RestTypeOK
  <2>2. LeasesInv'
    BY <1>3, FreshTableAfter DEF Restart, EmptyTable
  <2> QED BY <2>1, <2>2
<1>4. CASE Tick
  <2>1. RestTypeOK'
    BY <1>4, ServerAssumption DEF Tick, RestTypeOK
  <2>2. LeasesInv'
    BY <1>4, UnchangedTable DEF Tick
  <2> QED BY <2>1, <2>2
<1> QED BY <1>1, <1>2, <1>3, <1>4

LEMMA DiscoverInv ==
  ASSUME Inv, NEW mac \in Mac, NEW rapid \in BOOLEAN,
         NEW name \in {None, NameOf[mac]},
         \/ DiscoverExisting(mac, rapid, name)
         \/ DiscoverFresh(mac, rapid, name)
         \/ DiscoverExhausted(mac)
  PROVE  Inv'
<1> USE InvSplit
<1>1. CASE DiscoverExisting(mac, rapid, name)
  <2>1. PICK ip \in CurrentLease(mac) :
          RememberHostname(ip, name) /\ out' = DiscoverReply(mac, rapid, ip)
    BY <1>1 DEF DiscoverExisting
  <2>2. ip \in Addr
    BY <2>1, CurrentLeaseHeld DEF LeasesInv, Holds
  <2>3. RestTypeOK'
    BY <1>1, <2>1, <2>2 DEF DiscoverExisting, DiscoverReply, RestTypeOK, Reply
  <2>4. LeasesInv'
    BY <1>1, <2>1, RenamedLease DEF DiscoverExisting
  <2> QED BY <2>3, <2>4
<1>2. CASE DiscoverFresh(mac, rapid, name)
  <2>1. PICK k \in 1 .. LeaseNum :
          /\ last_lease' = Cursor(k)
          /\ CommitFresh(mac, rapid, Candidate(k), name)
          /\ out' = DiscoverReply(mac, rapid, Candidate(k))
    BY <1>2 DEF DiscoverFresh
  <2>2. /\ Candidate(k) \in Addr
        /\ Cursor(k) \in Nat /\ Cursor(k) < LeaseNum
    BY CandidateInPool DEF RestTypeOK
  <2>3. RestTypeOK'
    BY <1>2, <2>1, <2>2 DEF DiscoverFresh, DiscoverReply, RestTypeOK, Reply
  <2>4. now + LeaseDuration \in Nat
    BY ServerAssumption DEF RestTypeOK
  <2>5. CASE EnableRapidCommit /\ rapid
    <3>1. InsertLease(Candidate(k), mac, now + LeaseDuration, name)
      BY <2>1, <2>5 DEF CommitFresh
    <3>2. LeasesInv'
      BY <1>2, <2>2, <2>4, <3>1, FreshLease DEF DiscoverFresh
    <3> QED BY <2>3, <3>2
  <2>6. CASE ~(EnableRapidCommit /\ rapid)
    <3>1. UNCHANGED table
      BY <2>1, <2>6 DEF CommitFresh
    <3>2. LeasesInv'
      BY <1>2, <3>1, UnchangedTable DEF DiscoverFresh
    <3> QED BY <2>3, <3>2
  <2> QED BY <2>5, <2>6
<1>3. CASE DiscoverExhausted(mac)
  <2>1. RestTypeOK'
    BY <1>3, PoolAssumption DEF DiscoverExhausted, RestTypeOK, Reply, Unspecified, Addr
  <2>2. LeasesInv'
    BY <1>3, UnchangedTable DEF DiscoverExhausted
  <2> QED BY <2>1, <2>2
<1> QED BY <1>1, <1>2, <1>3

LEMMA RequestInv ==
  ASSUME Inv, NEW mac \in Mac, NEW req_ip \in Addr,
         NEW name \in {None, NameOf[mac]},
         \/ RequestExisting(mac, name)
         \/ RequestNak(mac, req_ip)
         \/ RequestGrant(mac, req_ip, name)
  PROVE  Inv'
<1> USE InvSplit
<1>1. CASE RequestExisting(mac, name)
  <2>1. PICK ip \in CurrentLease(mac) :
          /\ RememberHostname(ip, name)
          /\ out' = [type |-> "Ack", mac |-> mac, yiaddr |-> ip]
    BY <1>1 DEF RequestExisting
  <2>2. ip \in Addr
    BY <2>1, CurrentLeaseHeld DEF LeasesInv, Holds
  <2>3. RestTypeOK'
    BY <1>1, <2>1, <2>2 DEF RequestExisting, RestTypeOK, Reply
  <2>4. LeasesInv'
    BY <1>1, <2>1, RenamedLease DEF RequestExisting
  <2> QED BY <2>3, <2>4
<1>2. CASE RequestNak(mac, req_ip)
  <2>1. RestTypeOK'
    BY <1>2, PoolAssumption DEF RequestNak, RestTypeOK, Reply, Unspecified, Addr
  <2>2. LeasesInv'
    BY <1>2, UnchangedTable DEF RequestNak
  <2> QED BY <2>1, <2>2
<1>3. CASE RequestGrant(mac, req_ip, name)
  <2>1. RestTypeOK'
    BY <1>3 DEF RequestGrant, RestTypeOK, Reply
  <2>2. now + LeaseDuration \in Nat
    BY ServerAssumption DEF RestTypeOK
  <2>3. LeasesInv'
    BY <1>3, <2>2, FreshLease DEF RequestGrant
  <2> QED BY <2>1, <2>3
<1> QED BY <1>1, <1>2, <1>3

LEMMA ReleaseInv ==
  ASSUME Inv, NEW mac \in Mac, NEW server_id,
         Release(mac, server_id) \/ Ignored(mac, server_id)
  PROVE  Inv'
<1> USE InvSplit
<1>1. CASE Release(mac, server_id)
  <2>1. RestTypeOK'
    BY <1>1 DEF Release, RestTypeOK
  <2>2. LeasesInv'
    BY <1>1, RemovedLease DEF Release
  <2> QED BY <2>1, <2>2
<1>2. CASE Ignored(mac, server_id)
  <2>1. RestTypeOK'
    BY <1>2 DEF Ignored, RestTypeOK
  <2>2. LeasesInv'
    BY <1>2, UnchangedTable DEF Ignored
  <2> QED BY <2>1, <2>2
<1> QED BY <1>1, <1>2

LEMMA StepInv == Inv /\ [Next]_vars => Inv'
<1> SUFFICES ASSUME Inv, [Next]_vars PROVE Inv'
  OBVIOUS
<1>1. CASE LoadLine \/ StartServing \/ Restart \/ Tick
  BY <1>1, StartUpInv
<1>2. ASSUME NEW mac \in Mac, HandleRequest(mac)
      PROVE  Inv'
  <2>1. Addr # {}
    BY PoolAssumption DEF Addr
  <2> QED
    BY <1>2, <2>1, DiscoverInv, RequestInv, ReleaseInv DEF HandleRequest
<1>3. CASE UNCHANGED vars
  <2>1. LeasesInv'
    BY <1>3, UnchangedTable DEF vars, table, Inv
  <2>2. RestTypeOK'
    BY <1>3, InvSplit DEF vars, RestTypeOK
  <2> QED BY <2>1, <2>2, InvSplit
<1> QED BY <1>1, <1>2, <1>3 DEF Next

LEMMA Invariance == Spec => []Inv
BY InitInv, StepInv, PTL DEF Spec

\* Every variable of the server keeps its type.
THEOREM TypeCorrect == Spec => []TypeOK
BY Invariance, PTL DEF Inv

\* The counter behind is_empty() always agrees with the slot array.
THEOREM FilledCorrect == Spec => []FilledExact
BY Invariance, PTL DEF Inv, LeasesInv, TableInv

\* by_mac never points at an address its client does not hold.
THEOREM HintsCorrect == Spec => []HintSound
BY Invariance, PTL DEF Inv, LeasesInv

\* A client with an address from the pool's free ones holds no other.
THEOREM DynamicLeasesAreSole == Spec => []DynamicIsSole
BY Invariance, PTL DEF Inv, LeasesInv

\* A stored host name was announced by the lease's present holder.
THEOREM NamesBelongToHolders == Spec => []NameFromHolder
BY Invariance, PTL DEF Inv, LeasesInv

-----------------------------------------------------------------------------
(* The promise kept *)

\* The two halves of the table seen from AbstractLeases.
LEMMA HeldView ==
  ASSUME TableInv, NEW mac \in Mac
  PROVE  /\ LeaseView \in [Addr -> Lease \cup {None}]
         /\ \A ip : ip \in Promise!Held(mac) <=> Holds(mac, ip)
         /\ HasNoLease(mac) => Promise!Held(mac) = {}
<1>1. /\ LeaseView \in [Addr -> Lease \cup {None}]
      /\ \A ip \in Addr : LeaseView[ip] = Lookup(ip)
  BY ViewType DEF TableInv
<1>2. \A ip : ip \in Promise!Held(mac) <=> Holds(mac, ip)
  BY <1>1 DEF Promise!Held, Holds
<1>3. HasNoLease(mac) => Promise!Held(mac) = {}
  BY <1>2, HasNoLeaseHolds DEF Holds
<1> QED BY <1>1, <1>2, <1>3

LEMMA AvailableView ==
  ASSUME TableInv, NEW mac \in Mac, HasNoLease(mac), NEW ip \in Addr
  PROVE  AvailableAt(mac, ip, now) <=> ip \in Promise!Available
<1>1. LeaseView[ip] = Lookup(ip)
  BY ViewType DEF TableInv
<1>2. Lookup(ip) # None => Lookup(ip).mac # mac
  BY HasNoLeaseHolds DEF Holds
<1>3. AvailableAt(mac, ip, now) <=> ip \in Pool /\ FreeFor(Lookup(ip), mac, now)
  BY DEF AvailableAt, HasSlot, Lookup
<1> QED
  BY <1>1, <1>2, <1>3, PoolInAddr
  DEF FreeFor, Lapsed, Promise!Available, Promise!Free

LEMMA InitPromise == Init => Promise!Init
BY SlotOfAddress DEF Init, EmptyTable, NoSlots, NoOverflow, NoHints, LeaseView, Lookup, Promise!Init

LEMMA ViewUnchanged ==
  ASSUME UNCHANGED table
  PROVE  UNCHANGED LeaseView
BY DEF LeaseView, Lookup, table

LEMMA StartUpPromise ==
  ASSUME Inv, LoadLine \/ StartServing \/ Restart \/ Tick
  PROVE  Promise!Next
<1>1. CASE LoadLine
  <2> DEFINE line == Head(file)
  <2>1. line \in Line
    BY <1>1 DEF LoadLine, Inv, TypeOK
  <2>2. phase = "loading" /\ out' = None /\ UNCHANGED now
    BY <1>1 DEF LoadLine
  <2>3. CASE UNCHANGED table /\ phase' \in {"loading", "down"}
    BY <2>2, <2>3, ViewUnchanged DEF Promise!Next, Promise!Load
  <2>4. CASE line.mac # None /\ line.ip # None
             /\ InsertLease(line.ip, line.mac, None, None) /\ UNCHANGED phase
    <3>1. line.mac \in Mac /\ line.ip \in Addr
      BY <2>1, <2>4 DEF Line
    <3>2. LeaseView' = [LeaseView EXCEPT ![line.ip] =
                          [mac |-> line.mac, expiry |-> None, name |-> None]]
      BY <2>4, <3>1, InsertLeaseView DEF Inv, LeasesInv
    <3>3. Promise!Give(line.mac, line.ip, None, None)
      BY <3>2 DEF Promise!Give
    <3> QED BY <2>2, <2>4, <3>1, <3>3 DEF Promise!Next, Promise!Load
  <2> QED BY <1>1, <2>3, <2>4, <2>2 DEF LoadLine
<1>2. CASE StartServing
  BY <1>2, ViewUnchanged DEF StartServing, Promise!Next, Promise!Load
<1>3. CASE Restart
  <2>1. LeaseView' = [ip \in Addr |-> None]
    BY <1>3, SlotOfAddress DEF Restart, EmptyTable, NoSlots, NoOverflow, NoHints, LeaseView, Lookup, HasSlot
  <2> QED BY <1>3, <2>1 DEF Restart, Promise!Next, Promise!Reset
<1>4. CASE Tick
  BY <1>4, ViewUnchanged DEF Tick, Promise!Next, Promise!Tick
<1> QED BY <1>1, <1>2, <1>3, <1>4

\* A client that holds something is answered with an address it holds.
LEMMA HolderPromise ==
  ASSUME Inv, NEW mac \in Mac, NEW ip \in CurrentLease(mac),
         NEW name \in {None, NameOf[mac]}, NEW type \in {"Ack", "Offer"},
         RememberHostname(ip, name),
         out' = [type |-> type, mac |-> mac, yiaddr |-> ip]
  PROVE  Promise!AnswerHolder(mac)
<1>1. Holds(mac, ip) /\ ip \in Promise!Held(mac)
  BY CurrentLeaseHeld, HeldView DEF Inv, LeasesInv
<1>2. name \in Name \cup {None}
  BY ServerAssumption
<1>3. Promise!Rename(ip, name)
  BY <1>1, <1>2, RememberHostnameView DEF Inv, LeasesInv, Holds, Promise!Rename
<1>4. Promise!Say("Ack", mac, ip) \/ Promise!Say("Offer", mac, ip)
  BY DEF Promise!Say
<1> QED BY <1>1, <1>3, <1>4 DEF Promise!AnswerHolder, Promise!Names

\* A client that holds nothing is granted an available address.
LEMMA GrantPromise ==
  ASSUME Inv, NEW mac \in Mac, NEW ip \in Addr, NEW name \in {None, NameOf[mac]},
         HasNoLease(mac), AvailableAt(mac, ip, now),
         InsertLease(ip, mac, now + LeaseDuration, name),
         out' = [type |-> "Ack", mac |-> mac, yiaddr |-> ip]
  PROVE  Promise!Grant(mac)
<1>1. ip \in Promise!Available /\ Promise!Held(mac) = {}
  BY AvailableView, HeldView DEF Inv, LeasesInv
<1>2. name \in Name \cup {None} /\ now + LeaseDuration \in Nat
  BY ServerAssumption DEF Inv, TypeOK
<1>3. Promise!Give(mac, ip, now + LeaseDuration, name)
  BY <1>2, InsertLeaseView DEF Inv, LeasesInv, Promise!Give
<1> QED
  BY <1>1, <1>3 DEF Promise!Grant, Promise!Say, Promise!Names

\* When the scan comes back empty, no address of the pool is available.
LEMMA NoneFreeInPool ==
  ASSUME Inv, NEW mac \in Mac, NoneFree(mac), NEW ip \in Pool
  PROVE  ~AvailableAt(mac, ip, now)
BY CandidatesCoverPool DEF NoneFree, Inv

\* What handle_request does to the table, and what it answers, is a step of
\* the storage-free specification.
LEMMA HandleRequestPromise ==
  ASSUME Inv, NEW mac \in Mac, HandleRequest(mac)
  PROVE  Promise!Serve
<1>0. TableInv
  BY DEF Inv, LeasesInv
<1>1. ASSUME NEW name \in {None, NameOf[mac]}, NEW rapid \in BOOLEAN,
             DiscoverExisting(mac, rapid, name)
      PROVE  Promise!Serve
  <2>1. PICK ip \in CurrentLease(mac) :
          RememberHostname(ip, name) /\ out' = DiscoverReply(mac, rapid, ip)
    BY <1>1 DEF DiscoverExisting
  <2>2. Promise!AnswerHolder(mac)
    BY <2>1, HolderPromise DEF DiscoverReply
  <2> QED BY <1>1, <2>2 DEF DiscoverExisting, Promise!Serve
<1>2. ASSUME NEW name \in {None, NameOf[mac]}, NEW rapid \in BOOLEAN,
             DiscoverFresh(mac, rapid, name)
      PROVE  Promise!Serve
  <2>1. PICK k \in 1 .. LeaseNum :
          /\ FirstFree(mac, k)
          /\ CommitFresh(mac, rapid, Candidate(k), name)
          /\ out' = DiscoverReply(mac, rapid, Candidate(k))
    BY <1>2 DEF DiscoverFresh
  <2>2. HasNoLease(mac) /\ AvailableAt(mac, Candidate(k), now)
    BY <1>2, <2>1 DEF DiscoverFresh, FirstFree
  <2>3. Candidate(k) \in Addr
    BY <2>2, AvailableInPool
  <2>4. CASE EnableRapidCommit /\ rapid
    <3>1. Promise!Grant(mac)
      BY <2>1, <2>2, <2>3, <2>4, GrantPromise DEF CommitFresh, DiscoverReply
    <3> QED BY <1>2, <3>1 DEF DiscoverFresh, Promise!Serve
  <2>5. CASE ~(EnableRapidCommit /\ rapid)
    <3>1. UNCHANGED LeaseView
      BY <2>1, <2>5, ViewUnchanged DEF CommitFresh
    <3>2. Candidate(k) \in Promise!Available /\ Promise!Held(mac) = {}
      BY <1>0, <2>2, <2>3, AvailableView, HeldView
    <3>3. Promise!OfferFresh(mac)
      BY <2>1, <2>5, <3>1, <3>2
      DEF DiscoverReply, Promise!OfferFresh, Promise!Say
    <3> QED BY <1>2, <3>3 DEF DiscoverFresh, Promise!Serve
  <2> QED BY <2>4, <2>5
<1>3. CASE DiscoverExhausted(mac)
  <2>1. HasNoLease(mac) /\ NoneFree(mac) /\ UNCHANGED table
    BY <1>3 DEF DiscoverExhausted
  <2>2. UNCHANGED LeaseView /\ Promise!Held(mac) = {}
    BY <1>0, <2>1, ViewUnchanged, HeldView
  <2>3. Promise!Available = {}
    BY <1>0, <2>1, AvailableView, NoneFreeInPool, PoolInAddr DEF Promise!Available
  <2> QED
    BY <1>3, <2>2, <2>3
    DEF DiscoverExhausted, Unspecified, Promise!Serve, Promise!Exhausted, Promise!Say
<1>4. ASSUME NEW name \in {None, NameOf[mac]}, RequestExisting(mac, name)
      PROVE  Promise!Serve
  <2>1. Promise!AnswerHolder(mac)
    BY <1>4, HolderPromise DEF RequestExisting
  <2> QED BY <1>4, <2>1 DEF RequestExisting, Promise!Serve
<1>5. ASSUME NEW req_ip \in Addr, RequestNak(mac, req_ip)
      PROVE  Promise!Serve
  <2>1. HasNoLease(mac) /\ ~AvailableAt(mac, req_ip, now) /\ UNCHANGED table
    BY <1>5 DEF RequestNak
  <2>2. UNCHANGED LeaseView /\ Promise!Held(mac) = {}
    BY <1>0, <2>1, ViewUnchanged, HeldView
  <2>3. req_ip \in Addr \ Promise!Available
    BY <1>0, <2>1, AvailableView
  <2> QED
    BY <1>5, <2>2, <2>3
    DEF RequestNak, Unspecified, Promise!Serve, Promise!Refuse, Promise!Say
<1>6. ASSUME NEW req_ip \in Addr, NEW name \in {None, NameOf[mac]},
             RequestGrant(mac, req_ip, name)
      PROVE  Promise!Serve
  <2>1. Promise!Grant(mac)
    BY <1>6, GrantPromise DEF RequestGrant
  <2> QED BY <1>6, <2>1 DEF RequestGrant, Promise!Serve
<1>7. ASSUME NEW server_id, Release(mac, server_id)
      PROVE  Promise!Serve
  <2>1. PICK ip \in CurrentLease(mac) : RemoveLease(mac, ip)
    BY <1>7 DEF Release
  <2>2. Holds(mac, ip) /\ ip \in Promise!Held(mac)
    BY <1>0, CurrentLeaseHeld, HeldView
  <2>3. LeaseView' = [LeaseView EXCEPT ![ip] = None]
    BY <2>1, <2>2, RemoveLeaseView DEF Inv, LeasesInv, Holds
  <2> QED BY <1>7, <2>2, <2>3 DEF Release, Promise!Serve, Promise!Drop
<1>8. ASSUME NEW server_id, Ignored(mac, server_id)
      PROVE  Promise!Serve
  BY <1>8, ViewUnchanged DEF Ignored, Promise!Serve, Promise!NoAnswer
<1> QED BY <1>1, <1>2, <1>3, <1>4, <1>5, <1>6, <1>7, <1>8 DEF HandleRequest

\* The server with its slots, counter, overflow, hints and cursor is an
\* implementation of the plain map of leases.
THEOREM Refinement == Spec => KeepsPromise
<1>1. Inv /\ [Next]_vars => [Promise!Next]_Promise!vars
  <2> SUFFICES ASSUME Inv, [Next]_vars PROVE [Promise!Next]_Promise!vars
    OBVIOUS
  <2>1. CASE LoadLine \/ StartServing \/ Restart \/ Tick
    BY <2>1, StartUpPromise
  <2>2. ASSUME NEW mac \in Mac, HandleRequest(mac)
        PROVE  Promise!Next
    BY <2>2, HandleRequestPromise DEF Promise!Next
  <2>3. CASE UNCHANGED vars
    BY <2>3, ViewUnchanged DEF vars, table, Promise!vars
  <2> QED BY <2>1, <2>2, <2>3 DEF Next
<1> QED
  BY <1>1, InitPromise, Invariance, PTL DEF Spec, KeepsPromise, Promise!Spec

-----------------------------------------------------------------------------
(* What no step takes away, and what the answers mean *)

\* An address that is available to a client without a lease is unprotected.
LEMMA AvailableIsUnprotected ==
  ASSUME TypeOK, TableInv, NEW mac \in Mac, HasNoLease(mac), NEW ip \in Addr,
         ip \in Pool
  PROVE  AvailableAt(mac, ip, now) <=> ~Protected(ip)
<1>1. Lookup(ip) # None => Lookup(ip) \in Lease /\ Lookup(ip).mac # mac
  BY ViewType, HasNoLeaseHolds DEF TableInv, Holds
<1>2. AvailableAt(mac, ip, now) <=> FreeFor(Lookup(ip), mac, now)
  BY DEF AvailableAt, HasSlot, Lookup
<1>3. now \in Nat
  BY ServerAssumption DEF TypeOK
<1> QED BY <1>1, <1>2, <1>3 DEF FreeFor, Lapsed, Protected, Lease

\* The step keeps the binding of ip if it is protected.
Untouched(ip) == Protected(ip) => SameBinding(Lookup(ip), Lookup(ip)')

LEMMA SameTableKeeps ==
  ASSUME UNCHANGED table, NEW ip \in Addr
  PROVE  Untouched(ip)
BY DEF table, Untouched, Protected, SameBinding, Lookup

\* A new lease goes to an unprotected address.
LEMMA InsertKeeps ==
  ASSUME Inv, NEW mac \in Mac, NEW new \in Addr, NEW name \in {None, NameOf[mac]},
         HasNoLease(mac), AvailableAt(mac, new, now),
         InsertLease(new, mac, now + LeaseDuration, name)
  PROVE  /\ \A ip \in Addr : Untouched(ip)
         /\ Holds(mac, new)'
<1>1. ~Protected(new)
  BY AvailableIsUnprotected, AvailableInPool DEF Inv, LeasesInv
<1>2. name \in Name \cup {None} /\ now + LeaseDuration \in Nat
  BY ServerAssumption DEF Inv, TypeOK
<1>3. LeaseView' = [LeaseView EXCEPT ![new] =
                      [mac |-> mac, expiry |-> now + LeaseDuration, name |-> name]]
  BY <1>2, InsertLeaseView DEF Inv, LeasesInv
<1>4. /\ LeaseView \in [Addr -> Lease \cup {None}]
      /\ \A ip \in Addr : LeaseView'[ip] = Lookup(ip)' /\ LeaseView[ip] = Lookup(ip)
  BY ViewType DEF Inv, LeasesInv, TableInv, LeaseView
<1>5. \A ip \in Addr : Untouched(ip)
  BY <1>1, <1>3, <1>4 DEF Untouched, SameBinding, Protected
<1>6. [mac |-> mac, expiry |-> now + LeaseDuration, name |-> name] \in Lease
  BY <1>2 DEF Lease
<1> QED BY <1>3, <1>4, <1>5, <1>6, NoneAssumption DEF Holds

\* A name has no part in a binding.
LEMMA RenameKeeps ==
  ASSUME Inv, NEW mac \in Mac, NEW held \in CurrentLease(mac),
         NEW name \in {None, NameOf[mac]},
         RememberHostname(held, name)
  PROVE  /\ \A ip \in Addr : Untouched(ip)
         /\ Holds(mac, held)'
<1>1. Holds(mac, held) /\ name \in Name \cup {None}
  BY CurrentLeaseHeld, ServerAssumption DEF Inv, LeasesInv
<1>2. /\ LeaseView' = IF name = None THEN LeaseView
                      ELSE [LeaseView EXCEPT ![held].name = name]
      /\ TableInv'
  BY <1>1, RememberHostnameView DEF Inv, LeasesInv, Holds
<1>3. /\ LeaseView \in [Addr -> Lease \cup {None}]
      /\ \A ip \in Addr : LeaseView'[ip] = Lookup(ip)' /\ LeaseView[ip] = Lookup(ip)
  BY ViewType DEF Inv, LeasesInv, TableInv, LeaseView
<1>4. CASE name # None
  <2>1. Lookup(held) \in Lease
    BY <1>1, <1>3 DEF Holds
  <2>2. Lookup(held)' = [Lookup(held) EXCEPT !.name = name]
    BY <1>1, <1>2, <1>3, <1>4 DEF Holds
  <2>3. Lookup(held)' \in Lease
    BY <1>1, <2>1, <2>2 DEF Lease
  <2>4. SameBinding(Lookup(held), Lookup(held)')
    BY <2>1, <2>2, <2>3, NoneAssumption DEF Lease, SameBinding
  <2>5. \A ip \in Addr : ip # held => Lookup(ip)' = Lookup(ip)
    BY <1>2, <1>3, <1>4
  <2> QED
    BY <1>1, <2>4, <2>5 DEF Holds, Untouched, SameBinding, Protected
<1>5. CASE name = None
  BY <1>1, <1>2, <1>3, <1>5 DEF Holds, Untouched, SameBinding, Protected
<1> QED BY <1>4, <1>5

\* A Discover takes nothing from anyone, and what it acks is its client's.
LEMMA DiscoverKeeps ==
  ASSUME Inv, NEW mac \in Mac, NEW name \in {None, NameOf[mac]}, NEW rapid \in BOOLEAN,
         \/ DiscoverExisting(mac, rapid, name)
         \/ DiscoverFresh(mac, rapid, name)
         \/ DiscoverExhausted(mac)
  PROVE  /\ \A ip \in Addr : Untouched(ip)
         /\ \A ip \in Addr :
              out'.type = "Ack" /\ out'.yiaddr = ip => Holds(mac, ip)'
         /\ UNCHANGED <<now, phase>>
<1>1. CASE DiscoverExisting(mac, rapid, name)
  <2>1. PICK ip \in CurrentLease(mac) :
          RememberHostname(ip, name) /\ out' = DiscoverReply(mac, rapid, ip)
    BY <1>1 DEF DiscoverExisting
  <2>2. (\A a \in Addr : Untouched(a)) /\ Holds(mac, ip)'
    BY <2>1, RenameKeeps
  <2>3. out'.yiaddr = ip
    BY <2>1 DEF DiscoverReply
  <2> QED BY <1>1, <2>2, <2>3 DEF DiscoverExisting
<1>2. CASE DiscoverFresh(mac, rapid, name)
  <2>1. PICK k \in 1 .. LeaseNum :
          /\ FirstFree(mac, k)
          /\ CommitFresh(mac, rapid, Candidate(k), name)
          /\ out' = DiscoverReply(mac, rapid, Candidate(k))
    BY <1>2 DEF DiscoverFresh
  <2>2. HasNoLease(mac) /\ AvailableAt(mac, Candidate(k), now)
    BY <1>2, <2>1 DEF DiscoverFresh, FirstFree
  <2>3. PICK new \in Addr : new = Candidate(k)
    BY <2>2, AvailableInPool
  <2>4. CASE EnableRapidCommit /\ rapid
    <3>1. InsertLease(new, mac, now + LeaseDuration, name)
      BY <2>1, <2>3, <2>4 DEF CommitFresh
    <3>2. /\ \A ip \in Addr : Untouched(ip)
          /\ Holds(mac, new)'
      BY <2>2, <2>3, <3>1, InsertKeeps
    <3>3. out'.yiaddr = new
      BY <2>1, <2>3 DEF DiscoverReply
    <3> QED BY <1>2, <3>2, <3>3 DEF DiscoverFresh
  <2>5. CASE ~(EnableRapidCommit /\ rapid)
    <3>1. UNCHANGED table /\ out'.type = "Offer"
      BY <2>1, <2>5 DEF CommitFresh, DiscoverReply
    <3> QED BY <1>2, <3>1, SameTableKeeps DEF DiscoverFresh
  <2> QED BY <2>4, <2>5
<1>3. CASE DiscoverExhausted(mac)
  BY <1>3, SameTableKeeps DEF DiscoverExhausted
<1> QED BY <1>1, <1>2, <1>3

\* A Request takes nothing from anyone, and what it acks is its client's.
LEMMA RequestKeeps ==
  ASSUME Inv, NEW mac \in Mac, NEW req_ip \in Addr, NEW name \in {None, NameOf[mac]},
         \/ RequestExisting(mac, name)
         \/ RequestNak(mac, req_ip)
         \/ RequestGrant(mac, req_ip, name)
  PROVE  /\ \A ip \in Addr : Untouched(ip)
         /\ \A ip \in Addr :
              out'.type = "Ack" /\ out'.yiaddr = ip => Holds(mac, ip)'
         /\ UNCHANGED <<now, phase>>
<1>1. CASE RequestExisting(mac, name)
  <2>1. PICK ip \in CurrentLease(mac) :
          /\ RememberHostname(ip, name)
          /\ out' = [type |-> "Ack", mac |-> mac, yiaddr |-> ip]
    BY <1>1 DEF RequestExisting
  <2>2. (\A a \in Addr : Untouched(a)) /\ Holds(mac, ip)'
    BY <2>1, RenameKeeps
  <2>3. out'.yiaddr = ip
    BY <2>1
  <2> QED BY <1>1, <2>2, <2>3 DEF RequestExisting
<1>2. CASE RequestNak(mac, req_ip)
  BY <1>2, SameTableKeeps DEF RequestNak
<1>3. CASE RequestGrant(mac, req_ip, name)
  <2>1. (\A a \in Addr : Untouched(a)) /\ Holds(mac, req_ip)'
    BY <1>3, InsertKeeps DEF RequestGrant
  <2>2. out'.yiaddr = req_ip
    BY <1>3 DEF RequestGrant
  <2> QED BY <1>3, <2>1, <2>2 DEF RequestGrant
<1> QED BY <1>1, <1>2, <1>3

\* A Release or Decline frees an address of its own client only.
LEMMA ReleaseKeeps ==
  ASSUME Inv, NEW mac \in Mac, NEW server_id, Release(mac, server_id),
         NEW ip \in Addr
  PROVE  /\ Lookup(ip).mac # mac => Untouched(ip)
         /\ server_id = ServerIp
<1>1. PICK freed \in CurrentLease(mac) : RemoveLease(mac, freed)
  BY DEF Release
<1>2. Holds(mac, freed) /\ server_id = ServerIp
  BY CurrentLeaseHeld DEF Release, ForThisServer, Inv, LeasesInv
<1>3. LeaseView' = [LeaseView EXCEPT ![freed] = None]
  BY <1>1, <1>2, RemoveLeaseView DEF Inv, LeasesInv, Holds
<1>4. /\ LeaseView \in [Addr -> Lease \cup {None}]
      /\ LeaseView'[ip] = Lookup(ip)' /\ LeaseView[ip] = Lookup(ip)
  BY ViewType DEF Inv, LeasesInv, TableInv, LeaseView
<1>5. CASE ip = freed
  BY <1>2, <1>5 DEF Holds
<1>6. CASE ip # freed
  BY <1>2, <1>3, <1>4, <1>6 DEF Untouched, SameBinding, Protected
<1> QED BY <1>5, <1>6

LEMMA StepKeeps ==
  ASSUME Inv, Next, NEW ip \in Addr, Protected(ip), phase = "serving"
  PROVE  \/ SameBinding(Lookup(ip), Lookup(ip)')
         \/ Release(Lookup(ip).mac, ServerIp)
         \/ Restart
<1> DEFINE Goal == \/ SameBinding(Lookup(ip), Lookup(ip)')
                   \/ Release(Lookup(ip).mac, ServerIp)
                   \/ Restart
<1>1. CASE LoadLine \/ StartServing \/ Restart \/ Tick
  BY <1>1, SameTableKeeps DEF LoadLine, StartServing, Tick, Untouched
<1>2. ASSUME NEW mac \in Mac, HandleRequest(mac)
      PROVE  Goal
  <2>1. ASSUME NEW name \in {None, NameOf[mac]}, NEW rapid \in BOOLEAN,
               \/ DiscoverExisting(mac, rapid, name)
               \/ DiscoverFresh(mac, rapid, name)
               \/ DiscoverExhausted(mac)
        PROVE  Goal
    BY <2>1, DiscoverKeeps DEF Untouched
  <2>2. ASSUME NEW req_ip \in Addr, NEW name \in {None, NameOf[mac]},
               \/ RequestExisting(mac, name)
               \/ RequestNak(mac, req_ip)
               \/ RequestGrant(mac, req_ip, name)
        PROVE  Goal
    BY <2>2, RequestKeeps DEF Untouched
  <2>3. ASSUME NEW server_id, Release(mac, server_id)
        PROVE  Goal
    BY <2>3, ReleaseKeeps DEF Untouched
  <2>4. ASSUME NEW server_id, Ignored(mac, server_id)
        PROVE  Goal
    BY <2>4, SameTableKeeps DEF Ignored, Untouched
  <2> HIDE DEF Goal
  <2> QED BY <1>2, <2>1, <2>2, <2>3, <2>4 DEF HandleRequest
<1> QED BY <1>1, <1>2 DEF Next

\* An unexpired lease, and a reservation outside the pool, is only taken away
\* by its holder's own Release or Decline, or by a restart.
THEOREM ProtectedLeasesKept == Spec => ProtectedKept
<1>1. Inv /\ [Next]_vars =>
        [\A ip \in Addr : Protected(ip) /\ phase = "serving" =>
           \/ SameBinding(Lookup(ip), Lookup(ip)')
           \/ Release(Lookup(ip).mac, ServerIp)
           \/ Restart]_vars
  BY StepKeeps
<1> QED BY <1>1, Invariance, PTL DEF Spec, ProtectedKept

\* Only handle_request answers, and only the client it serves.
LEMMA WhoIsTold ==
  ASSUME Next, NEW type, NEW mac, Told(type, mac)'
  PROVE  /\ mac \in Mac
         /\ HandleRequest(mac)
         /\ type = "Exhausted" => DiscoverExhausted(mac)
         /\ type = "Offer" =>
              \E rapid \in BOOLEAN, name \in {None, NameOf[mac]} :
                \/ DiscoverExisting(mac, rapid, name)
                \/ DiscoverFresh(mac, rapid, name)
<1>1. PICK m \in Mac : HandleRequest(m)
  BY DEF Next, LoadLine, StartServing, Restart, Tick, Told
<1>2. ASSUME NEW server_id
      PROVE  ~Release(m, server_id) /\ ~Ignored(m, server_id)
  BY DEF Release, Ignored, Told
<1>3. CASE \E name \in {None, NameOf[m]}, rapid \in BOOLEAN :
             DiscoverExisting(m, rapid, name) \/ DiscoverFresh(m, rapid, name)
  BY <1>1, <1>3 DEF DiscoverExisting, DiscoverFresh, DiscoverReply, Told
<1>4. CASE DiscoverExhausted(m)
  BY <1>1, <1>4 DEF DiscoverExhausted, Told
<1>5. CASE \E name \in {None, NameOf[m]}, req_ip \in Addr :
             \/ RequestExisting(m, name)
             \/ RequestNak(m, req_ip)
             \/ RequestGrant(m, req_ip, name)
  BY <1>1, <1>5 DEF RequestExisting, RequestNak, RequestGrant, Told
<1>6. Addr # {}
  BY PoolAssumption DEF Addr
<1> QED BY <1>1, <1>2, <1>3, <1>4, <1>5, <1>6 DEF HandleRequest

\* Silence for want of an address is never wrong: the whole pool is under
\* unexpired leases of other clients.
THEOREM ExhaustionIsReal == Spec => []ExhaustedMeansFull
<1>1. Init => ExhaustedMeansFull
  BY DEF Init, ExhaustedMeansFull, Told
<1>2. Inv /\ ExhaustedMeansFull /\ [Next]_vars => ExhaustedMeansFull'
  <2> SUFFICES ASSUME Inv, ExhaustedMeansFull, [Next]_vars
               PROVE  ExhaustedMeansFull'
    OBVIOUS
  <2>1. CASE Next
    <3> SUFFICES ASSUME NEW mac \in Mac, Told("Exhausted", mac)',
                        NEW ip \in Addr
                 PROVE  /\ ip \in Pool => Protected(ip)'
                        /\ Lookup(ip)' # None => Lookup(ip)'.mac # mac
      BY DEF ExhaustedMeansFull
    <3>1. HasNoLease(mac) /\ NoneFree(mac) /\ UNCHANGED <<table, now>>
      BY <2>1, WhoIsTold DEF DiscoverExhausted
    <3>2. ip \in Pool => Protected(ip)
      BY <3>1, NoneFreeInPool, AvailableIsUnprotected DEF Inv, LeasesInv
    <3>3. Lookup(ip) # None => Lookup(ip).mac # mac
      BY <3>1, HasNoLeaseHolds DEF Inv, LeasesInv, Holds
    <3>4. Lookup(ip)' = Lookup(ip)
      BY <3>1 DEF table, Lookup
    <3> QED BY <3>1, <3>2, <3>3, <3>4 DEF Protected
  <2>2. CASE UNCHANGED vars
    BY <2>2 DEF vars, ExhaustedMeansFull, Told, Protected, Lookup
  <2> QED BY <2>1, <2>2
<1> QED BY <1>1, <1>2, Invariance, PTL DEF Spec

\* The cursor keeps a client without a lease off the address it stands on
\* whenever another address is available.
THEOREM OffersAreSpread == Spec => OffersSpread
<1> DEFINE Spread(mac) ==
      HasNoLease(mac) /\ Told("Offer", mac)' =>
        \/ out'.yiaddr # IpStart + last_lease
        \/ \A ip \in Pool : ip # out'.yiaddr => ~AvailableAt(mac, ip, now)
<1>1. ASSUME Inv, Next, NEW mac \in Mac
      PROVE  Spread(mac)
  <2> SUFFICES ASSUME HasNoLease(mac), Told("Offer", mac)',
                      out'.yiaddr = IpStart + last_lease,
                      NEW ip \in Pool, ip # out'.yiaddr
               PROVE  ~AvailableAt(mac, ip, now)
    OBVIOUS
  <2>1. PICK rapid \in BOOLEAN, name \in {None, NameOf[mac]} :
          DiscoverExisting(mac, rapid, name) \/ DiscoverFresh(mac, rapid, name)
    BY <1>1, WhoIsTold
  <2>2. ~DiscoverExisting(mac, rapid, name)
    BY <1>1, CurrentLeaseHeld, HasNoLeaseHolds
    DEF DiscoverExisting, Inv, LeasesInv, Holds
  <2>3. PICK k \in 1 .. LeaseNum :
          FirstFree(mac, k) /\ out' = DiscoverReply(mac, rapid, Candidate(k))
    BY <2>1, <2>2 DEF DiscoverFresh
  <2>4. (last_lease + k) % LeaseNum = last_lease
    <3>1. Candidate(k) = IpStart + last_lease
      BY <2>3 DEF DiscoverReply
    <3>2. Cursor(k) \in Nat /\ last_lease \in Nat /\ IpStart \in Nat
      BY <1>1, CandidateInPool, PoolAssumption DEF Inv, TypeOK
    <3> QED BY <3>1, <3>2 DEF Candidate, Cursor
  <2>5. k = LeaseNum
    <3>1. LeaseNum \in Nat /\ LeaseNum > 0 /\ last_lease \in Nat /\ last_lease < LeaseNum
      BY <1>1, PoolAssumption DEF Inv, TypeOK
    <3>2. CASE last_lease + k < LeaseNum
      BY <2>4, <3>1, <3>2, ModRange
    <3>3. CASE LeaseNum <= last_lease + k
      <4>1. last_lease + k \in Nat /\ last_lease + k < 2 * LeaseNum
        BY <3>1
      <4>2. (last_lease + k) % LeaseNum = last_lease + k - LeaseNum
        BY <3>1, <3>3, <4>1, ModRange
      <4> QED BY <2>4, <3>1, <4>2
    <3> QED BY <3>1, <3>2, <3>3
  <2>6. PICK j \in 1 .. LeaseNum : Candidate(j) = ip
    BY <1>1, CandidatesCoverPool DEF Inv
  <2>7. j \in 1 .. (k - 1)
    BY <2>3, <2>5, <2>6, PoolAssumption DEF DiscoverReply
  <2> QED BY <2>3, <2>6, <2>7 DEF FirstFree
<1>2. Inv /\ [Next]_vars => [\A mac \in Mac : Spread(mac)]_vars
  BY <1>1
<1> QED BY <1>2, Invariance, PTL DEF Spec, OffersSpread
=============================================================================
