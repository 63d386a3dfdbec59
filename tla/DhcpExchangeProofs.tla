------------------------- MODULE DhcpExchangeProofs -------------------------
(***************************************************************************)
(* Proofs about DhcpExchange for every number of clients, size of pool and *)
(* bound.                                                                  *)
(*                                                                         *)
(* The server's part rests on MyServerProofs: its invariant, and what its  *)
(* handlers keep of the bindings.  The clients' part adds that a grant is  *)
(* backed by the table from the moment its Ack is sent, so that it does    *)
(* not matter how long the Ack travels.                                    *)
(***************************************************************************)
EXTENDS DhcpExchange, MyServerProofs

ClientTypeOK ==
  /\ state \in [Mac -> {"init", "selecting", "requesting"} \cup Holding]
  /\ addr \in [Mac -> Addr]
  /\ asked \in [Mac -> Nat]
  /\ until \in [Mac -> Nat]
  /\ granted \in [Mac -> Nat \cup {None}]
  /\ disturbed \in [Mac -> BOOLEAN]

NetTypeOK == up \subseteq Packet /\ down \subseteq Answer /\ faults \in 0 .. MaxFaults

\* A client that has not begun has nothing to receive.
NothingForIdle == \A r \in down : state[r.mac] # "init"

\* An Ack under way is backed by the table already.
AcksBacked ==
  \A r \in down : r.type = "Ack" /\ ~disturbed[r.mac] => Backed(r.mac, r.yiaddr, r.expiry)

\* A server that is loading has granted nothing to the undisturbed.
NoGrantWhileLoading ==
  phase = "loading" =>
    /\ \A m \in Mac : ~disturbed[m] => state[m] \notin Holding
    /\ \A r \in down : ~disturbed[r.mac] => r.type # "Ack"

GrantInv == NothingForIdle /\ AcksBacked /\ NoGrantWhileLoading /\ RightfulHolder

ExchangeInv == Inv /\ ClientTypeOK /\ NetTypeOK /\ GrantInv

-----------------------------------------------------------------------------
(* Types *)

LEMMA InitExchange == ExchangeInit => ExchangeInv
<1> SUFFICES ASSUME ExchangeInit PROVE ExchangeInv
  OBVIOUS
<1>1. Inv
  BY InitInv DEF ExchangeInit
<1>2. ClientTypeOK /\ NetTypeOK
  BY PoolAssumption, ExchangeAssumption
  DEF ExchangeInit, ClientTypeOK, NetTypeOK, Unspecified, Addr
<1>3. GrantInv
  BY DEF ExchangeInit, GrantInv, NothingForIdle, AcksBacked, NoGrantWhileLoading,
     RightfulHolder, Holding
<1> QED BY <1>1, <1>2, <1>3 DEF ExchangeInv

LEMMA BeginTypes ==
  ASSUME NetTypeOK, NEW m \in Mac, NEW packet \in Packet, Begin(m, packet)
  PROVE  up' \subseteq Packet /\ down' = down \ Replies(m)
<1>1. PICK late \in SUBSET {p \in up : p.current => p.mac = m} :
        up' = {p \in up : p.current /\ p.mac # m}
                \cup {[p EXCEPT !.current = FALSE] : p \in late} \cup {packet}
  BY DEF Begin
<1>2. ASSUME NEW p \in Packet
      PROVE  [p EXCEPT !.current = FALSE] \in Packet
  BY DEF Packet
<1> QED BY <1>1, <1>2 DEF Begin, NetTypeOK

LEMMA ForgetTypes ==
  ASSUME ClientTypeOK, NEW m \in Mac, Forget(m)
  PROVE  ClientTypeOK'
BY PoolAssumption DEF ClientTypeOK, Forget, Unspecified, Addr

LEMMA ClientTypes ==
  ASSUME ExchangeInv, NEW m \in Mac, ClientStep(m)
  PROVE  ClientTypeOK' /\ NetTypeOK' /\ UNCHANGED vars
<1> USE DEF ExchangeInv
<1>1. now \in Nat /\ LeaseDuration \in Nat
  BY ServerAssumption DEF Inv, TypeOK
<1>2. \A ip \in Addr :
        /\ ToServer("Discover", m, ip) \in Packet
        /\ ToServer("Request", m, ip) \in Packet
        /\ ToServer("Release", m, ip) \in Packet
  BY DEF ToServer, Packet
<1>3. Unspecified \in Addr
  BY PoolAssumption DEF Unspecified, Addr
<1>4. Fault => faults' \in 0 .. MaxFaults
  BY ExchangeAssumption DEF Fault, NetTypeOK
<1>5. CASE SendDiscover(m)
  BY <1>1, <1>2, <1>3, <1>5, BeginTypes DEF SendDiscover, ClientTypeOK, NetTypeOK
<1>6. CASE TakeOffer(m)
  <2>1. PICK r \in Replies(m) : up' = up \cup {ToServer("Request", m, r.yiaddr)}
    BY <1>6 DEF TakeOffer
  <2>2. r.yiaddr \in Addr
    BY DEF Replies, NetTypeOK, Answer
  <2>3. ClientTypeOK'
    BY <1>1, <1>6 DEF TakeOffer, ClientTypeOK
  <2> QED BY <1>2, <1>6, <2>1, <2>2, <2>3 DEF TakeOffer, NetTypeOK
<1>7. CASE TakeAck(m)
  <2>1. PICK r \in Replies(m) :
          /\ addr' = [addr EXCEPT ![m] = r.yiaddr]
          /\ granted' = [granted EXCEPT ![m] = r.expiry]
    BY <1>7 DEF TakeAck
  <2>2. r.yiaddr \in Addr /\ r.expiry \in Nat \cup {None}
    BY DEF Replies, NetTypeOK, Answer
  <2>3. until' \in [Mac -> Nat]
    BY <1>1, <1>7 DEF TakeAck, ClientTypeOK
  <2>4. ClientTypeOK'
    BY <1>7, <2>1, <2>2, <2>3 DEF TakeAck, ClientTypeOK, Holding
  <2> QED BY <1>7, <2>4 DEF TakeAck, NetTypeOK
<1>8. CASE TakeNak(m)
  BY <1>8, ForgetTypes DEF TakeNak, Forget, NetTypeOK
<1>9. CASE Renew(m)
  <2>1. addr[m] \in Addr
    BY DEF ClientTypeOK
  <2>2. ClientTypeOK'
    BY <1>1, <1>9 DEF Renew, ClientTypeOK, Holding
  <2> QED BY <1>2, <1>9, <2>1, <2>2, BeginTypes DEF Renew, NetTypeOK
<1>10. CASE GiveUp(m)
  <2>1. addr[m] \in Addr
    BY DEF ClientTypeOK
  <2> QED BY <1>2, <1>4, <1>10, <2>1, BeginTypes, ForgetTypes DEF GiveUp, NetTypeOK
<1>11. CASE Expire(m)
  BY <1>11, ForgetTypes DEF Expire, Forget, NetTypeOK
<1>12. CASE Abandon(m)
  BY <1>4, <1>12, ForgetTypes DEF Abandon, Forget, NetTypeOK
<1> QED
  BY <1>5, <1>6, <1>7, <1>8, <1>9, <1>10, <1>11, <1>12 DEF ClientStep

-----------------------------------------------------------------------------
(* Clients *)

\* Where the server does nothing, the table backs what it backed.
LEMMA ServerIdle ==
  ASSUME UNCHANGED vars, NEW m, NEW ip, NEW expiry
  PROVE  Backed(m, ip, expiry)' <=> Backed(m, ip, expiry)
BY DEF vars, Backed, Lookup

LEMMA ForgetGrant ==
  ASSUME ExchangeInv, NEW m \in Mac, Forget(m), UNCHANGED vars
  PROVE  GrantInv'
<1> USE DEF ExchangeInv, GrantInv
<1>1. /\ down' \subseteq down
      /\ \A r \in down' : r.mac # m /\ r.mac \in Mac
  BY DEF Forget, Replies, NetTypeOK, Answer
<1>2. /\ state'[m] = "init"
      /\ \A n \in Mac : n # m => /\ state'[n] = state[n] /\ addr'[n] = addr[n]
                                 /\ granted'[n] = granted[n] /\ disturbed'[n] = disturbed[n]
  BY DEF Forget, ClientTypeOK
<1>3. NothingForIdle'
  BY <1>1, <1>2 DEF NothingForIdle
<1>4. AcksBacked'
  BY <1>1, <1>2, ServerIdle DEF AcksBacked
<1>5. NoGrantWhileLoading'
  BY <1>1, <1>2 DEF NoGrantWhileLoading, vars, Holding
<1>6. RightfulHolder'
  BY <1>2, ServerIdle DEF RightfulHolder, Holding
<1> QED BY <1>3, <1>4, <1>5, <1>6

\* The client's address and grant stay, and no reply comes in.
LEMMA MoveGrant ==
  ASSUME ExchangeInv, NEW m \in Mac, NEW st, st # "init", st \in Holding => state[m] \in Holding,
         state' = [state EXCEPT ![m] = st], down' \subseteq down,
         UNCHANGED <<vars, addr, granted, disturbed>>
  PROVE  GrantInv'
<1> USE DEF ExchangeInv, GrantInv
<1>1. \A r \in down : r.mac \in Mac
  BY DEF NetTypeOK, Answer
<1>2. \A n \in Mac : state'[n] = IF n = m THEN st ELSE state[n]
  BY DEF ClientTypeOK
<1>3. NothingForIdle'
  BY <1>1, <1>2 DEF NothingForIdle
<1>4. AcksBacked'
  BY ServerIdle DEF AcksBacked
<1>5. NoGrantWhileLoading'
  BY <1>1, <1>2 DEF NoGrantWhileLoading, vars
<1>6. RightfulHolder'
  BY <1>2, ServerIdle DEF RightfulHolder
<1> QED BY <1>3, <1>4, <1>5, <1>6

LEMMA AckGrant ==
  ASSUME ExchangeInv, NEW m \in Mac, TakeAck(m)
  PROVE  GrantInv'
<1> USE DEF ExchangeInv, GrantInv
<1>1. PICK r \in down :
        /\ r.mac = m /\ r.type = "Ack"
        /\ addr' = [addr EXCEPT ![m] = r.yiaddr]
        /\ granted' = [granted EXCEPT ![m] = r.expiry]
  BY DEF TakeAck, Replies
<1>2. /\ UNCHANGED vars /\ UNCHANGED disturbed
      /\ down' \subseteq down
      /\ \A s \in down' : s.mac # m /\ s.mac \in Mac
  BY DEF TakeAck, Replies, NetTypeOK, Answer
<1>3. /\ state'[m] = "bound" /\ addr'[m] = r.yiaddr /\ granted'[m] = r.expiry
      /\ \A n \in Mac : n # m => /\ state'[n] = state[n] /\ addr'[n] = addr[n]
                                 /\ granted'[n] = granted[n]
  BY <1>1 DEF TakeAck, ClientTypeOK
<1>4. NothingForIdle'
  BY <1>2, <1>3 DEF NothingForIdle
<1>5. AcksBacked'
  BY <1>2, ServerIdle DEF AcksBacked
<1>6. NoGrantWhileLoading'
  BY <1>1, <1>2, <1>3 DEF NoGrantWhileLoading, vars, Holding
<1>7. RightfulHolder'
  BY <1>1, <1>2, <1>3, ServerIdle DEF RightfulHolder, AcksBacked
<1> QED BY <1>4, <1>5, <1>6, <1>7

LEMMA ClientGrant ==
  ASSUME ExchangeInv, NEW m \in Mac, ClientStep(m)
  PROVE  GrantInv'
<1>1. CASE SendDiscover(m)
  BY <1>1, MoveGrant DEF SendDiscover, Begin, Holding
<1>2. CASE TakeOffer(m)
  <2>1. down' \subseteq down
    BY <1>2 DEF TakeOffer
  <2> QED BY <1>2, <2>1, MoveGrant DEF TakeOffer, Holding
<1>3. CASE TakeAck(m)
  BY <1>3, AckGrant
<1>4. CASE Renew(m)
  BY <1>4, MoveGrant DEF Renew, Begin, Holding
<1>5. CASE TakeNak(m) \/ GiveUp(m) \/ Expire(m) \/ Abandon(m)
  BY <1>5, ForgetGrant, ClientTypes DEF TakeNak, GiveUp, Expire, Abandon, ClientStep
<1> QED BY <1>1, <1>2, <1>3, <1>4, <1>5 DEF ClientStep

-----------------------------------------------------------------------------
(* Server *)

\* A grant outlives every step that leaves its address alone.
LEMMA BackedKept ==
  ASSUME Inv, NEW m, NEW ip \in Addr, NEW expiry \in Nat \cup {None},
         Backed(m, ip, expiry),
         Lookup(ip) # None /\ Lookup(ip).mac = m => Untouched(ip),
         now \in Nat, now' \in Nat, now <= now'
  PROVE  Backed(m, ip, expiry)'
<1> SUFFICES ASSUME IF expiry = None THEN ip \notin Pool ELSE now' <= expiry
             PROVE  Lookup(ip)' # None /\ Lookup(ip)'.mac = m /\ Lookup(ip)'.expiry = expiry
  BY DEF Backed
<1>1. IF expiry = None THEN ip \notin Pool ELSE now <= expiry
  BY NoneAssumption
<1>2. Lookup(ip) # None /\ Lookup(ip).mac = m /\ Lookup(ip).expiry = expiry
  BY <1>1 DEF Backed
<1>3. Protected(ip)
  BY <1>1, <1>2 DEF Protected
<1> QED BY <1>2, <1>3 DEF Untouched, SameBinding


\* Old grants after a server step that takes nothing from the undisturbed.
LEMMA OldGrants ==
  ASSUME ExchangeInv, UNCHANGED <<state, addr, granted>>,
         now \in Nat, now' \in Nat, now <= now',
         \A m \in Mac : state[m] # "init" /\ ~disturbed'[m] =>
           /\ ~disturbed[m]
           /\ \A ip \in Addr : Lookup(ip) # None /\ Lookup(ip).mac = m => Untouched(ip)
  PROVE  /\ RightfulHolder'
         /\ \A r \in down :
              r.type = "Ack" /\ ~disturbed'[r.mac] => Backed(r.mac, r.yiaddr, r.expiry)'
<1> USE DEF ExchangeInv, GrantInv
<1>1. RightfulHolder'
  <2> SUFFICES ASSUME NEW m \in Mac, state[m] \in Holding, ~disturbed'[m]
               PROVE  Backed(m, addr[m], granted[m])'
    BY DEF RightfulHolder
  <2>1. PICK ip \in Addr, expiry \in Nat \cup {None} : ip = addr[m] /\ expiry = granted[m]
    BY DEF ClientTypeOK
  <2>2. state[m] # "init"
    BY DEF Holding
  <2>3. Backed(m, ip, expiry)
    BY <2>1, <2>2 DEF RightfulHolder
  <2>4. Backed(m, ip, expiry)'
    BY <2>2, <2>3, BackedKept
  <2> QED BY <2>1, <2>4 DEF Backed
<1>2. ASSUME NEW r \in down, r.type = "Ack", ~disturbed'[r.mac]
      PROVE  Backed(r.mac, r.yiaddr, r.expiry)'
  <2>1. r.mac \in Mac /\ r.yiaddr \in Addr /\ r.expiry \in Nat \cup {None}
    BY DEF NetTypeOK, Answer
  <2>2. state[r.mac] # "init"
    BY DEF NothingForIdle
  <2>3. Backed(r.mac, r.yiaddr, r.expiry)
    BY <1>2, <2>1, <2>2 DEF AcksBacked
  <2> QED BY <1>2, <2>1, <2>2, <2>3, BackedKept
<1> QED BY <1>1, <1>2

\* The reply of a handler that takes nothing from anyone and acks only what
\* is the client's.
LEMMA ServeGrant ==
  ASSUME ExchangeInv, Inv', NEW p \in up, Respond(p),
         \A ip \in Addr : Untouched(ip),
         \A ip \in Addr : out'.type = "Ack" /\ out'.yiaddr = ip => Holds(p.mac, ip)',
         phase = "serving", UNCHANGED <<now, phase, client, up, faults>>
  PROVE  ClientTypeOK' /\ NetTypeOK' /\ GrantInv'
<1> USE DEF ExchangeInv, GrantInv
<1>1. p.mac \in Mac
  BY DEF NetTypeOK, Packet
<1>2. ClientTypeOK'
  BY DEF client, ClientTypeOK
<1>3. now \in Nat /\ UNCHANGED <<state, addr, granted, disturbed>>
  BY DEF client, Inv, TypeOK
<1>4. /\ RightfulHolder'
      /\ \A r \in down :
           r.type = "Ack" /\ ~disturbed'[r.mac] => Backed(r.mac, r.yiaddr, r.expiry)'
  BY <1>3, OldGrants
<1>5. NoGrantWhileLoading'
  BY DEF NoGrantWhileLoading
<1>6. CASE UNCHANGED down
  BY <1>2, <1>3, <1>4, <1>5, <1>6 DEF NetTypeOK, NothingForIdle, AcksBacked
<1>7. CASE out'.type \in Awaited(state[p.mac])
  <2>1. CASE UNCHANGED down
    BY <1>6, <2>1
  <2>2. CASE ~UNCHANGED down
    <3>1. PICK ip \in Addr :
            /\ ip = out'.yiaddr
            /\ down' = down \cup {[type |-> out'.type, mac |-> p.mac, yiaddr |-> ip,
                                   expiry |-> ExpiryOf(ip)']}
      BY <2>2 DEF Respond
    <3>2. Lookup(ip)' \in Lease \cup {None}
      BY SlotOfAddress DEF Inv, TypeOK, TableTypeOK, Lookup, HasSlot
    <3>3. PICK expiry \in Nat \cup {None} : expiry = ExpiryOf(ip)'
      BY <3>2 DEF ExpiryOf, Lease
    <3> DEFINE new == [type |-> out'.type, mac |-> p.mac, yiaddr |-> ip, expiry |-> expiry]
    <3>4. state[p.mac] # "init" /\ out'.type \in {"Offer", "Ack", "Nak"}
      BY <1>1, <1>7 DEF Awaited, ClientTypeOK, Holding
    <3>5. new \in Answer
      BY <1>1, <3>4 DEF Answer
    <3>6. out'.type = "Ack" => Backed(p.mac, ip, expiry)'
      BY <3>1, <3>3 DEF Holds, Backed, ExpiryOf
    <3>7. NetTypeOK'
      BY <3>1, <3>3, <3>5 DEF NetTypeOK
    <3>8. NothingForIdle'
      BY <1>3, <3>1, <3>3, <3>4 DEF NothingForIdle
    <3>9. AcksBacked'
      BY <1>4, <3>1, <3>3, <3>6 DEF AcksBacked
    <3> QED BY <1>2, <1>4, <1>5, <3>7, <3>8, <3>9
  <2> QED BY <2>1, <2>2
<1> QED BY <1>6, <1>7 DEF Respond

LEMMA ServerExchange ==
  ASSUME ExchangeInv, Inv',
         NEW p \in up, ServeDiscover(p) \/ ServeRequest(p) \/ ServeRelease(p)
  PROVE  ClientTypeOK' /\ NetTypeOK' /\ GrantInv'
<1>1. p.mac \in Mac /\ p.ip \in Addr
  BY DEF ExchangeInv, NetTypeOK, Packet
<1>2. CASE ServeDiscover(p)
  <2>1. phase = "serving"
    BY <1>2 DEF ServeDiscover, DiscoverExisting, DiscoverFresh, DiscoverExhausted
  <2>2. (p.mac \in Rapid) \in BOOLEAN
    OBVIOUS
  <2> QED
    BY <1>1, <1>2, <2>1, <2>2, DiscoverKeeps, ServeGrant DEF ServeDiscover, ExchangeInv
<1>3. CASE ServeRequest(p)
  <2>1. phase = "serving"
    BY <1>3 DEF ServeRequest, RequestExisting, RequestNak, RequestGrant
  <2> QED
    BY <1>1, <1>3, <2>1, RequestKeeps, ServeGrant DEF ServeRequest, ExchangeInv
<1>4. CASE ServeRelease(p)
  <2>1. /\ phase = "serving" /\ UNCHANGED <<now, phase>>
        /\ disturbed' = [disturbed EXCEPT ![p.mac] = state[p.mac] # "init"]
        /\ UNCHANGED <<state, addr, asked, until, granted, up, down, faults>>
    BY <1>4 DEF ServeRelease, Release, Ignored
  <2>2. now \in Nat
    BY DEF ExchangeInv, Inv, TypeOK
  <2>3. \A m \in Mac : state[m] # "init" /\ ~disturbed'[m] => m # p.mac /\ ~disturbed[m]
    BY <1>1, <2>1 DEF ExchangeInv, ClientTypeOK
  <2>4. ASSUME NEW m \in Mac, m # p.mac, NEW ip \in Addr, Lookup(ip).mac = m
        PROVE  Untouched(ip)
    <3>1. CASE Release(p.mac, ServerIp)
      BY <1>1, <2>4, <3>1, ReleaseKeeps DEF ExchangeInv
    <3>2. CASE Ignored(p.mac, ServerIp)
      BY <3>2, SameTableKeeps DEF Ignored
    <3> QED BY <1>4, <3>1, <3>2 DEF ServeRelease
  <2>5. /\ RightfulHolder'
        /\ \A r \in down :
             r.type = "Ack" /\ ~disturbed'[r.mac] => Backed(r.mac, r.yiaddr, r.expiry)'
    BY <2>1, <2>2, <2>3, <2>4, OldGrants
  <2>6. ClientTypeOK' /\ NetTypeOK'
    BY <1>1, <2>1 DEF ExchangeInv, ClientTypeOK, NetTypeOK
  <2> QED
    BY <2>1, <2>5, <2>6
    DEF ExchangeInv, GrantInv, NothingForIdle, AcksBacked, NoGrantWhileLoading
<1> QED BY <1>2, <1>3, <1>4

\* What the server does when no packet asks it to.
LEMMA ServerAlone ==
  ASSUME ExchangeInv, Inv', ServerStarts \/ ServerRestarts \/ TimePasses
  PROVE  ClientTypeOK' /\ NetTypeOK' /\ GrantInv'
<1> USE DEF ExchangeInv, GrantInv
<1>1. \A r \in down : r.mac \in Mac /\ state[r.mac] # "init"
  BY DEF NetTypeOK, Answer, NothingForIdle
<1>2. CASE ServerStarts /\ LoadLine
  <2>1. phase = "loading" /\ UNCHANGED <<client, up, down, faults>>
    BY <1>2 DEF ServerStarts, LoadLine
  <2>2. UNCHANGED <<state, addr, asked, until, granted, disturbed>>
    BY <2>1 DEF client
  <2> QED
    BY <1>1, <2>1, <2>2 DEF ClientTypeOK, NetTypeOK, NothingForIdle, AcksBacked,
      NoGrantWhileLoading, RightfulHolder
<1>3. CASE (ServerStarts /\ StartServing) \/ TimePasses
  <2>1. /\ UNCHANGED table
        /\ now \in Nat /\ now' \in Nat /\ now <= now'
        /\ phase' = "loading" => phase = "loading"
        /\ UNCHANGED <<client, up, down, faults>>
    BY <1>3 DEF ServerStarts, StartServing, TimePasses, Tick, Inv, TypeOK
  <2>2. UNCHANGED <<state, addr, asked, until, granted, disturbed>>
    BY <2>1 DEF client
  <2>3. \A ip \in Addr : Untouched(ip)
    BY <2>1, SameTableKeeps
  <2>4. /\ RightfulHolder'
        /\ \A r \in down :
             r.type = "Ack" /\ ~disturbed'[r.mac] => Backed(r.mac, r.yiaddr, r.expiry)'
    BY <2>1, <2>2, <2>3, OldGrants
  <2> QED
    BY <2>1, <2>2, <2>4 DEF ClientTypeOK, NetTypeOK, NothingForIdle, AcksBacked,
      NoGrantWhileLoading
<1>4. CASE ServerRestarts
  <2>1. /\ faults' \in 0 .. MaxFaults
        /\ disturbed' = [m \in Mac |-> state[m] # "init"]
        /\ UNCHANGED <<state, addr, asked, until, granted, up, down>>
    BY <1>4, ExchangeAssumption DEF ServerRestarts, Fault, NetTypeOK
  <2>2. /\ \A m \in Mac : ~disturbed'[m] => state[m] = "init"
        /\ \A r \in down : disturbed'[r.mac]
    BY <1>1, <2>1
  <2>3. RightfulHolder' /\ AcksBacked' /\ NoGrantWhileLoading'
    BY <2>1, <2>2 DEF RightfulHolder, AcksBacked, NoGrantWhileLoading, Holding
  <2> QED
    BY <2>1, <2>3 DEF ClientTypeOK, NetTypeOK, NothingForIdle
<1> QED BY <1>2, <1>3, <1>4 DEF ServerStarts

-----------------------------------------------------------------------------
(* The exchange *)

\* To the server the exchange is nothing but packets and time.
LEMMA ServerTakesItsSteps ==
  ASSUME ExchangeInv, [ExchangeNext]_exchangeVars
  PROVE  [Next]_vars
<1>1. CASE UNCHANGED exchangeVars
  BY <1>1 DEF exchangeVars
<1>2. ASSUME NEW m \in Mac, ClientStep(m)
      PROVE  [Next]_vars
  BY <1>2, ClientTypes
<1>3. ASSUME NEW p \in up, ServeDiscover(p) \/ ServeRequest(p) \/ ServeRelease(p)
      PROVE  [Next]_vars
  <2>1. p.mac \in Mac /\ p.ip \in Addr
    BY DEF ExchangeInv, NetTypeOK, Packet
  <2>2. (p.mac \in Rapid) \in BOOLEAN
    OBVIOUS
  <2>3. HandleRequest(p.mac)
    BY <1>3, <2>1, <2>2 DEF ServeDiscover, ServeRequest, ServeRelease, HandleRequest
  <2> QED BY <2>1, <2>3 DEF Next
<1>4. CASE ServerStarts \/ ServerRestarts \/ TimePasses
  BY <1>4 DEF ServerStarts, ServerRestarts, TimePasses, Next
<1> QED BY <1>1, <1>2, <1>3, <1>4 DEF ExchangeNext

LEMMA StepExchange ==
  ASSUME ExchangeInv, [ExchangeNext]_exchangeVars
  PROVE  ExchangeInv'
<1>1. Inv'
  BY ServerTakesItsSteps, StepInv DEF ExchangeInv
<1>2. CASE UNCHANGED exchangeVars
  <2>1. /\ UNCHANGED <<vars, state, addr, asked, until, granted, disturbed, up, down, faults>>
        /\ UNCHANGED phase
    BY <1>2 DEF exchangeVars, client, vars
  <2> QED
    BY <1>1, <2>1, ServerIdle DEF ExchangeInv, ClientTypeOK, NetTypeOK, GrantInv,
      NothingForIdle, AcksBacked, NoGrantWhileLoading, RightfulHolder
<1>3. ASSUME NEW m \in Mac, ClientStep(m)
      PROVE  ExchangeInv'
  BY <1>1, <1>3, ClientTypes, ClientGrant DEF ExchangeInv
<1>4. ASSUME NEW p \in up, ServeDiscover(p) \/ ServeRequest(p) \/ ServeRelease(p)
      PROVE  ExchangeInv'
  BY <1>1, <1>4, ServerExchange DEF ExchangeInv
<1>5. CASE ServerStarts \/ ServerRestarts \/ TimePasses
  BY <1>1, <1>5, ServerAlone DEF ExchangeInv
<1> QED BY <1>2, <1>3, <1>4, <1>5 DEF ExchangeNext

LEMMA ExchangeInvariance == ExchangeSpec => []ExchangeInv
BY InitExchange, StepExchange, PTL DEF ExchangeSpec

\* Every variable of the exchange keeps its type.
THEOREM ExchangeTypes == ExchangeSpec => []ExchangeTypeOK
<1>1. ExchangeInv => ExchangeTypeOK
  BY DEF ExchangeInv, Inv, ClientTypeOK, NetTypeOK, ExchangeTypeOK
<1> QED BY <1>1, ExchangeInvariance, PTL

\* A client within the lifetime it was granted is the one the table names,
\* for any number of clients, late packets and faults.
THEOREM HoldersAreRightful == ExchangeSpec => []RightfulHolder
BY ExchangeInvariance, PTL DEF ExchangeInv, GrantInv

\* Seen from the server every exchange is a behaviour of MyServer: what is
\* proved of that specification holds among real clients as well.
THEOREM ExchangeIsService == ExchangeSpec => Spec
<1>1. ExchangeInit => Init
  BY DEF ExchangeInit
<1> QED
  BY <1>1, ServerTakesItsSteps, ExchangeInvariance, PTL DEF ExchangeSpec, Spec
=============================================================================
