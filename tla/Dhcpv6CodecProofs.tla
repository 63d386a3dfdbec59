-------------------------- MODULE Dhcpv6CodecProofs --------------------------
(* Theorems about a DHCPv6 message on the wire and back (Dhcpv6Codec). *)
EXTENDS Dhcpv6Codec, SequenceFacts

-----------------------------------------------------------------------------
(* Numbers *)

LEMMA Split ==
  ASSUME NEW n \in Nat
  PROVE  \E q \in Nat, r \in 0 .. 255 : n = 256 * q + r /\ n \div 256 = q /\ n % 256 = r
<1>1. n \div 256 \in Nat /\ n % 256 \in 0 .. 255 /\ n = 256 * (n \div 256) + (n % 256)
  OBVIOUS
<1> QED BY <1>1

\* A 16-bit number is written high byte first, and read back as it was.
LEMMA U16Bytes ==
  ASSUME NEW n \in Nat
  PROVE  /\ U16(n) \in Seq(Byte) /\ Len(U16(n)) = 2
         /\ n \in 0 .. U16Max => U16(n)[1] * 256 + U16(n)[2] = n
<1>1. PICK q \in Nat, r \in 0 .. 255 : n = 256 * q + r /\ n \div 256 = q /\ n % 256 = r
  BY Split
<1>2. PICK p \in Nat, s \in 0 .. 255 : q = 256 * p + s /\ q % 256 = s
  BY Split
<1>3. U16(n) = <<s, r>>
  BY <1>1, <1>2 DEF U16
<1>4. n \in 0 .. U16Max => s * 256 + r = n
  <2>1. n = 256 * (256 * p + s) + r
    BY <1>1, <1>2
  <2>2. ASSUME n \in 0 .. U16Max PROVE s * 256 + r = n
    <3>0. U16Max = 65535
      BY DEF U16Max
    <3>1. n <= U16Max
      BY <2>2
    <3>2. p = 0
      BY <2>1, <3>0, <3>1
    <3> QED BY <2>1, <3>2
  <2> QED BY <2>2
<1> QED BY <1>3, <1>4 DEF Byte

LEMMA TransactionIdBytes ==
  ASSUME NEW tid \in Nat
  PROVE  /\ TransactionBytes(tid) \in Seq(Byte) /\ Len(TransactionBytes(tid)) = 3
         /\ (TransactionBytes(tid)[1] * 256 + TransactionBytes(tid)[2]) * 256
              + TransactionBytes(tid)[3] = tid % (256 * 256 * 256)
<1>1. PICK q \in Nat, d \in 0 .. 255 : tid = 256 * q + d /\ tid \div 256 = q /\ tid % 256 = d
  BY Split
<1>2. PICK p \in Nat, c \in 0 .. 255 : q = 256 * p + c /\ q \div 256 = p /\ q % 256 = c
  BY Split
<1>3. PICK e \in Nat, f \in 0 .. 255 : p = 256 * e + f /\ p % 256 = f
  BY Split
<1>4. TransactionBytes(tid) = Append(<<f, c>>, d)
  BY <1>1, <1>2, <1>3 DEF TransactionBytes, U16
<1>5. Append(<<f, c>>, d) = <<f, c, d>>
  <2>1. PICK t : t = Append(<<f, c>>, d)
    OBVIOUS
  <2>2. t \in Seq(Nat) /\ Len(t) = 3 /\ t[1] = f /\ t[2] = c /\ t[3] = d
    <3>1. <<f, c>> \in Seq(Nat) /\ d \in Nat /\ Len(<<f, c>>) = 2
      OBVIOUS
    <3> QED BY <2>1, <3>1, AppendProperties
  <2>3. t = <<f, c, d>>
    BY <2>2
  <2> QED BY <2>1, <2>3
<1>6. (f * 256 + c) * 256 + d = tid % (256 * 256 * 256)
  <2>1. tid = 256 * (256 * (256 * e + f) + c) + d
    BY <1>1, <1>2, <1>3
  <2> QED BY <2>1
<1> QED BY <1>4, <1>5, <1>6 DEF Byte

LEMMA LowBits ==
  ASSUME NEW n \in Nat, NEW m \in Nat, n <= m
  PROVE  n % (m + 1) = n
  OBVIOUS

-----------------------------------------------------------------------------
(* Options: their payloads *)

LEMMA OptionKinds ==
  ASSUME NEW o, IsOption(o)
  PROVE  \/ o.kind \in {"ClientId", "ServerId"} /\ o.data \in Seq(Byte)
         \/ o.kind = "Unrecognized" /\ o.code \in 0 .. U16Max /\ o.data \in Seq(Byte)
         \/ /\ o.kind = "StatusCode" /\ o.status \in 0 .. U16Max
            /\ o.message \in Seq(Byte) /\ o.message \in Text
         \/ o.kind = "DnsServers" /\ o.addrs \in Seq(Bytes(16))
         \/ /\ o.kind = "IaNa" /\ o.fixed \in Bytes(12)
            /\ o.addrs \in Seq([addr : Bytes(16), lifetimes : Bytes(8)])
  BY DEF IsOption

LEMMA ServerList ==
  ASSUME NEW addrs \in Seq(Bytes(16))
  PROVE  /\ addrs \in Lists(Byte)
         /\ \A i \in 1 .. Len(addrs) : Len(addrs[i]) = 16
         /\ FlattenSeq(addrs) \in Seq(Byte)
         /\ Len(FlattenSeq(addrs)) = 16 * Len(addrs)
         /\ \A n \in 0 .. Len(addrs) : Offset(addrs, n) = 16 * n
<1>1. \A i \in 1 .. Len(addrs) : addrs[i] \in Seq(Byte) /\ Len(addrs[i]) = 16
  BY DEF Bytes
<1>2. addrs \in Lists(Byte)
  BY <1>1 DEF Lists
<1>3. 16 \in Nat
  OBVIOUS
<1>4. FlattenSeq(addrs) \in Seq(Byte)
  BY <1>2, FlattenType
<1>5. /\ \A n \in 0 .. Len(addrs) : Offset(addrs, n) = 16 * n
      /\ Len(FlattenSeq(addrs)) = 16 * Len(addrs)
  BY <1>1, <1>2, <1>3, FlattenUniform
<1> QED BY <1>1, <1>2, <1>4, <1>5

\* w is two numbers of two bytes, an address and its lifetimes.
IsAddressOption(w, u, v, x, y) ==
  /\ w \in Seq(Byte) /\ Len(w) = 28
  /\ w[1] = u[1] /\ w[2] = u[2] /\ w[3] = v[1] /\ w[4] = v[2]
  /\ \A i \in 1 .. 16 : w[4 + i] = x[i]
  /\ \A i \in 1 .. 8 : w[20 + i] = y[i]

LEMMA AddressOptionParts ==
  ASSUME NEW u \in Seq(Byte), NEW v \in Seq(Byte), NEW x \in Seq(Byte), NEW y \in Seq(Byte),
         Len(u) = 2, Len(v) = 2, Len(x) = 16, Len(y) = 8,
         NEW w, w = u \o v \o x \o y
  PROVE  IsAddressOption(w, u, v, x, y)
<1>0. 2 \in Nat /\ 4 \in Nat /\ 16 \in Nat /\ 20 \in Nat /\ 8 \in Nat
      /\ 2 + 2 = 4 /\ 4 + 16 = 20 /\ 20 + 8 = 28
  OBVIOUS
<1>1. PICK s : s = u \o v
  OBVIOUS
<1>2. /\ s \in Seq(Byte) /\ Len(s) = 2 + 2
      /\ \A i \in 1 .. 2 : s[i] = u[i]
      /\ \A i \in 1 .. 2 : s[2 + i] = v[i]
  <2>1. Joins(Byte, s, u, 2, v, 2)
    BY <1>0, <1>1, Joined, Zenon
  <2> QED BY <2>1, Zenon DEF Joins
<1>3. PICK t : t = s \o x
  OBVIOUS
<1>4. s \in Seq(Byte) /\ Len(s) = 4
  BY <1>2, <1>0
<1>5. /\ t \in Seq(Byte) /\ Len(t) = 4 + 16
      /\ \A i \in 1 .. 4 : t[i] = s[i]
      /\ \A i \in 1 .. 16 : t[4 + i] = x[i]
  <2>1. Joins(Byte, t, s, 4, x, 16)
    BY <1>0, <1>3, <1>4, Joined, Zenon
  <2> QED BY <2>1, Zenon DEF Joins
<1>6. w = t \o y
  BY <1>1, <1>3
<1>7. t \in Seq(Byte) /\ Len(t) = 20
  BY <1>5, <1>0
<1>8. /\ w \in Seq(Byte) /\ Len(w) = 20 + 8
      /\ \A i \in 1 .. 20 : w[i] = t[i]
      /\ \A i \in 1 .. 8 : w[20 + i] = y[i]
  <2>1. Joins(Byte, w, t, 20, y, 8)
    BY <1>0, <1>6, <1>7, Joined, Zenon
  <2> QED BY <2>1, Zenon DEF Joins
<1>9. w[1] = u[1] /\ w[2] = u[2] /\ w[3] = v[1] /\ w[4] = v[2]
  <2>0. /\ 1 \in 1 .. 2 /\ 2 \in 1 .. 2 /\ 1 \in 1 .. 4 /\ 2 \in 1 .. 4
        /\ 3 \in 1 .. 4 /\ 4 \in 1 .. 4
        /\ 1 \in 1 .. 20 /\ 2 \in 1 .. 20 /\ 3 \in 1 .. 20 /\ 4 \in 1 .. 20
    OBVIOUS
  <2>1. w[1] = t[1] /\ w[2] = t[2] /\ w[3] = t[3] /\ w[4] = t[4]
    BY <1>8, <2>0, Zenon
  <2>2. t[1] = s[1] /\ t[2] = s[2] /\ t[3] = s[3] /\ t[4] = s[4]
    BY <1>5, <2>0, Zenon
  <2>3. s[1] = u[1] /\ s[2] = u[2]
    BY <1>2, <2>0, Zenon
  <2>4. s[2 + 1] = v[1] /\ s[2 + 2] = v[2]
    BY <1>2, <2>0, Zenon
  <2>5. s[3] = v[1] /\ s[4] = v[2]
    <3>1. 2 + 1 = 3 /\ 2 + 2 = 4
      OBVIOUS
    <3> QED BY <2>4, <3>1, Zenon
  <2> QED BY <2>1, <2>2, <2>3, <2>5, Zenon
<1>10. ASSUME NEW i \in 1 .. 16 PROVE w[4 + i] = x[i]
  <2>1. 4 + i \in 1 .. 20
    OBVIOUS
  <2> QED BY <1>5, <1>8, <2>1, Zenon
<1>11. Len(w) = 28
  BY <1>8, <1>0
<1> QED BY <1>8, <1>9, <1>10, <1>11, Zenon DEF IsAddressOption

\* The bytes of one IAADDR sub-option.
LEMMA AddressOptionBytes ==
  ASSUME NEW a \in [addr : Bytes(16), lifetimes : Bytes(8)]
  PROVE  /\ AddressOption(a) \in Seq(Byte) /\ Len(AddressOption(a)) = 28
         /\ U16At(AddressOption(a), 0) = OPT_IAADDR
         /\ U16At(AddressOption(a), 2) = 24
         /\ \A i \in 1 .. 16 : AddressOption(a)[4 + i] = a.addr[i]
         /\ \A i \in 1 .. 8 : AddressOption(a)[20 + i] = a.lifetimes[i]
<1>1. PICK x \in Seq(Byte), y \in Seq(Byte) :
        x = a.addr /\ y = a.lifetimes /\ Len(x) = 16 /\ Len(y) = 8
  BY DEF Bytes
<1>2. PICK u \in Seq(Byte), v \in Seq(Byte) :
        /\ u = U16(OPT_IAADDR) /\ v = U16(24) /\ Len(u) = 2 /\ Len(v) = 2
        /\ u[1] * 256 + u[2] = OPT_IAADDR /\ v[1] * 256 + v[2] = 24
  <2>1. OPT_IAADDR \in Nat /\ OPT_IAADDR \in 0 .. U16Max /\ 24 \in Nat /\ 24 \in 0 .. U16Max
    BY DEF OPT_IAADDR, U16Max
  <2> QED BY <2>1, U16Bytes
<1>3. PICK w : w = u \o v \o x \o y
  OBVIOUS
<1>4. /\ w \in Seq(Byte) /\ Len(w) = 28
      /\ w[1] = u[1] /\ w[2] = u[2] /\ w[3] = v[1] /\ w[4] = v[2]
      /\ \A i \in 1 .. 16 : w[4 + i] = x[i]
      /\ \A i \in 1 .. 8 : w[20 + i] = y[i]
  <2>1. IsAddressOption(w, u, v, x, y)
    BY <1>1, <1>2, <1>3, AddressOptionParts, Zenon
  <2> QED BY <2>1, Zenon DEF IsAddressOption
<1>5. AddressOption(a) = w
  BY <1>1, <1>2, <1>3, Zenon DEF AddressOption
<1>6. U16At(w, 0) = OPT_IAADDR /\ U16At(w, 2) = 24
  <2>1. 0 + 1 = 1 /\ 0 + 2 = 2 /\ 2 + 1 = 3 /\ 2 + 2 = 4
    OBVIOUS
  <2>2. U16At(w, 0) = w[1] * 256 + w[2] /\ U16At(w, 2) = w[3] * 256 + w[4]
    BY <2>1, Zenon DEF U16At
  <2>3. w[1] * 256 + w[2] = u[1] * 256 + u[2] /\ w[3] * 256 + w[4] = v[1] * 256 + v[2]
    BY <1>4, Zenon
  <2>4. U16At(w, 0) = u[1] * 256 + u[2] /\ U16At(w, 2) = v[1] * 256 + v[2]
    BY <2>2, <2>3, Zenon
  <2> QED BY <1>2, <2>4
<1> QED BY <1>1, <1>4, <1>5, <1>6, Zenon

AddressOptions(addrs) == [i \in DOMAIN addrs |-> AddressOption(addrs[i])]

LEMMA AddressList ==
  ASSUME NEW addrs \in Seq([addr : Bytes(16), lifetimes : Bytes(8)])
  PROVE  /\ AddressOptions(addrs) \in Lists(Byte)
         /\ Len(AddressOptions(addrs)) = Len(addrs)
         /\ \A i \in 1 .. Len(addrs) : AddressOptions(addrs)[i] = AddressOption(addrs[i])
         /\ FlattenSeq(AddressOptions(addrs)) \in Seq(Byte)
         /\ Len(FlattenSeq(AddressOptions(addrs))) = 28 * Len(addrs)
         /\ \A n \in 0 .. Len(addrs) : Offset(AddressOptions(addrs), n) = 28 * n
<1>1. PICK W : W = AddressOptions(addrs)
  OBVIOUS
<1>2. W = [i \in 1 .. Len(addrs) |-> AddressOption(addrs[i])]
  BY <1>1 DEF AddressOptions
<1>3. \A i \in 1 .. Len(addrs) :
        AddressOption(addrs[i]) \in Seq(Byte) /\ Len(AddressOption(addrs[i])) = 28
  <2> DEFINE R == [addr : Bytes(16), lifetimes : Bytes(8)]
  <2>1. \A i \in 1 .. Len(addrs) : addrs[i] \in R
    <3> HIDE DEF R
    <3>1. addrs \in Seq(R)
      BY DEF R
    <3> QED BY <3>1
  <2> QED BY <2>1, AddressOptionBytes
<1>4. W \in Lists(Byte) /\ Len(W) = Len(addrs)
  BY <1>2, <1>3 DEF Lists
<1>5. \A i \in 1 .. Len(W) : Len(W[i]) = 28
  BY <1>2, <1>3, <1>4
<1>6. FlattenSeq(W) \in Seq(Byte)
  BY <1>4, FlattenType
<1>7. /\ \A n \in 0 .. Len(W) : Offset(W, n) = 28 * n
      /\ Len(FlattenSeq(W)) = 28 * Len(W)
  <2>1. 28 \in Nat
    OBVIOUS
  <2> QED BY <1>4, <1>5, <2>1, FlattenUniform
<1> QED BY <1>1, <1>2, <1>4, <1>6, <1>7

\* wire_len says how long the payload is, for every option.
LEMMA PayloadBytes ==
  ASSUME NEW o, IsOption(o)
  PROVE  /\ Payload(o) \in Seq(Byte)
         /\ Len(Payload(o)) = PayloadLen(o)
         /\ PayloadLen(o) \in Nat
<1>1. CASE o.kind \in {"ClientId", "ServerId", "Unrecognized"} /\ o.data \in Seq(Byte)
  <2>1. Payload(o) = o.data /\ PayloadLen(o) = Len(o.data)
    BY <1>1 DEF Payload, PayloadLen
  <2> QED BY <1>1, <2>1
<1>2. CASE o.kind = "StatusCode" /\ o.status \in 0 .. U16Max /\ o.message \in Seq(Byte)
  <2>1. Payload(o) = U16(o.status) \o o.message /\ PayloadLen(o) = 2 + Len(o.message)
    BY <1>2 DEF Payload, PayloadLen
  <2>2. U16(o.status) \in Seq(Byte) /\ Len(U16(o.status)) = 2
    BY <1>2, U16Bytes
  <2>3. PICK u \in Seq(Byte), v \in Seq(Byte) : u = U16(o.status) /\ v = o.message /\ Len(u) = 2
    BY <1>2, <2>2
  <2>4. PICK n \in Nat : n = Len(v)
    OBVIOUS
  <2>5. u \o v \in Seq(Byte) /\ Len(u \o v) = 2 + n
    BY <2>3, <2>4, JoinLen
  <2> QED BY <2>1, <2>3, <2>4, <2>5
<1>3. CASE o.kind = "DnsServers" /\ o.addrs \in Seq(Bytes(16))
  <2>1. Payload(o) = FlattenSeq(o.addrs) /\ PayloadLen(o) = Len(o.addrs) * 16
    BY <1>3 DEF Payload, PayloadLen
  <2>2. Len(o.addrs) \in Nat
    BY <1>3
  <2> QED BY <1>3, <2>1, <2>2, ServerList
<1>4. CASE /\ o.kind = "IaNa" /\ o.fixed \in Bytes(12)
           /\ o.addrs \in Seq([addr : Bytes(16), lifetimes : Bytes(8)])
  <2>1. /\ Payload(o) = o.fixed \o FlattenSeq(AddressOptions(o.addrs))
        /\ PayloadLen(o) = 12 + Len(o.addrs) * 28
    BY <1>4 DEF Payload, PayloadLen, AddressOptions
  <2>2. PICK f \in Seq(Byte) : f = o.fixed /\ Len(f) = 12
    BY <1>4 DEF Bytes
  <2>3. PICK g \in Seq(Byte) : g = FlattenSeq(AddressOptions(o.addrs)) /\ Len(g) = 28 * Len(o.addrs)
    BY <1>4, AddressList
  <2>4. f \o g \in Seq(Byte) /\ Len(f \o g) = Len(f) + Len(g)
    <3>1. f \o g \in Seq(Byte)
      BY ConcatIndex
    <3> QED BY <3>1, ConcatIndex
  <2>5. Len(o.addrs) \in Nat
    BY <1>4
  <2> QED BY <2>1, <2>2, <2>3, <2>4, <2>5
<1> QED BY <1>1, <1>2, <1>3, <1>4, OptionKinds

-----------------------------------------------------------------------------
(* Options and messages: their bytes *)

LEMMA LargestPayload == MaxPayload \in Nat /\ U16Max \in Nat /\ MaxPayload <= U16Max
<1>1. MaxPayload \in 0 .. U16Max
  BY SendableAssumption, Zenon
<1>2. U16Max \in Nat
  BY DEF U16Max
<1> QED BY <1>1, <1>2

LEMMA CodeBytes ==
  ASSUME NEW o, IsOption(o)
  PROVE  CodeOf(o) \in 0 .. U16Max /\ CodeOf(o) \in Nat
<1>1. CodeOf(o) \in {OPT_CLIENTID, OPT_SERVERID, OPT_IA_NA, OPT_STATUS_CODE, OPT_DNS_SERVERS}
        \/ CodeOf(o) \in 0 .. U16Max
  BY OptionKinds DEF CodeOf
<1>2. {OPT_CLIENTID, OPT_SERVERID, OPT_IA_NA, OPT_STATUS_CODE, OPT_DNS_SERVERS} \subseteq 0 .. U16Max
  BY DEF OPT_CLIENTID, OPT_SERVERID, OPT_IA_NA, OPT_STATUS_CODE, OPT_DNS_SERVERS, U16Max
<1>3. 0 .. U16Max \subseteq Nat
  OBVIOUS
<1> QED BY <1>1, <1>2, <1>3

\* w is a code, a length and d.
IsEncoding(w, u, v, d) ==
  /\ w \in Seq(Byte) /\ Len(w) = 4 + Len(d)
  /\ w[1] = u[1] /\ w[2] = u[2] /\ w[3] = v[1] /\ w[4] = v[2]
  /\ \A i \in 1 .. Len(d) : w[4 + i] = d[i]

LEMMA EncodingParts ==
  ASSUME NEW u \in Seq(Byte), NEW v \in Seq(Byte), NEW d \in Seq(Byte),
         Len(u) = 2, Len(v) = 2, NEW w, w = u \o v \o d
  PROVE  IsEncoding(w, u, v, d)
<1>0. 2 \in Nat /\ 4 \in Nat /\ 2 + 2 = 4
  OBVIOUS
<1>1. PICK l \in Nat : l = Len(d)
  OBVIOUS
<1>2. PICK s : s = u \o v
  OBVIOUS
<1>3. /\ s \in Seq(Byte) /\ Len(s) = 2 + 2
      /\ \A i \in 1 .. 2 : s[i] = u[i]
      /\ \A i \in 1 .. 2 : s[2 + i] = v[i]
  <2>1. Joins(Byte, s, u, 2, v, 2)
    BY <1>0, <1>2, Joined, Zenon
  <2> QED BY <2>1, Zenon DEF Joins
<1>4. s \in Seq(Byte) /\ Len(s) = 4
  BY <1>0, <1>3
<1>5. w = s \o d
  BY <1>2
<1>6. /\ w \in Seq(Byte) /\ Len(w) = 4 + l
      /\ \A i \in 1 .. 4 : w[i] = s[i]
      /\ \A i \in 1 .. l : w[4 + i] = d[i]
  <2>1. Joins(Byte, w, s, 4, d, l)
    BY <1>0, <1>1, <1>4, <1>5, Joined, Zenon
  <2> QED BY <2>1, Zenon DEF Joins
<1>7. w[1] = u[1] /\ w[2] = u[2] /\ w[3] = v[1] /\ w[4] = v[2]
  <2>0. /\ 1 \in 1 .. 2 /\ 2 \in 1 .. 2
        /\ 1 \in 1 .. 4 /\ 2 \in 1 .. 4 /\ 3 \in 1 .. 4 /\ 4 \in 1 .. 4
        /\ 2 + 1 = 3 /\ 2 + 2 = 4
    OBVIOUS
  <2>1. w[1] = s[1] /\ w[2] = s[2] /\ w[3] = s[3] /\ w[4] = s[4]
    BY <1>6, <2>0, Zenon
  <2>2. s[1] = u[1] /\ s[2] = u[2]
    BY <1>3, <2>0, Zenon
  <2>3. s[2 + 1] = v[1] /\ s[2 + 2] = v[2]
    BY <1>3, <2>0, Zenon
  <2>4. s[3] = v[1] /\ s[4] = v[2]
    BY <2>0, <2>3, Zenon
  <2> QED BY <2>1, <2>2, <2>4, Zenon
<1> QED BY <1>1, <1>6, <1>7, Zenon DEF IsEncoding

\* How an option stands on the wire.
LEMMA EncodedBytes ==
  ASSUME NEW o, IsOption(o)
  PROVE  /\ Encoded(o) \in Seq(Byte) /\ Len(Encoded(o)) = 4 + Len(Payload(o))
         /\ ~TooLarge(o) =>
              /\ U16At(Encoded(o), 0) = CodeOf(o)
              /\ LengthAt(Encoded(o), 0) = Len(Payload(o))
              /\ \A i \in 1 .. Len(Payload(o)) : Encoded(o)[4 + i] = Payload(o)[i]
<1>1. PICK d \in Seq(Byte), l \in Nat : d = Payload(o) /\ l = Len(d) /\ l = PayloadLen(o)
  BY PayloadBytes
<1>2. PICK c \in Nat : c = CodeOf(o) /\ c \in 0 .. U16Max
  BY CodeBytes
<1>3. PICK u \in Seq(Byte) : u = U16(c) /\ Len(u) = 2 /\ u[1] * 256 + u[2] = c
  BY <1>2, U16Bytes
<1>4. PICK n \in Nat : n = l % (MaxPayload + 1)
  <2>1. MaxPayload \in Nat
    BY LargestPayload
  <2> QED BY <2>1
<1>5. PICK v \in Seq(Byte) : v = U16(n) /\ Len(v) = 2 /\ (n \in 0 .. U16Max => v[1] * 256 + v[2] = n)
  BY U16Bytes
<1>6. PICK w : w = u \o v \o d
  OBVIOUS
<1>7. Encoded(o) = w
  BY <1>1, <1>2, <1>3, <1>4, <1>5, <1>6, Zenon DEF Encoded
<1>8. /\ w \in Seq(Byte) /\ Len(w) = 4 + Len(d)
      /\ w[1] = u[1] /\ w[2] = u[2] /\ w[3] = v[1] /\ w[4] = v[2]
      /\ \A i \in 1 .. Len(d) : w[4 + i] = d[i]
  <2>1. IsEncoding(w, u, v, d)
    BY <1>3, <1>5, <1>6, EncodingParts, Zenon
  <2> QED BY <2>1, Zenon DEF IsEncoding
<1>9. ASSUME ~TooLarge(o) PROVE n = l /\ n \in 0 .. U16Max
  <2>1. MaxPayload \in Nat /\ MaxPayload <= U16Max /\ U16Max \in Nat
    BY LargestPayload
  <2>2. l <= MaxPayload
    BY <1>1, <1>9, <2>1 DEF TooLarge
  <2>3. l % (MaxPayload + 1) = l
    BY <2>1, <2>2, LowBits
  <2> QED BY <1>4, <2>1, <2>2, <2>3
<1>10. U16At(w, 0) = c
  <2>1. w[0 + 1] = w[1] /\ w[0 + 2] = w[2]
    OBVIOUS
  <2> QED BY <1>3, <1>8, <2>1, Zenon DEF U16At
<1>11. ASSUME ~TooLarge(o) PROVE LengthAt(w, 0) = l
  <2>1. w[0 + 2 + 1] = w[3] /\ w[0 + 2 + 2] = w[4]
    OBVIOUS
  <2>2. v[1] * 256 + v[2] = l
    BY <1>5, <1>9, <1>11
  <2> QED BY <1>8, <2>1, <2>2, Zenon DEF LengthAt, U16At
<1> QED BY <1>1, <1>2, <1>7, <1>8, <1>10, <1>11, Zenon

Encodings(m) == [i \in DOMAIN m.options |-> Encoded(m.options[i].written)]

\* What Written needs to know of a message.
IsMessage(m) ==
  /\ m.msg_type \in Byte /\ m.transaction_id \in Nat
  /\ Len(m.options) \in Nat /\ DOMAIN m.options = 1 .. Len(m.options)
  /\ \A i \in DOMAIN m.options : IsOption(m.options[i].written)

LEMMA SendableMessage ==
  ASSUME NEW m \in Sendable
  PROVE  IsMessage(m) /\ DOMAIN m = {"msg_type", "transaction_id", "options"}
  BY SendableAssumption DEF IsMessage

LEMMA EncodingsList ==
  ASSUME NEW m, IsMessage(m)
  PROVE  /\ Encodings(m) \in Lists(Byte)
         /\ Len(Encodings(m)) = Len(m.options)
         /\ \A i \in 1 .. Len(m.options) : Encodings(m)[i] = Encoded(m.options[i].written)
<1>1. PICK N \in Nat : N = Len(m.options) /\ DOMAIN m.options = 1 .. N
  BY DEF IsMessage
<1>2. Encodings(m) = [i \in 1 .. N |-> Encoded(m.options[i].written)]
  BY <1>1 DEF Encodings
<1>3. \A i \in 1 .. N : Encoded(m.options[i].written) \in Seq(Byte)
  BY <1>1, EncodedBytes DEF IsMessage
<1>4. Encodings(m) \in Seq(Seq(Byte)) /\ Len(Encodings(m)) = N
  BY <1>2, <1>3
<1> QED BY <1>1, <1>2, <1>4 DEF Lists

\* Four bytes, and then the options.
IsWritten(w, m) ==
  /\ w \in Seq(Byte) /\ Len(w) = 4 + Len(FlattenSeq(Encodings(m)))
  /\ w[1] = m.msg_type
  /\ (w[2] * 256 + w[3]) * 256 + w[4] = m.transaction_id % (256 * 256 * 256)
  /\ \A i \in 1 .. Len(FlattenSeq(Encodings(m))) : w[4 + i] = FlattenSeq(Encodings(m))[i]

LEMMA WrittenBytes ==
  ASSUME NEW m, IsMessage(m)
  PROVE  IsWritten(Written(m), m)
<1>0. 1 \in Nat /\ 3 \in Nat /\ 4 \in Nat /\ 1 + 3 = 4
  OBVIOUS
<1>1. PICK F \in Seq(Byte), l \in Nat : F = FlattenSeq(Encodings(m)) /\ Len(F) = l
  BY EncodingsList, FlattenType
<1>2. PICK h \in Seq(Byte) : h = <<m.msg_type>> /\ Len(h) = 1 /\ h[1] = m.msg_type
  <2>1. PICK b \in Byte : b = m.msg_type
    BY Zenon DEF IsMessage
  <2>2. PICK h : h = <<b>>
    OBVIOUS
  <2>3. h \in Seq(Byte) /\ Len(h) = 1 /\ h[1] = b
    BY <2>2
  <2> QED BY <2>1, <2>2, <2>3, Zenon
<1>3. PICK t \in Seq(Byte) :
        /\ t = TransactionBytes(m.transaction_id) /\ Len(t) = 3
        /\ (t[1] * 256 + t[2]) * 256 + t[3] = m.transaction_id % (256 * 256 * 256)
  <2>1. PICK tid \in Nat : tid = m.transaction_id
    BY Zenon DEF IsMessage
  <2>2. /\ TransactionBytes(tid) \in Seq(Byte) /\ Len(TransactionBytes(tid)) = 3
        /\ (TransactionBytes(tid)[1] * 256 + TransactionBytes(tid)[2]) * 256
             + TransactionBytes(tid)[3] = tid % (256 * 256 * 256)
    BY TransactionIdBytes, Zenon
  <2> QED BY <2>1, <2>2
<1>4. PICK s : s = h \o t
  OBVIOUS
<1>5. /\ s \in Seq(Byte) /\ Len(s) = 1 + 3
      /\ \A i \in 1 .. 1 : s[i] = h[i]
      /\ \A i \in 1 .. 3 : s[1 + i] = t[i]
  <2>1. Joins(Byte, s, h, 1, t, 3)
    BY <1>0, <1>2, <1>3, <1>4, Joined, Zenon
  <2> QED BY <2>1, Zenon DEF Joins
<1>6. s \in Seq(Byte) /\ Len(s) = 4
  BY <1>0, <1>5
<1>7. PICK w : w = s \o F
  OBVIOUS
<1>8. /\ w \in Seq(Byte) /\ Len(w) = 4 + l
      /\ \A i \in 1 .. 4 : w[i] = s[i]
      /\ \A i \in 1 .. l : w[4 + i] = F[i]
  <2>1. Joins(Byte, w, s, 4, F, l)
    BY <1>0, <1>1, <1>6, <1>7, Joined, Zenon
  <2> QED BY <2>1, Zenon DEF Joins
<1>9. w[1] = h[1] /\ w[2] = t[1] /\ w[3] = t[2] /\ w[4] = t[3]
  <2>0. /\ 1 \in 1 .. 1 /\ 1 \in 1 .. 3 /\ 2 \in 1 .. 3 /\ 3 \in 1 .. 3
        /\ 1 \in 1 .. 4 /\ 2 \in 1 .. 4 /\ 3 \in 1 .. 4 /\ 4 \in 1 .. 4
        /\ 1 + 1 = 2 /\ 1 + 2 = 3 /\ 1 + 3 = 4
    OBVIOUS
  <2>1. w[1] = s[1] /\ w[2] = s[2] /\ w[3] = s[3] /\ w[4] = s[4]
    BY <1>8, <2>0, Zenon
  <2>2. s[1] = h[1] /\ s[1 + 1] = t[1] /\ s[1 + 2] = t[2] /\ s[1 + 3] = t[3]
    BY <1>5, <2>0, Zenon
  <2> QED BY <2>0, <2>1, <2>2, Zenon
<1>10. Written(m) = w
  BY <1>1, <1>2, <1>3, <1>4, <1>7, Zenon DEF Written, Encodings
<1>11. (w[2] * 256 + w[3]) * 256 + w[4] = m.transaction_id % (256 * 256 * 256)
  <2>1. (w[2] * 256 + w[3]) * 256 + w[4] = (t[1] * 256 + t[2]) * 256 + t[3]
    BY <1>9, Zenon
  <2> QED BY <1>3, <2>1, Zenon
<1>12. w[1] = m.msg_type
  BY <1>2, <1>9, Zenon
<1>13. IsWritten(w, m)
  BY <1>1, <1>8, <1>11, <1>12, Zenon DEF IsWritten
<1> QED BY <1>10, <1>13, Zenon

-----------------------------------------------------------------------------
(* Where the options of the message stand *)

Meant == message.options
Option(n) == message.options[n].written

LEMMA MessageOptions ==
  ASSUME message \in Sendable
  PROVE  /\ IsMessage(message)
         /\ Len(Meant) \in Nat /\ DOMAIN Meant = 1 .. Len(Meant)
         /\ \A n \in 1 .. Len(Meant) : IsOption(Option(n))
<1>1. IsMessage(message)
  BY SendableMessage
<1> QED BY <1>1 DEF IsMessage, Meant, Option

LEMMA FirstOnes ==
  ASSUME NEW s, NEW n \in Nat
  PROVE  /\ Len(SubSeq(s, 1, n)) = n /\ DOMAIN SubSeq(s, 1, n) = 1 .. n
         /\ \A i \in 1 .. n : SubSeq(s, 1, n)[i] = s[i]
<1>1. PICK S : S = {s[i] : i \in 1 .. n}
  OBVIOUS
<1>2. \A i \in 1 .. n : s[i] \in S
  BY <1>1
<1>3. PICK v : v = SubSeq(s, 1, n)
  OBVIOUS
<1>4. /\ v \in Seq(S)
      /\ Len(v) = IF 1 <= n THEN n - 1 + 1 ELSE 0
      /\ \A i \in 1 .. n - 1 + 1 : v[i] = s[1 + i - 1]
  <2>1. 1 \in Int /\ n \in Int
    OBVIOUS
  <2> QED BY <1>2, <1>3, <2>1, SubSeqProperties
<1> QED BY <1>3, <1>4

LEMMA PrefixMessage ==
  ASSUME message \in Sendable, NEW n \in 0 .. Len(Meant),
         NEW q, q = [message EXCEPT !.options = SubSeq(message.options, 1, n)]
  PROVE  /\ IsMessage(q) /\ q.msg_type = message.msg_type /\ Len(q.options) = n
         /\ \A i \in 1 .. n : q.options[i] = Meant[i]
<1>1. /\ q.msg_type = message.msg_type /\ q.transaction_id = message.transaction_id
      /\ q.options = SubSeq(Meant, 1, n)
  BY SendableMessage DEF Meant
<1>2. PICK N \in Nat : N = Len(Meant) /\ DOMAIN Meant = 1 .. N
  BY MessageOptions
<1>3. n \in Nat
  BY <1>2
<1>4. PICK v : v = SubSeq(Meant, 1, n)
  OBVIOUS
<1>5. Len(v) = n /\ DOMAIN v = 1 .. n /\ \A i \in 1 .. n : v[i] = Meant[i]
  BY <1>3, <1>4, FirstOnes, Zenon
<1>6. \A i \in 1 .. n : IsOption(v[i].written)
  <2>1. ASSUME NEW i \in 1 .. n PROVE IsOption(v[i].written)
    <3>1. i \in 1 .. Len(Meant)
      BY <1>2
    <3>2. IsOption(Meant[i].written)
      BY <3>1, MessageOptions DEF Meant, Option
    <3> QED BY <1>5, <3>2, Zenon
  <2> QED BY <2>1
<1>7. message.msg_type \in Byte /\ message.transaction_id \in Nat
  BY SendableMessage, Zenon DEF IsMessage
<1> QED BY <1>1, <1>3, <1>4, <1>5, <1>6, <1>7, Zenon DEF IsMessage

LEMMA EndIsOffset ==
  ASSUME message \in Sendable, NEW n \in 0 .. Len(Meant)
  PROVE  EndOf(n) = 4 + Offset(Encodings(message), n)
<1>1. PICK q : q = [message EXCEPT !.options = SubSeq(message.options, 1, n)]
  OBVIOUS
<1>2. /\ IsMessage(q) /\ Len(q.options) = n
      /\ \A i \in 1 .. n : q.options[i] = Meant[i]
  BY <1>1, PrefixMessage
<1>3. PICK W \in Lists(Byte) : W = Encodings(message) /\ Len(W) = Len(Meant)
  BY MessageOptions, EncodingsList DEF Meant
<1>4. PICK V \in Lists(Byte) : V = Encodings(q) /\ Len(V) = n
  BY <1>2, EncodingsList
<1>5. PICK U \in Lists(Byte) :
        U = SubSeq(W, 1, n) /\ Len(U) = n /\ \A i \in 1 .. n : U[i] = W[i]
  <2>1. n \in 0 .. Len(W)
    BY <1>3
  <2>2. PICK s : s = SubSeq(W, 1, n)
    OBVIOUS
  <2>3. s \in Lists(Byte) /\ Len(s) = n /\ \A i \in 1 .. n : s[i] = W[i]
    BY <2>1, <2>2, ListPrefix, Zenon
  <2> QED BY <2>2, <2>3, Zenon
<1>6. \A i \in 1 .. n : V[i] = U[i]
  <2>1. ASSUME NEW i \in 1 .. n PROVE V[i] = U[i]
    <3>1. i \in 1 .. Len(Meant) /\ i \in 1 .. Len(q.options)
      BY <1>2, MessageOptions
    <3>2. V[i] = Encoded(q.options[i].written)
      BY <1>2, <1>4, <3>1, EncodingsList, Zenon
    <3>3. W[i] = Encoded(Meant[i].written)
      BY <1>3, <3>1, MessageOptions, EncodingsList, Zenon DEF Meant
    <3> QED BY <1>2, <1>5, <3>2, <3>3, Zenon
  <2> QED BY <2>1
<1>7. V = U
  BY <1>4, <1>5, <1>6 DEF Lists
<1>8. Len(Written(q)) = 4 + Len(FlattenSeq(V))
  BY <1>2, <1>4, WrittenBytes, Zenon DEF IsWritten
<1> QED BY <1>1, <1>3, <1>5, <1>7, <1>8, Zenon DEF EndOf, Offset

\* Where the options end, and that they follow each other.
LEMMA Ends ==
  ASSUME message \in Sendable
  PROVE  /\ EndOf(0) = 4
         /\ EndOf(Len(Meant)) = Len(Written(message))
         /\ \A n \in 0 .. Len(Meant) : EndOf(n) \in Nat /\ EndOf(n) >= 4
         /\ \A n \in 1 .. Len(Meant) : EndOf(n) = EndOf(n - 1) + 4 + Len(Payload(Option(n)))
         /\ \A m, n \in 0 .. Len(Meant) : m <= n => EndOf(m) <= EndOf(n)
<1>1. PICK W \in Lists(Byte) : W = Encodings(message) /\ Len(W) = Len(Meant)
  BY MessageOptions, EncodingsList DEF Meant
<1>2. PICK N \in Nat : N = Len(Meant)
  BY MessageOptions
<1>3. \A n \in 0 .. N : EndOf(n) = 4 + Offset(W, n)
  BY <1>1, <1>2, EndIsOffset, Zenon
<1>4. /\ Offset(W, 0) = 0
      /\ Offset(W, N) = Len(FlattenSeq(W))
      /\ \A n \in 0 .. N : Offset(W, n) \in Nat
      /\ \A n \in 1 .. N : Offset(W, n) = Offset(W, n - 1) + Len(W[n])
  <2>1. /\ Offset(W, 0) = 0
        /\ Offset(W, Len(W)) = Len(FlattenSeq(W))
        /\ \A n \in 0 .. Len(W) : Offset(W, n) \in Nat
        /\ \A n \in 1 .. Len(W) : Offset(W, n) = Offset(W, n - 1) + Len(W[n])
    BY <1>1, Offsets
  <2> QED BY <1>1, <1>2, <2>1, Zenon
<1>5. ASSUME NEW n \in 1 .. N PROVE EndOf(n) = EndOf(n - 1) + 4 + Len(Payload(Option(n)))
  <2>1. n \in 0 .. N /\ n - 1 \in 0 .. N
    BY <1>2
  <2>2. W[n] = Encoded(Option(n)) /\ IsOption(Option(n))
    BY <1>1, <1>2, MessageOptions, EncodingsList DEF Meant, Option
  <2>3. Len(W[n]) = 4 + Len(Payload(Option(n)))
    BY <2>2, EncodedBytes
  <2>4. PICK l \in Nat : l = Len(Payload(Option(n)))
    BY <2>2, PayloadBytes
  <2>5. PICK p \in Nat : p = Offset(W, n - 1)
    BY <1>4, <2>1
  <2>6. EndOf(n - 1) = 4 + p
    BY <1>3, <2>1, <2>5, Zenon
  <2>7. EndOf(n) = 4 + (p + (4 + l))
    BY <1>3, <1>4, <2>1, <2>3, <2>4, <2>5, Zenon
  <2>8. EndOf(n) = EndOf(n - 1) + 4 + l
    BY <2>6, <2>7
  <2> QED BY <2>4, <2>8
<1>6. ASSUME NEW m \in 0 .. N, NEW n \in 0 .. N, m <= n PROVE EndOf(m) <= EndOf(n)
  <2>1. n \in m .. Len(W) /\ m \in 0 .. Len(W)
    BY <1>1, <1>2, <1>6
  <2>2. Offset(W, m) <= Offset(W, n)
    BY <2>1, OffsetsGrow
  <2>3. Offset(W, m) \in Nat /\ Offset(W, n) \in Nat
    BY <1>4
  <2> QED BY <1>3, <2>2, <2>3
<1>7. \A n \in 0 .. N : EndOf(n) \in Nat /\ EndOf(n) >= 4
  BY <1>3, <1>4
<1>8. EndOf(0) = 4
  <2>1. 0 \in 0 .. N
    OBVIOUS
  <2> QED BY <1>3, <1>4, <2>1
<1>9. EndOf(N) = Len(Written(message))
  <2>1. N \in 0 .. N
    OBVIOUS
  <2>2. Len(Written(message)) = 4 + Len(FlattenSeq(W))
    BY <1>1, MessageOptions, WrittenBytes, Zenon DEF IsWritten
  <2> QED BY <1>3, <1>4, <2>1, <2>2, Zenon
<1> QED BY <1>2, <1>5, <1>6, <1>7, <1>8, <1>9, Zenon

\* And what stands there.
LEMMA WrittenAt ==
  ASSUME message \in Sendable, NEW n \in 1 .. Len(Meant), NEW i \in 1 .. Len(Encoded(Option(n)))
  PROVE  Written(message)[EndOf(n - 1) + i] = Encoded(Option(n))[i]
<1>1. PICK W \in Lists(Byte) : W = Encodings(message) /\ Len(W) = Len(Meant)
  BY MessageOptions, EncodingsList DEF Meant
<1>2. PICK p \in Nat : p = Offset(W, n - 1) /\ EndOf(n - 1) = 4 + p
  <2>1. n - 1 \in 0 .. Len(Meant) /\ n - 1 \in 0 .. Len(W)
    BY <1>1, MessageOptions
  <2>2. Offset(W, n - 1) \in Nat
    BY <2>1, Offsets
  <2> QED BY <1>1, <2>1, <2>2, EndIsOffset
<1>3. n \in 1 .. Len(W) /\ W[n] = Encoded(Option(n))
  <2>1. W[n] = Encoded(Meant[n].written)
    BY <1>1, MessageOptions, EncodingsList, Zenon DEF Meant
  <2> QED BY <1>1, <2>1 DEF Meant, Option
<1>4. PICK F : F = FlattenSeq(W) /\ Len(F) \in Nat
  BY FlattenType
<1>5. F[p + i] = W[n][i]
  <2>1. i \in 1 .. Len(W[n])
    BY <1>3
  <2>2. FlattenSeq(W)[Offset(W, n - 1) + i] = W[n][i]
    BY <1>3, <2>1, FlattenAt
  <2> QED BY <1>2, <1>4, <2>2, Zenon
<1>6. p + i \in 1 .. Len(F)
  <2>1. PICK l \in Nat : l = Len(W[n])
    BY <1>3, ListElements
  <2>2. n \in 0 .. Len(W) /\ Len(W) \in 0 .. Len(W) /\ n <= Len(W) /\ Len(W) \in n .. Len(W)
    BY <1>1, <1>3, MessageOptions
  <2>3. Offset(W, n) = p + l
    BY <1>2, <1>3, <2>1, Offsets, Zenon
  <2>4. Offset(W, n) <= Offset(W, Len(W))
    BY <2>2, OffsetsGrow, Zenon
  <2>5. Offset(W, Len(W)) = Len(F)
    BY <1>4, Offsets, Zenon
  <2>6. p + l <= Len(F)
    BY <2>3, <2>4, <2>5, Zenon
  <2>7. i \in 1 .. l
    BY <1>3, <2>1, Zenon
  <2> QED BY <1>4, <2>6, <2>7
<1>7. \A k \in 1 .. Len(F) : Written(message)[4 + k] = F[k]
  <2>1. IsWritten(Written(message), message)
    BY <1>1, MessageOptions, WrittenBytes, Zenon
  <2> QED BY <1>1, <1>4, <2>1, Zenon DEF IsWritten
<1>8. Written(message)[4 + (p + i)] = W[n][i]
  BY <1>5, <1>6, <1>7, Zenon
<1>9. 4 + (p + i) = 4 + p + i
  OBVIOUS
<1> QED BY <1>2, <1>3, <1>8, <1>9, Zenon

-----------------------------------------------------------------------------
(* What has arrived *)

\* No option is too large, and this much of the message is here.
Arrived(length) ==
  /\ \A i \in 1 .. Len(Meant) : ~TooLarge(Option(i))
  /\ length \in 0 .. Len(Written(message))
  /\ input = SubSeq(Written(message), 1, length)

LEMMA InputBytes ==
  ASSUME message \in Sendable, NEW length, Arrived(length)
  PROVE  /\ length \in Nat /\ length <= Len(Written(message)) /\ Len(Written(message)) \in Nat
         /\ input \in Seq(Byte) /\ Len(input) = length
         /\ \A i \in 1 .. length : input[i] = Written(message)[i]
<1>1. PICK w \in Seq(Byte) : w = Written(message)
  BY MessageOptions, WrittenBytes DEF IsWritten
<1>2. length \in 0 .. Len(w) /\ input = SubSeq(w, 1, length)
  BY <1>1 DEF Arrived
<1>3. PICK v : v = SubSeq(w, 1, length)
  OBVIOUS
<1>4. v \in Seq(Byte) /\ Len(v) = length /\ \A i \in 1 .. length : v[i] = w[i]
  BY <1>2, <1>3
<1> QED BY <1>1, <1>2, <1>3, <1>4

\* The first bytes are the ones that were written.
LEMMA HeaderIs ==
  ASSUME message \in Sendable, NEW length, Arrived(length), length >= 4
  PROVE  MessageType = message.msg_type
         /\ TransactionId = message.transaction_id % (256 * 256 * 256)
<1>1. /\ length \in Nat /\ \A i \in 1 .. length : input[i] = Written(message)[i]
  BY InputBytes
<1>2. 1 \in 1 .. length /\ 2 \in 1 .. length /\ 3 \in 1 .. length /\ 4 \in 1 .. length
  BY <1>1
<1>3. /\ input[1] = Written(message)[1] /\ input[2] = Written(message)[2]
      /\ input[3] = Written(message)[3] /\ input[4] = Written(message)[4]
  BY <1>1, <1>2, Zenon
<1>4. IsWritten(Written(message), message)
  BY MessageOptions, WrittenBytes
<1>5. Written(message)[1] = message.msg_type
  BY <1>4, Zenon DEF IsWritten
<1>6. (Written(message)[2] * 256 + Written(message)[3]) * 256 + Written(message)[4]
        = message.transaction_id % (256 * 256 * 256)
  BY <1>4, Zenon DEF IsWritten
<1> QED BY <1>3, <1>5, <1>6, Zenon DEF MessageType, TransactionId

\* Behind p bytes of v, e begins; v may end before e does.
Begins(v, p, e) ==
  /\ p \in Nat /\ Len(v) \in Nat /\ p <= Len(v)
  /\ \A i \in 1 .. Len(e) : p + i <= Len(v) => v[p + i] = e[i]

\* e is c, the length of d, and d.
Frames(e, c, d) ==
  /\ d \in Seq(Byte) /\ Len(e) = 4 + Len(d) /\ U16At(e, 0) = c /\ LengthAt(e, 0) = Len(d)
  /\ \A i \in 1 .. Len(d) : e[4 + i] = d[i]

\* And is read if it is all there.
ReadsAs(v, p, c, d) ==
  /\ FramedAt(v, p) <=> p + 4 + Len(d) <= Len(v)
  /\ FramedAt(v, p) =>
       U16At(v, p) = c /\ BodyAt(v, p) = d /\ Behind(v, p) = p + 4 + Len(d)

IsCut(v, q, l, d) == SubSeq(v, q + 1, q + l) = d

LEMMA Cut ==
  ASSUME NEW v, NEW q \in Nat, NEW d \in Seq(Byte), NEW l \in Nat, l = Len(d),
         \A i \in 1 .. l : v[q + i] = d[i]
  PROVE  IsCut(v, q, l, d)
  BY SubSeqIs DEF IsCut

LEMMA OptionAt ==
  ASSUME NEW v, NEW p, NEW e, Begins(v, p, e), NEW c, NEW d, Frames(e, c, d)
  PROVE  ReadsAs(v, p, c, d)
<1>0. PICK length \in Nat, l \in Nat :
        /\ length = Len(v) /\ l = Len(d) /\ p \in Nat /\ p <= length /\ d \in Seq(Byte)
        /\ U16At(e, 0) = c /\ LengthAt(e, 0) = l
        /\ Len(e) = 4 + l
        /\ \A i \in 1 .. l : e[4 + i] = d[i]
        /\ \A i \in 1 .. 4 + l : p + i <= length => v[p + i] = e[i]
  <2>1. /\ p \in Nat /\ Len(v) \in Nat /\ p <= Len(v)
        /\ \A i \in 1 .. Len(e) : p + i <= Len(v) => v[p + i] = e[i]
    BY Zenon DEF Begins
  <2>2. /\ d \in Seq(Byte) /\ Len(e) = 4 + Len(d) /\ U16At(e, 0) = c /\ LengthAt(e, 0) = Len(d)
        /\ \A i \in 1 .. Len(d) : e[4 + i] = d[i]
    BY Zenon DEF Frames
  <2>3. PICK l \in Nat : l = Len(d)
    BY <2>2
  <2> QED BY <2>1, <2>2, <2>3, Zenon
<1>1. ASSUME length - p >= 4 PROVE U16At(v, p) = c /\ LengthAt(v, p) = l
  <2>1. /\ 1 \in 1 .. 4 + l /\ 2 \in 1 .. 4 + l /\ 3 \in 1 .. 4 + l /\ 4 \in 1 .. 4 + l
        /\ p + 1 <= length /\ p + 2 <= length /\ p + 3 <= length /\ p + 4 <= length
    BY <1>0, <1>1
  <2>2. v[p + 1] = e[1] /\ v[p + 2] = e[2] /\ v[p + 3] = e[3] /\ v[p + 4] = e[4]
    BY <1>0, <2>1, Zenon
  <2>3. /\ p + 2 + 1 = p + 3 /\ p + 2 + 2 = p + 4
        /\ 0 + 1 = 1 /\ 0 + 2 = 2 /\ 0 + 2 + 1 = 3 /\ 0 + 2 + 2 = 4
    BY <1>0
  <2>4. U16At(v, p) = U16At(e, 0)
    BY <2>2, <2>3, Zenon DEF U16At
  <2>5. LengthAt(v, p) = LengthAt(e, 0)
    BY <2>2, <2>3, Zenon DEF LengthAt, U16At
  <2> QED BY <1>0, <2>4, <2>5, Zenon
<1>2. FramedAt(v, p) <=> p + 4 + l <= length
  <2>1. CASE length - p >= 4
    <3>1. PICK k \in Nat : k = LengthAt(v, p) /\ k = l
      BY <1>0, <1>1, <2>1
    <3> QED BY <1>0, <2>1, <3>1 DEF FramedAt
  <2>2. CASE ~(length - p >= 4)
    BY <1>0, <2>2 DEF FramedAt
  <2> QED BY <2>1, <2>2
<1>3. ASSUME FramedAt(v, p)
      PROVE  U16At(v, p) = c /\ BodyAt(v, p) = d /\ Behind(v, p) = p + 4 + l
  <2>1. p + 4 + l <= length
    BY <1>2, <1>3
  <2>2. U16At(v, p) = c /\ LengthAt(v, p) = l
    BY <1>0, <1>1, <2>1
  <2>3. PICK q \in Nat : q = p + 4
    BY <1>0
  <2>4. ASSUME NEW i \in 1 .. l PROVE v[q + i] = d[i]
    <3>1. 4 + i \in 1 .. 4 + l /\ p + (4 + i) <= length /\ p + (4 + i) = q + i
      BY <1>0, <2>1, <2>3
    <3>2. v[p + (4 + i)] = e[4 + i]
      BY <1>0, <3>1, Zenon
    <3> QED BY <1>0, <3>1, <3>2, Zenon
  <2>5. SubSeq(v, q + 1, q + l) = d
    <3>1. d \in Seq(Byte) /\ l = Len(d)
      BY <1>0
    <3>2. IsCut(v, q, l, d)
      BY <2>4, <3>1, Cut, Zenon
    <3> QED BY <3>2, Zenon DEF IsCut
  <2>6. p + 5 = q + 1 /\ p + 4 + l = q + l
    BY <1>0, <2>3
  <2>7. BodyAt(v, p) = d
    BY <2>2, <2>5, <2>6, Zenon DEF BodyAt
  <2> QED BY <2>2, <2>7, Zenon DEF Behind
<1> QED BY <1>0, <1>2, <1>3, Zenon DEF ReadsAs

\* So the next option reads as the one that was written next.
LEMMA NextOption ==
  ASSUME message \in Sendable, NEW length, Arrived(length),
         NEW n \in 1 .. Len(Meant), pos = EndOf(n - 1), pos <= Len(input)
  PROVE  /\ FramedAt(input, pos) <=> EndOf(n) <= Len(input)
         /\ FramedAt(input, pos) =>
              /\ U16At(input, pos) = CodeOf(Option(n))
              /\ BodyAt(input, pos) = Payload(Option(n))
              /\ Behind(input, pos) = EndOf(n)
<1>1. /\ length \in Nat /\ length <= Len(Written(message)) /\ Len(input) = length
      /\ \A i \in 1 .. length : input[i] = Written(message)[i]
  BY InputBytes
<1>2. IsOption(Option(n)) /\ ~TooLarge(Option(n))
  BY MessageOptions DEF Arrived
<1>3. PICK d \in Seq(Byte), l \in Nat : d = Payload(Option(n)) /\ l = Len(d)
  BY <1>2, PayloadBytes
<1>4. PICK e \in Seq(Byte) : e = Encoded(Option(n))
  BY <1>2, EncodedBytes
<1>5. /\ Len(e) = 4 + l /\ U16At(e, 0) = CodeOf(Option(n)) /\ LengthAt(e, 0) = l
      /\ \A i \in 1 .. l : e[4 + i] = d[i]
  BY <1>2, <1>3, <1>4, EncodedBytes, Zenon
<1>6. PICK p \in Nat : p = pos /\ p = EndOf(n - 1)
  <2>1. n - 1 \in 0 .. Len(Meant)
    BY MessageOptions
  <2> QED BY <2>1, Ends
<1>7. EndOf(n) = p + 4 + l
  BY <1>3, <1>6, Ends, Zenon
<1>8. Begins(input, p, e)
  <2>1. ASSUME NEW i \in 1 .. Len(e), p + i <= Len(input) PROVE input[p + i] = e[i]
    <3>1. i \in 1 .. Len(Encoded(Option(n))) /\ p + i \in 1 .. length
      BY <1>1, <1>4, <2>1
    <3>2. Written(message)[EndOf(n - 1) + i] = Encoded(Option(n))[i]
      BY <3>1, WrittenAt
    <3> QED BY <1>1, <1>4, <1>6, <3>1, <3>2, Zenon
  <2> QED BY <1>1, <1>6, <2>1 DEF Begins
<1>9. Frames(e, CodeOf(Option(n)), d)
  BY <1>3, <1>5, Zenon DEF Frames
<1>10. ReadsAs(input, p, CodeOf(Option(n)), d)
  BY <1>8, <1>9, OptionAt, Zenon
<1> QED BY <1>1, <1>3, <1>6, <1>7, <1>10, Zenon DEF ReadsAs

-----------------------------------------------------------------------------
(* The sub-options of an IA_NA *)

Address == [addr : Bytes(16), lifetimes : Bytes(8)]

\* The addresses from p on, those behind the sub-option at p being known.
FirstThen(data, p, rest) ==
  IF ~FramedAt(data, p) \/ TooShort(data, p) THEN <<Torn>>
  ELSE IF IsAddress(data, p) THEN <<AddressIn(BodyAt(data, p))>> \o rest
  ELSE rest

AddressesFrom(f, data, p) ==
  IF p = Len(data) THEN <<>> ELSE FirstThen(data, p, f[Behind(data, p)])

LEMMA FrameBytes ==
  ASSUME NEW data \in Seq(Byte), NEW p \in Nat, FramedAt(data, p)
  PROVE  /\ LengthAt(data, p) \in Nat
         /\ Behind(data, p) = p + 4 + LengthAt(data, p)
         /\ Behind(data, p) \in p + 1 .. Len(data)
         /\ BodyAt(data, p) \in Seq(Byte) /\ Len(BodyAt(data, p)) = LengthAt(data, p)
<1>1. PICK N \in Nat : N = Len(data)
  OBVIOUS
<1>2. N - p >= 4 /\ N - p - 4 >= LengthAt(data, p)
  BY <1>1, Zenon DEF FramedAt
<1>3. PICK l \in Nat : l = LengthAt(data, p)
  <2>1. p + 2 + 1 \in 1 .. N /\ p + 2 + 2 \in 1 .. N
    BY <1>2
  <2>2. PICK a \in Byte, b \in Byte : a = data[p + 2 + 1] /\ b = data[p + 2 + 2]
    BY <1>1, <2>1
  <2>3. a * 256 + b \in Nat
    BY DEF Byte
  <2>4. LengthAt(data, p) = a * 256 + b
    BY <2>2, Zenon DEF LengthAt, U16At
  <2> QED BY <2>3, <2>4
<1>4. p + 4 + l <= N
  BY <1>2, <1>3
<1>5. PICK v : v = SubSeq(data, p + 5, p + 4 + l)
  OBVIOUS
<1>6. v \in Seq(Byte) /\ Len(v) = l
  <2>1. \A i \in p + 5 .. p + 4 + l : data[i] \in Byte
    BY <1>1, <1>4
  <2>2. p + 5 \in Int /\ p + 4 + l \in Int
    OBVIOUS
  <2>3. /\ v \in Seq(Byte)
        /\ Len(v) = IF p + 5 <= p + 4 + l THEN p + 4 + l - (p + 5) + 1 ELSE 0
    BY <1>5, <2>1, <2>2, SubSeqProperties
  <2> QED BY <2>3
<1>7. BodyAt(data, p) = v
  BY <1>3, <1>5, Zenon DEF BodyAt
<1>8. Behind(data, p) = p + 4 + l
  BY <1>3, Zenon DEF Behind
<1>9. p + 4 + l \in p + 1 .. Len(data)
  BY <1>1, <1>4
<1> QED BY <1>3, <1>6, <1>7, <1>8, <1>9, Zenon

LEMMA SameRest ==
  ASSUME NEW data \in Seq(Byte), NEW p \in Nat, NEW f, NEW g,
         \A q \in p + 1 .. Len(data) : f[q] = g[q]
  PROVE  AddressesFrom(f, data, p) = AddressesFrom(g, data, p)
<1>1. CASE FramedAt(data, p)
  <2>1. f[Behind(data, p)] = g[Behind(data, p)]
    BY <1>1, FrameBytes
  <2> QED BY <2>1, Zenon DEF AddressesFrom
<1>2. CASE ~FramedAt(data, p)
  BY <1>2, Zenon DEF AddressesFrom, FirstThen
<1> QED BY <1>1, <1>2

\* f is the recursive function of Addresses, from first on.
IsAddressFcn(f, data, first) ==
  f = [p \in first .. Len(data) |-> AddressesFrom(f, data, p)]

LEMMA AddressFcnExists ==
  ASSUME NEW data \in Seq(Byte), NEW first \in 0 .. Len(data)
  PROVE  \E f : IsAddressFcn(f, data, first)
<1>1. PICK N \in Nat : N = Len(data)
  OBVIOUS
<1>2. PICK M \in Nat : M = N - first /\ M <= N
  <2>1. first \in 0 .. N
    BY <1>1
  <2>2. N - first \in Nat /\ N - first <= N
    BY <2>1
  <2> QED BY <2>2
<1> DEFINE P(m) == \E f : IsAddressFcn(f, data, N - m)
<1>3. P(0)
  <2>1. PICK f : f = [p \in {N} |-> <<>>]
    OBVIOUS
  <2>2. N - 0 .. N = {N}
    OBVIOUS
  <2>3. \A p \in {N} : AddressesFrom(f, data, p) = <<>>
    BY <1>1 DEF AddressesFrom
  <2>4. f = [p \in {N} |-> AddressesFrom(f, data, p)]
    BY <2>1, <2>3
  <2>5. IsAddressFcn(f, data, N - 0)
    BY <1>1, <2>2, <2>4, Zenon DEF IsAddressFcn
  <2> QED BY <2>5
<1>4. ASSUME NEW m \in 1 .. M, P(m - 1) PROVE P(m)
  <2>1. PICK f : IsAddressFcn(f, data, N - (m - 1))
    BY <1>4
  <2>2. PICK k \in Nat : k = N - m /\ k < N /\ N - (m - 1) = k + 1
    <3>1. N - m \in Nat /\ N - m < N /\ N - (m - 1) = N - m + 1
      BY <1>2
    <3> QED BY <3>1
  <2>3. \A p \in k + 1 .. N : f[p] = AddressesFrom(f, data, p)
    BY <1>1, <2>1, <2>2 DEF IsAddressFcn
  <2>4. PICK g : g = [p \in k .. N |-> IF p = k THEN AddressesFrom(f, data, k) ELSE f[p]]
    OBVIOUS
  <2>5. \A p \in k + 1 .. N : g[p] = f[p]
    BY <2>4
  <2>6. ASSUME NEW p \in k .. N PROVE g[p] = AddressesFrom(g, data, p)
    <3>1. \A q \in p + 1 .. Len(data) : f[q] = g[q]
      <4>1. ASSUME NEW q \in p + 1 .. Len(data) PROVE f[q] = g[q]
        <5>1. q \in k + 1 .. N
          BY <1>1
        <5> QED BY <2>5, <5>1
      <4> QED BY <4>1
    <3>2. p \in Nat
      OBVIOUS
    <3>3. AddressesFrom(f, data, p) = AddressesFrom(g, data, p)
      BY <3>1, <3>2, SameRest
    <3>4. g[p] = AddressesFrom(f, data, p)
      <4>1. CASE p = k
        BY <2>4, <4>1
      <4>2. CASE p # k
        <5>1. p \in k + 1 .. N
          BY <4>2
        <5> QED BY <2>3, <2>5, <5>1
      <4> QED BY <4>1, <4>2
    <3> QED BY <3>3, <3>4
  <2>7. g = [p \in k .. N |-> AddressesFrom(g, data, p)]
    BY <2>4, <2>6
  <2>8. IsAddressFcn(g, data, N - m)
    BY <1>1, <2>2, <2>7, Zenon DEF IsAddressFcn
  <2> QED BY <2>8
<1>5. \A m \in 0 .. M : P(m)
  <2> DEFINE T == {m \in 0 .. M : P(m)}
  <2> HIDE DEF P
  <2>1. 0 \in T /\ \A m \in 1 .. M : m - 1 \in T => m \in T
    BY <1>3, <1>4
  <2>2. \A m \in 0 .. M : m \in T
    <3> HIDE DEF T
    <3> QED BY <2>1, Induction
  <2> QED BY <2>2
<1>6. P(M)
  BY <1>5
<1>7. N - M = first
  BY <1>1, <1>2
<1> QED BY <1>6, <1>7

LEMMA AddressFcn ==
  ASSUME NEW data \in Seq(Byte), Len(data) >= 12
  PROVE  \E f : IsAddressFcn(f, data, 12) /\ Addresses(data) = f[12]
<1> DEFINE P(h) == h = [p \in 12 .. Len(data) |-> AddressesFrom(h, data, p)]
           from == CHOOSE h : P(h)
<1>1. \E h : P(h)
  <2>1. 12 \in 0 .. Len(data)
    OBVIOUS
  <2> QED BY <2>1, AddressFcnExists DEF IsAddressFcn
<1>2. P(from)
  <2> HIDE DEF P
  <2> QED BY <1>1
<1>3. Addresses(data) = from[12]
  BY DEF Addresses, AddressesFrom, FirstThen
<1> HIDE DEF from
<1> QED BY <1>2, <1>3 DEF IsAddressFcn

\* A list of addresses, or one that ends in Torn; each took 28 bytes.
Fits(x, room) ==
  /\ x \in Seq(Address \cup {Torn})
  /\ (\A i \in 1 .. Len(x) : x[i] # Torn) => 28 * Len(x) <= room

IsSlice(v, S, s, m, n) ==
  /\ v \in Seq(S) /\ Len(v) = n - m + 1
  /\ \A i \in 1 .. n - m + 1 : v[i] = s[m + i - 1]

LEMMA Slice ==
  ASSUME NEW S, NEW s \in Seq(S), NEW m \in Nat, NEW n \in Nat,
         1 <= m, m <= n + 1, n <= Len(s)
  PROVE  IsSlice(SubSeq(s, m, n), S, s, m, n)
<1>1. \A i \in m .. n : s[i] \in S
  OBVIOUS
<1>2. m \in Int /\ n \in Int
  OBVIOUS
<1>3. PICK v : v = SubSeq(s, m, n)
  OBVIOUS
<1>4. /\ v \in Seq(S)
      /\ Len(v) = IF m <= n THEN n - m + 1 ELSE 0
      /\ \A i \in 1 .. n - m + 1 : v[i] = s[m + i - 1]
  BY <1>1, <1>2, <1>3, SubSeqProperties
<1>5. Len(v) = n - m + 1
  BY <1>4
<1> QED BY <1>3, <1>4, <1>5, Zenon DEF IsSlice

LEMMA BodyAddress ==
  ASSUME NEW body \in Seq(Byte), Len(body) >= 24
  PROVE  AddressIn(body) \in Address
<1>1. PICK a, t : a = SubSeq(body, 1, 16) /\ t = SubSeq(body, 17, 24)
  OBVIOUS
<1>2. a \in Seq(Byte) /\ Len(a) = 16
  <2>1. /\ 1 \in Nat /\ 16 \in Nat /\ 1 <= 1 /\ 1 <= 16 + 1 /\ 16 - 1 + 1 = 16
        /\ 16 <= Len(body)
    OBVIOUS
  <2>2. IsSlice(a, Byte, body, 1, 16)
    BY <1>1, <2>1, Slice, Zenon
  <2> QED BY <2>1, <2>2, Zenon DEF IsSlice
<1>3. t \in Seq(Byte) /\ Len(t) = 8
  <2>1. /\ 17 \in Nat /\ 24 \in Nat /\ 1 <= 17 /\ 17 <= 24 + 1 /\ 24 - 17 + 1 = 8
        /\ 24 <= Len(body)
    OBVIOUS
  <2>2. IsSlice(t, Byte, body, 17, 24)
    BY <1>1, <2>1, Slice, Zenon
  <2> QED BY <2>1, <2>2, Zenon DEF IsSlice
<1>4. AddressIn(body) = [addr |-> a, lifetimes |-> t]
  BY <1>1 DEF AddressIn, IaAddr
<1> QED BY <1>2, <1>3, <1>4 DEF Address, Bytes

LEMMA OneMoreFits ==
  ASSUME NEW a \in Address, NEW y, NEW r \in Nat, NEW room \in Nat, Fits(y, r), r + 28 <= room
  PROVE  Fits(<<a>> \o y, room)
<1> DEFINE S == Address \cup {Torn}
<1>1. y \in Seq(S)
  BY DEF Fits
<1>2. a \in S
  OBVIOUS
<1> HIDE DEF S
<1>3. PICK h : h = <<a>>
  OBVIOUS
<1>4. h \in Seq(S) /\ Len(h) = 1
  BY <1>2, <1>3
<1>5. PICK n \in Nat : n = Len(y)
  BY <1>1
<1>6. PICK x : x = h \o y
  OBVIOUS
<1>7. x \in Seq(S) /\ Len(x) = 1 + n /\ \A i \in 1 .. n : x[1 + i] = y[i]
  <2>1. 1 \in Nat
    OBVIOUS
  <2>2. Joins(S, x, h, 1, y, n)
    BY <1>1, <1>4, <1>5, <1>6, <2>1, Joined, Zenon
  <2> QED BY <2>2, Zenon DEF Joins
<1>8. ASSUME \A i \in 1 .. Len(x) : x[i] # Torn PROVE 28 * Len(x) <= room
  <2>1. \A i \in 1 .. n : 1 + i \in 1 .. Len(x)
    BY <1>7
  <2>2. \A i \in 1 .. n : y[i] # Torn
    BY <1>7, <1>8, <2>1, Zenon
  <2>3. 28 * Len(y) <= r
    BY <1>5, <2>2, Zenon DEF Fits
  <2>4. 28 * n <= r
    BY <1>5, <2>3, Zenon
  <2>5. 28 * (1 + n) <= room
    BY <2>4
  <2> QED BY <1>7, <2>5, Zenon
<1>9. x \in Seq(Address \cup {Torn})
  BY <1>7 DEF S
<1> QED BY <1>3, <1>6, <1>8, <1>9, Zenon DEF Fits

LEMMA MoreRoom ==
  ASSUME NEW y, NEW r \in Nat, NEW room \in Nat, Fits(y, r), r <= room
  PROVE  Fits(y, room)
<1>1. PICK n \in Nat : n = Len(y)
  BY DEF Fits
<1>2. 28 * n <= r => 28 * n <= room
  OBVIOUS
<1> QED BY <1>1, <1>2, Zenon DEF Fits

LEMMA AddressesFit ==
  ASSUME NEW data \in Seq(Byte), NEW N \in Nat, N = Len(data), NEW p \in 0 .. N, NEW f,
         \A q \in p + 1 .. N : Fits(f[q], N - q)
  PROVE  Fits(AddressesFrom(f, data, p), N - p)
<1>0. p \in Nat /\ N - p \in Nat
  OBVIOUS
<1>1. CASE p = N
  <2>1. AddressesFrom(f, data, p) = <<>>
    BY <1>1 DEF AddressesFrom
  <2>2. <<>> \in Seq(Address \cup {Torn}) /\ 28 * Len(<<>>) <= N - p
    BY <1>0
  <2> QED BY <2>1, <2>2, Zenon DEF Fits
<1>2. CASE p # N /\ (~FramedAt(data, p) \/ TooShort(data, p))
  <2>1. AddressesFrom(f, data, p) = <<Torn>>
    BY <1>2, Zenon DEF AddressesFrom, FirstThen
  <2>2. PICK x : x = <<Torn>>
    OBVIOUS
  <2>3. x \in Seq(Address \cup {Torn}) /\ 1 \in 1 .. Len(x) /\ x[1] = Torn
    <3> DEFINE S == Address \cup {Torn}
    <3>1. PICK t \in S : t = Torn
      OBVIOUS
    <3> HIDE DEF S
    <3>2. x = <<t>>
      BY <2>2, <3>1, Zenon
    <3>3. x \in Seq(S) /\ 1 \in 1 .. Len(x) /\ x[1] = t
      BY <3>2
    <3> QED BY <3>1, <3>3 DEF S
  <2> QED BY <2>1, <2>2, <2>3, Zenon DEF Fits
<1>3. CASE p # N /\ FramedAt(data, p) /\ ~TooShort(data, p)
  <2>0. /\ LengthAt(data, p) \in Nat
        /\ Behind(data, p) = p + 4 + LengthAt(data, p)
        /\ Behind(data, p) \in p + 1 .. Len(data)
        /\ BodyAt(data, p) \in Seq(Byte) /\ Len(BodyAt(data, p)) = LengthAt(data, p)
    BY <1>0, <1>3, FrameBytes
  <2>1. PICK l \in Nat : l = LengthAt(data, p)
    BY <2>0
  <2> DEFINE b == Behind(data, p)
             body == BodyAt(data, p)
  <2>2. b = p + 4 + l /\ b \in p + 1 .. N /\ body \in Seq(Byte) /\ Len(body) = l
    BY <2>0, <2>1
  <2> HIDE DEF b, body
  <2>3. Fits(f[b], N - b) /\ N - b \in Nat
    BY <2>2
  <2>4. CASE IsAddress(data, p)
    <3>1. l >= 24
      BY <1>3, <2>1, <2>4 DEF TooShort
    <3>2. AddressIn(body) \in Address
      BY <2>2, <3>1, BodyAddress
    <3>3. N - b + 28 <= N - p
      BY <2>2, <3>1
    <3>4. Fits(<<AddressIn(body)>> \o f[b], N - p)
      BY <1>0, <2>3, <3>2, <3>3, OneMoreFits, Zenon
    <3>5. AddressesFrom(f, data, p) = <<AddressIn(body)>> \o f[b]
      BY <1>3, <2>4, Zenon DEF AddressesFrom, FirstThen, b, body
    <3> QED BY <3>4, <3>5, Zenon
  <2>5. CASE ~IsAddress(data, p)
    <3>1. AddressesFrom(f, data, p) = f[b]
      BY <1>3, <2>5, Zenon DEF AddressesFrom, FirstThen, b
    <3>2. N - b <= N - p
      BY <2>2
    <3>3. Fits(f[b], N - p)
      BY <1>0, <2>3, <3>2, MoreRoom, Zenon
    <3> QED BY <3>1, <3>3, Zenon
  <2> QED BY <2>4, <2>5
<1> QED BY <1>1, <1>2, <1>3

LEMMA AddressesRoom ==
  ASSUME NEW data \in Seq(Byte), Len(data) >= 12
  PROVE  Fits(Addresses(data), Len(data) - 12)
<1>1. PICK N \in Nat : N = Len(data) /\ N >= 12
  OBVIOUS
<1>2. PICK M \in Nat : M = N - 12
  BY <1>1
<1>3. PICK f : IsAddressFcn(f, data, 12) /\ Addresses(data) = f[12]
  BY AddressFcn
<1>4. \A p \in 12 .. N : f[p] = AddressesFrom(f, data, p)
  BY <1>1, <1>3 DEF IsAddressFcn
<1> DEFINE P(m) == \A p \in N - m .. N : Fits(f[p], N - p)
<1>5. ASSUME NEW m \in 0 .. M, \A q \in N - m + 1 .. N : Fits(f[q], N - q)
      PROVE  Fits(f[N - m], N - (N - m))
  <2>1. PICK p \in 0 .. N : p = N - m /\ p \in 12 .. N
    <3>1. N - m \in 12 .. N /\ N - m \in 0 .. N
      BY <1>1, <1>2
    <3> QED BY <3>1
  <2>2. Fits(AddressesFrom(f, data, p), N - p)
    BY <1>1, <1>5, <2>1, AddressesFit
  <2> QED BY <1>4, <2>1, <2>2, Zenon
<1>6. P(0)
  <2>1. 0 \in 0 .. M /\ \A q \in N - 0 + 1 .. N : Fits(f[q], N - q)
    OBVIOUS
  <2>2. Fits(f[N - 0], N - (N - 0))
    BY <1>5, <2>1
  <2>3. \A p \in N - 0 .. N : p = N - 0
    OBVIOUS
  <2> QED BY <2>2, <2>3, Zenon
<1>7. ASSUME NEW m \in 1 .. M, P(m - 1) PROVE P(m)
  <2>1. m \in 0 .. M /\ N - (m - 1) = N - m + 1
    BY <1>1, <1>2
  <2>2. \A q \in N - m + 1 .. N : Fits(f[q], N - q)
    BY <1>7, <2>1, Zenon
  <2>3. Fits(f[N - m], N - (N - m))
    BY <1>5, <2>1, <2>2, Zenon
  <2>4. \A p \in N - m .. N : p = N - m \/ p \in N - m + 1 .. N
    OBVIOUS
  <2> QED BY <2>2, <2>3, <2>4, Zenon
<1>8. \A m \in 0 .. M : P(m)
  <2> DEFINE T == {m \in 0 .. M : P(m)}
  <2> HIDE DEF P
  <2>1. 0 \in T /\ \A m \in 1 .. M : m - 1 \in T => m \in T
    BY <1>6, <1>7
  <2>2. \A m \in 0 .. M : m \in T
    <3> HIDE DEF T
    <3> QED BY <2>1, Induction
  <2> QED BY <2>2
<1>9. M \in 0 .. M /\ 12 \in N - M .. N
  BY <1>1, <1>2
<1>10. Fits(f[12], N - 12)
  BY <1>8, <1>9, Zenon
<1> QED BY <1>1, <1>3, <1>10, Zenon

-----------------------------------------------------------------------------
(* An option that is decoded *)

LEMMA DecodedIanaIs ==
  ASSUME NEW data \in Seq(Byte), ~IanaIsMalformed(data)
  PROVE  IsOption(DecodedIana(data)) /\ PayloadLen(DecodedIana(data)) <= Len(data)
<1>1. PICK N \in Nat : N = Len(data) /\ N >= 12
  BY DEF IanaIsMalformed
<1>2. PICK x : x = Addresses(data)
  OBVIOUS
<1>3. x \in Seq(Address \cup {Torn}) /\ Fits(x, N - 12)
  BY <1>1, <1>2, AddressesRoom DEF Fits
<1>4. PICK n \in Nat : n = Len(x) /\ DOMAIN x = 1 .. n
  BY <1>3
<1>5. \A i \in 1 .. n : x[i] # Torn
  BY <1>2, <1>4, Zenon DEF IanaIsMalformed
<1>6. x \in Seq(Address)
  <2> DEFINE S == Address \cup {Torn}
  <2>1. \A i \in 1 .. n : x[i] \in S
    <3> HIDE DEF S
    <3>1. x \in Seq(S)
      BY <1>3 DEF S
    <3> QED BY <1>4, <3>1
  <2>2. \A i \in 1 .. n : x[i] \in Address
    BY <1>5, <2>1
  <2>3. x = [i \in 1 .. n |-> x[i]]
    BY <1>3, <1>4
  <2> QED BY <2>2, <2>3
<1>7. 28 * n <= N - 12
  BY <1>3, <1>4, <1>5, Zenon DEF Fits
<1>8. PICK f : f = SubSeq(data, 1, 12)
  OBVIOUS
<1>9. f \in Bytes(12)
  <2>1. 1 \in Nat /\ 12 \in Nat /\ 1 <= 1 /\ 1 <= 12 + 1 /\ 12 - 1 + 1 = 12 /\ 12 <= Len(data)
    BY <1>1
  <2>2. IsSlice(f, Byte, data, 1, 12)
    BY <1>8, <2>1, Slice, Zenon
  <2>3. f \in Seq(Byte) /\ Len(f) = 12
    BY <2>1, <2>2, Zenon DEF IsSlice
  <2> QED BY <2>3 DEF Bytes
<1>10. PICK o : o = [kind |-> "IaNa", fixed |-> f, addrs |-> x]
  OBVIOUS
<1>11. DecodedIana(data) = o
  BY <1>2, <1>8, <1>10, Zenon DEF DecodedIana, IaNa
<1>12. o.kind = "IaNa" /\ o.addrs = x
  BY <1>10
<1>13. IsOption(o)
  <2>1. o \in [kind : {"IaNa"}, fixed : Bytes(12), addrs : Seq(Address)]
    BY <1>6, <1>9, <1>10
  <2>2. o.kind # "StatusCode"
    BY <1>12
  <2> QED BY <2>1, <2>2 DEF IsOption, Address
<1>14. PayloadLen(o) = 12 + n * 28
  BY <1>4, <1>12 DEF PayloadLen
<1>15. 12 + n * 28 <= N
  BY <1>1, <1>7
<1> QED BY <1>1, <1>11, <1>13, <1>14, <1>15, Zenon

LEMMA Sixteenths ==
  ASSUME NEW n \in Nat, n % 16 = 0
  PROVE  16 * (n \div 16) = n
  OBVIOUS

ServersIn(data, q) == [i \in 1 .. q |-> SubSeq(data, 16 * i - 15, 16 * i)]

AreServers(x, data, q) ==
  x \in Seq(Bytes(16)) /\ Len(x) = q /\ 16 * q = Len(data)

LEMMA DecodedServersAre ==
  ASSUME NEW data \in Seq(Byte), Len(data) % 16 = 0, NEW q \in Nat, q = Len(data) \div 16
  PROVE  AreServers(ServersIn(data, q), data, q)
<1>0. PICK x : x = ServersIn(data, q)
  OBVIOUS
<1>1. PICK N \in Nat : N = Len(data)
  OBVIOUS
<1>2. 16 * q = N
  BY <1>1, Sixteenths
<1>3. ASSUME NEW i \in 1 .. q PROVE SubSeq(data, 16 * i - 15, 16 * i) \in Bytes(16)
  <2>1. PICK m \in Nat, n \in Nat : m = 16 * i - 15 /\ n = 16 * i
    OBVIOUS
  <2>2. 1 <= m /\ m <= n + 1 /\ n <= Len(data) /\ n - m + 1 = 16
    BY <1>1, <1>2, <2>1
  <2>3. IsSlice(SubSeq(data, m, n), Byte, data, m, n)
    BY <2>2, Slice, Zenon
  <2>4. SubSeq(data, m, n) \in Seq(Byte) /\ Len(SubSeq(data, m, n)) = 16
    BY <2>2, <2>3, Zenon DEF IsSlice
  <2>5. SubSeq(data, m, n) \in Bytes(16)
    BY <2>4 DEF Bytes
  <2> QED BY <2>1, <2>5, Zenon
<1>4. x \in Seq(Bytes(16)) /\ Len(x) = q
  <2>1. \A i \in 1 .. q : x[i] \in Bytes(16)
    BY <1>0, <1>3 DEF ServersIn
  <2>2. x = [i \in 1 .. q |-> x[i]]
    BY <1>0 DEF ServersIn
  <2> QED BY <2>1, <2>2
<1> QED BY <1>0, <1>1, <1>2, <1>4 DEF AreServers

LEMMA TwoBytes ==
  ASSUME NEW a \in 0 .. 255, NEW b \in 0 .. 255
  PROVE  a * 256 + b \in 0 .. U16Max
<1>1. PICK n \in Int, m \in Int : n = a * 256 + b /\ m = 256 * 256 - 1
  OBVIOUS
<1>2. 0 <= n /\ n <= m
  BY <1>1
<1>3. U16Max = m
  BY <1>1 DEF U16Max
<1>4. n \in 0 .. m
  BY <1>2
<1> QED BY <1>1, <1>3, <1>4, Zenon

LEMMA DecodedIs ==
  ASSUME NEW code \in 0 .. U16Max, NEW data \in Seq(Byte), ~Malformed(code, data)
  PROVE  /\ IsOption(Decoded(code, data))
         /\ PayloadLen(Decoded(code, data)) <= Len(data)
<1> USE DEF OPT_CLIENTID, OPT_SERVERID, OPT_IA_NA, OPT_STATUS_CODE, OPT_DNS_SERVERS
<1>1. PICK N \in Nat : N = Len(data)
  OBVIOUS
<1>2. CASE code \in {OPT_CLIENTID, OPT_SERVERID}
  <2>1. PICK o : o = Decoded(code, data)
    OBVIOUS
  <2>2. o.kind \in {"ClientId", "ServerId"} /\ o.data = data
        /\ o \in [kind : {"ClientId", "ServerId"}, data : Seq(Byte)]
    BY <1>2, <2>1 DEF Decoded, ClientId, ServerId
  <2>3. IsOption(o)
    BY <2>2 DEF IsOption
  <2>4. PayloadLen(o) = N
    BY <1>1, <2>2 DEF PayloadLen
  <2> QED BY <1>1, <2>1, <2>3, <2>4
<1>3. CASE code = OPT_IA_NA
  <2>1. ~IanaIsMalformed(data)
    BY <1>3 DEF Malformed
  <2>2. Decoded(code, data) = DecodedIana(data)
    BY <1>3 DEF Decoded
  <2> QED BY <2>1, <2>2, DecodedIanaIs
<1>4. CASE code = OPT_DNS_SERVERS
  <2>1. N % 16 = 0
    BY <1>1, <1>4 DEF Malformed
  <2>2. PICK q \in Nat : q = N \div 16
    OBVIOUS
  <2>3. PICK x : x = [i \in 1 .. q |-> SubSeq(data, 16 * i - 15, 16 * i)]
    OBVIOUS
  <2>4. x \in Seq(Bytes(16)) /\ Len(x) = q /\ 16 * q = N
    <3>1. Len(data) % 16 = 0 /\ q = Len(data) \div 16
      BY <1>1, <2>1, <2>2, Zenon
    <3>2. x = ServersIn(data, q)
      BY <2>3, Zenon DEF ServersIn
    <3>3. AreServers(x, data, q)
      BY <3>1, <3>2, DecodedServersAre, Zenon
    <3> QED BY <1>1, <3>3, Zenon DEF AreServers
  <2>5. Decoded(code, data) = [kind |-> "DnsServers", addrs |-> x]
    BY <1>1, <1>4, <2>2, <2>3 DEF Decoded, DnsServers
  <2>6. PICK o : o = [kind |-> "DnsServers", addrs |-> x]
    OBVIOUS
  <2>7. o.kind = "DnsServers" /\ o.addrs = x /\ o \in [kind : {"DnsServers"}, addrs : Seq(Bytes(16))]
    BY <2>4, <2>6
  <2>8. IsOption(o)
    BY <2>7 DEF IsOption
  <2>9. PayloadLen(o) = q * 16
    BY <2>4, <2>7 DEF PayloadLen
  <2> QED BY <1>1, <2>4, <2>5, <2>6, <2>8, <2>9
<1>5. CASE code = OPT_STATUS_CODE
  <2>1. N >= 2 /\ SubSeq(data, 3, N) \in Text
    BY <1>1, <1>5 DEF Malformed
  <2>2. PICK m : m = SubSeq(data, 3, N)
    OBVIOUS
  <2>3. m \in Seq(Byte) /\ Len(m) = N - 2
    <3>1. 3 \in Nat /\ 1 <= 3 /\ 3 <= N + 1 /\ N <= Len(data) /\ N - 3 + 1 = N - 2
      BY <1>1, <2>1
    <3>2. IsSlice(m, Byte, data, 3, N)
      BY <2>2, <3>1, Slice, Zenon
    <3> QED BY <3>1, <3>2, Zenon DEF IsSlice
  <2>4. PICK a \in Byte, b \in Byte : a = data[1] /\ b = data[2]
    BY <1>1, <2>1
  <2>5. PICK c \in 0 .. U16Max : c = a * 256 + b
    <3>1. a * 256 + b \in 0 .. U16Max
      BY TwoBytes DEF Byte
    <3> QED BY <3>1
  <2>6. U16At(data, 0) = c
    <3>1. 0 + 1 = 1 /\ 0 + 2 = 2
      OBVIOUS
    <3> QED BY <2>4, <2>5, <3>1, Zenon DEF U16At
  <2>7. PICK o : o = [kind |-> "StatusCode", status |-> c, message |-> m]
    OBVIOUS
  <2>8. Decoded(code, data) = o
    <3>1. Decoded(code, data) = StatusCode(U16At(data, 0), SubSeq(data, 3, Len(data)))
      BY <1>5 DEF Decoded
    <3> QED BY <1>1, <2>2, <2>6, <2>7, <3>1, Zenon DEF StatusCode
  <2>9. /\ o.kind = "StatusCode" /\ o.message = m /\ o.message \in Text
        /\ o \in [kind : {"StatusCode"}, status : 0 .. U16Max, message : Seq(Byte)]
    BY <2>1, <2>2, <2>3, <2>7
  <2>10. IsOption(o)
    BY <2>9 DEF IsOption
  <2>11. PayloadLen(o) = 2 + Len(m)
    BY <2>9 DEF PayloadLen
  <2> QED BY <1>1, <2>1, <2>3, <2>8, <2>10, <2>11
<1>6. CASE code \notin {OPT_CLIENTID, OPT_SERVERID, OPT_IA_NA, OPT_DNS_SERVERS, OPT_STATUS_CODE}
  <2>1. PICK o : o = [kind |-> "Unrecognized", code |-> code, data |-> data]
    OBVIOUS
  <2>2. Decoded(code, data) = o
    BY <1>6, <2>1 DEF Decoded, Raw
  <2>3. /\ o.kind = "Unrecognized" /\ o.data = data
        /\ o \in [kind : {"Unrecognized"}, code : 0 .. U16Max, data : Seq(Byte)]
    BY <2>1
  <2>4. IsOption(o)
    BY <2>3 DEF IsOption
  <2>5. PayloadLen(o) = N
    BY <1>1, <2>3 DEF PayloadLen
  <2> QED BY <1>1, <2>2, <2>4, <2>5
<1> QED BY <1>2, <1>3, <1>4, <1>5, <1>6

-----------------------------------------------------------------------------
(* The invariant *)

\* What the reader makes of option n.
Accepted(n) == ~Malformed(CodeOf(Option(n)), Payload(Option(n)))
Read(n) == Decoded(CodeOf(Option(n)), Payload(Option(n)))

\* The first n options of the sender are read, and nothing else.
HasRead(n) ==
  /\ n \in 0 .. Len(Meant)
  /\ pos = EndOf(n) /\ pos <= Len(input)
  /\ options = [i \in 1 .. n |-> Read(i)]
  /\ \A i \in 1 .. n : Accepted(i)

\* And the one behind them is torn, or malformed.
Stuck(n) ==
  /\ n + 1 \in 1 .. Len(Meant)
  /\ EndOf(n + 1) > Len(input) \/ ~Accepted(n + 1)

NothingRead == pos = 0 /\ options = <<>>

BeforeSending ==
  /\ status \in {"writing", "unsent"}
  /\ input = <<>> /\ NothingRead
  /\ status = "unsent" => \E i \in 1 .. Len(Meant) : TooLarge(Option(i))

HeaderUnread(length) ==
  /\ status \in {"header", "refused"}
  /\ NothingRead
  /\ status = "refused" => length < 4 \/ message.msg_type \notin MsgType

HeaderRead(length) ==
  /\ status \in {"options", "decoded", "refused"}
  /\ length >= 4
  /\ \E n \in Nat :
       /\ HasRead(n)
       /\ status = "decoded" => pos = Len(input)
       /\ status = "refused" => Stuck(n)

CodecInv ==
  /\ message \in Sendable
  /\ \/ BeforeSending
     \/ \E length \in Nat : Arrived(length) /\ (HeaderUnread(length) \/ HeaderRead(length))

LEMMA AppendRead ==
  ASSUME NEW n \in Nat, options = [i \in 1 .. n |-> Read(i)]
  PROVE  Append(options, Read(n + 1)) = [i \in 1 .. n + 1 |-> Read(i)]
<1>1. PICK S : S = {Read(i) : i \in 1 .. n + 1}
  OBVIOUS
<1>2. PICK x : x = Read(n + 1)
  OBVIOUS
<1>3. options \in Seq(S) /\ Len(options) = n /\ x \in S
  BY <1>1, <1>2
<1>4. PICK v : v = Append(options, x)
  OBVIOUS
<1>5. v \in Seq(S) /\ Len(v) = n + 1 /\ v[n + 1] = x /\ \A i \in 1 .. n : v[i] = options[i]
  BY <1>3, <1>4, AppendProperties
<1>6. ASSUME NEW i \in 1 .. n + 1 PROVE v[i] = Read(i)
  <2>1. CASE i = n + 1
    BY <1>2, <1>5, <2>1
  <2>2. CASE i \in 1 .. n
    BY <1>5, <2>2
  <2> QED BY <2>1, <2>2
<1>7. v = [i \in 1 .. n + 1 |-> Read(i)]
  BY <1>5, <1>6
<1> QED BY <1>2, <1>4, <1>7, Zenon

\* What a step that keeps the message keeps.
LEMMA Kept ==
  ASSUME UNCHANGED message
  PROVE  /\ Len(Meant)' = Len(Meant)
         /\ \A n : /\ Option(n)' = Option(n) /\ EndOf(n)' = EndOf(n)
                   /\ Read(n)' = Read(n) /\ (Accepted(n)' <=> Accepted(n))
  BY DEF Meant, Option, EndOf, Read, Accepted

LEMMA ArrivedKept ==
  ASSUME UNCHANGED <<message, input>>, NEW length, Arrived(length)
  PROVE  Arrived(length)'
  BY DEF Arrived, Meant, Option

LEMMA ReadKept ==
  ASSUME UNCHANGED <<message, input, pos, options>>, NEW n
  PROVE  (HasRead(n) => HasRead(n)') /\ (Stuck(n) => Stuck(n)')
  BY Kept DEF HasRead, Stuck

LEMMA OptionRead ==
  ASSUME message \in Sendable, NEW length, Arrived(length), NEW n \in Nat, HasRead(n), DecodeOption
  PROVE  HasRead(n + 1)'
<1>1. PICK N \in Nat : N = Len(Meant)
  BY MessageOptions
<1>2. /\ n \in 0 .. N /\ pos = EndOf(n) /\ pos < Len(input) /\ pos <= Len(input)
      /\ options = [i \in 1 .. n |-> Read(i)]
      /\ \A i \in 1 .. n : Accepted(i)
      /\ FramedAt(input, pos) /\ ~Malformed(U16At(input, pos), BodyAt(input, pos))
      /\ options' = Append(options, Decoded(U16At(input, pos), BodyAt(input, pos)))
      /\ pos' = Behind(input, pos) /\ UNCHANGED <<message, input>>
  BY <1>1 DEF HasRead, DecodeOption, Readable
<1>3. PICK m \in 1 .. N : m = n + 1 /\ m - 1 = n
  <2>1. n # N
    BY <1>1, <1>2, InputBytes, Ends
  <2>2. n + 1 \in 1 .. N /\ n + 1 - 1 = n
    BY <1>1, <1>2, <2>1
  <2> QED BY <2>2
<1>4. /\ U16At(input, pos) = CodeOf(Option(m)) /\ BodyAt(input, pos) = Payload(Option(m))
      /\ Behind(input, pos) = EndOf(m) /\ EndOf(m) <= Len(input)
  BY <1>1, <1>2, <1>3, NextOption
<1>5. Accepted(m) /\ options' = Append(options, Read(m)) /\ pos' = EndOf(m)
  BY <1>2, <1>4, Zenon DEF Accepted, Read
<1>6. options' = [i \in 1 .. m |-> Read(i)]
  BY <1>2, <1>3, <1>5, AppendRead
<1>7. \A i \in 1 .. m : Accepted(i)
  <2>1. \A i \in 1 .. m : i = m \/ i \in 1 .. n
    BY <1>3
  <2> QED BY <1>2, <1>5, <2>1, Zenon
<1>8. m \in 0 .. N
  OBVIOUS
<1>9. HasRead(m)'
  BY <1>1, <1>2, <1>4, <1>5, <1>6, <1>7, <1>8, Kept DEF HasRead
<1> QED BY <1>3, <1>9

LEMMA StuckThere ==
  ASSUME message \in Sendable, NEW length, Arrived(length), NEW n \in Nat, HasRead(n),
         pos < Len(input), ~Readable
  PROVE  Stuck(n)
<1>1. PICK N \in Nat : N = Len(Meant)
  BY MessageOptions
<1>2. n \in 0 .. N /\ pos = EndOf(n) /\ pos <= Len(input)
  BY <1>1 DEF HasRead
<1>3. PICK m \in 1 .. N : m = n + 1 /\ m - 1 = n
  <2>1. n # N
    BY <1>1, <1>2, InputBytes, Ends
  <2>2. n + 1 \in 1 .. N /\ n + 1 - 1 = n
    BY <1>1, <1>2, <2>1
  <2> QED BY <2>2
<1>4. /\ FramedAt(input, pos) <=> EndOf(m) <= Len(input)
      /\ FramedAt(input, pos) =>
           U16At(input, pos) = CodeOf(Option(m)) /\ BodyAt(input, pos) = Payload(Option(m))
  BY <1>1, <1>2, <1>3, NextOption
<1>5. CASE ~FramedAt(input, pos)
  <2>1. EndOf(m) \in Nat /\ Len(input) \in Nat /\ ~(EndOf(m) <= Len(input))
    <3>1. m \in 0 .. N
      OBVIOUS
    <3> QED BY <1>1, <1>4, <1>5, <3>1, Ends, InputBytes
  <2> QED BY <1>1, <1>3, <2>1 DEF Stuck
<1>6. CASE FramedAt(input, pos)
  <2>1. ~Accepted(m)
    BY <1>4, <1>6 DEF Readable, Accepted
  <2> QED BY <1>1, <1>3, <2>1 DEF Stuck
<1> QED BY <1>5, <1>6

LEMMA CodecStep ==
  ASSUME CodecInv, [Next]_vars
  PROVE  CodecInv'
<1>1. message \in Sendable /\ UNCHANGED message
  BY DEF CodecInv, Next, vars, Refuse, Arrive, Header, BadHeader, DecodeOption, BadOption, Finish
<1>2. CASE Refuse
  <2>1. BeforeSending /\ status = "writing" /\ status' = "unsent" /\ UNCHANGED <<input, pos, options>>
    BY <1>2 DEF Refuse, CodecInv, HeaderUnread, HeaderRead
  <2>2. \E i \in 1 .. Len(Meant) : TooLarge(Option(i))
    BY <1>1, <1>2, MessageOptions DEF Refuse, Meant, Option
  <2>3. \E i \in 1 .. Len(Meant)' : TooLarge(Option(i)')
    BY <1>1, <2>2, Kept
  <2> QED BY <1>1, <2>1, <2>3 DEF CodecInv, BeforeSending, NothingRead
<1>3. CASE Arrive
  <2>1. BeforeSending /\ status' = "header" /\ UNCHANGED <<pos, options>>
    BY <1>3 DEF Arrive, CodecInv, HeaderUnread, HeaderRead
  <2>2. PICK length \in 0 .. Len(Written(message)) :
          input' = SubSeq(Written(message), 1, length)
    BY <1>3 DEF Arrive
  <2>3. \A i \in 1 .. Len(Meant) : ~TooLarge(Option(i))
    BY <1>1, <1>3, MessageOptions DEF Arrive, Meant, Option
  <2>4. Arrived(length)'
    BY <1>1, <2>2, <2>3 DEF Arrived, Meant, Option
  <2>5. HeaderUnread(length)'
    BY <2>1 DEF HeaderUnread, BeforeSending, NothingRead
  <2>6. length \in Nat
    <3>1. Len(Written(message)) \in Nat
      BY <1>1, MessageOptions, WrittenBytes DEF IsWritten
    <3> QED BY <3>1
  <2> QED BY <1>1, <2>4, <2>5, <2>6 DEF CodecInv
<1>4. ASSUME Header \/ BadHeader \/ DecodeOption \/ BadOption \/ Finish
      PROVE  \E length \in Nat :
               Arrived(length) /\ Arrived(length)' /\ (HeaderUnread(length) \/ HeaderRead(length))
  <2>1. UNCHANGED <<message, input>> /\ ~BeforeSending
    BY <1>4 DEF Header, BadHeader, DecodeOption, BadOption, Finish, BeforeSending
  <2> QED BY <2>1, ArrivedKept DEF CodecInv
<1>5. CASE Header
  <2>1. PICK length \in Nat : Arrived(length) /\ Arrived(length)' /\ HeaderUnread(length)
    BY <1>4, <1>5 DEF Header, HeaderRead
  <2>2. /\ Len(input) = length /\ length >= 4 /\ pos' = 4 /\ status' = "options"
        /\ UNCHANGED <<input, options>> /\ options = <<>>
    BY <1>1, <1>5, <2>1, InputBytes DEF Header, HeaderUnread, NothingRead
  <2>3. HasRead(0)'
    <3>1. EndOf(0)' = 4 /\ Len(Meant)' \in Nat
      BY <1>1, Kept, Ends, MessageOptions
    <3>2. 0 \in 0 .. Len(Meant)' /\ pos' <= Len(input')
      BY <2>2, <3>1
    <3>3. options' = [i \in 1 .. 0 |-> Read(i)']
      BY <2>2
    <3> QED BY <2>2, <3>1, <3>2, <3>3 DEF HasRead
  <2>4. HeaderRead(length)'
    BY <2>2, <2>3 DEF HeaderRead
  <2> QED BY <1>1, <2>1, <2>4 DEF CodecInv
<1>6. CASE BadHeader
  <2>1. PICK length \in Nat : Arrived(length) /\ Arrived(length)' /\ HeaderUnread(length)
    BY <1>4, <1>6 DEF BadHeader, HeaderRead
  <2>2. /\ Len(input) = length /\ status' = "refused" /\ UNCHANGED <<message, pos, options>>
        /\ ~(length >= 4 /\ input[1] \in MsgType)
    BY <1>1, <1>6, <2>1, InputBytes DEF BadHeader
  <2>3. length >= 4 => input[1] = message.msg_type
    BY <1>1, <2>1, HeaderIs DEF MessageType
  <2>4. HeaderUnread(length)'
    BY <2>1, <2>2, <2>3 DEF HeaderUnread, NothingRead
  <2> QED BY <1>1, <2>1, <2>4 DEF CodecInv
<1>7. CASE DecodeOption
  <2>1. PICK length \in Nat : Arrived(length) /\ Arrived(length)' /\ HeaderRead(length)
    BY <1>4, <1>7 DEF DecodeOption, HeaderUnread
  <2>2. PICK n \in Nat : HasRead(n)
    BY <2>1 DEF HeaderRead
  <2>3. HasRead(n + 1)' /\ n + 1 \in Nat
    BY <1>1, <1>7, <2>1, <2>2, OptionRead
  <2>4. status' = "options" /\ length >= 4
    BY <1>7, <2>1 DEF DecodeOption, HeaderRead
  <2>5. HeaderRead(length)'
    BY <2>3, <2>4 DEF HeaderRead
  <2> QED BY <1>1, <2>1, <2>5 DEF CodecInv
<1>8. CASE BadOption
  <2>1. PICK length \in Nat : Arrived(length) /\ Arrived(length)' /\ HeaderRead(length)
    BY <1>4, <1>8 DEF BadOption, HeaderUnread
  <2>2. PICK n \in Nat : HasRead(n)
    BY <2>1 DEF HeaderRead
  <2>3. Stuck(n)
    BY <1>1, <1>8, <2>1, <2>2, StuckThere DEF BadOption
  <2>4. HasRead(n)' /\ Stuck(n)'
    BY <1>8, <2>2, <2>3, ReadKept DEF BadOption
  <2>5. status' = "refused" /\ length >= 4
    BY <1>8, <2>1 DEF BadOption, HeaderRead
  <2>6. HeaderRead(length)'
    BY <2>4, <2>5 DEF HeaderRead
  <2> QED BY <1>1, <2>1, <2>6 DEF CodecInv
<1>9. CASE Finish
  <2>1. PICK length \in Nat : Arrived(length) /\ Arrived(length)' /\ HeaderRead(length)
    BY <1>4, <1>9 DEF Finish, HeaderUnread
  <2>2. PICK n \in Nat : HasRead(n)
    BY <2>1 DEF HeaderRead
  <2>3. HasRead(n)'
    BY <1>9, <2>2, ReadKept DEF Finish
  <2>4. status' = "decoded" /\ length >= 4 /\ pos' = Len(input')
    BY <1>9, <2>1 DEF Finish, HeaderRead
  <2>5. HeaderRead(length)'
    BY <2>3, <2>4 DEF HeaderRead
  <2> QED BY <1>1, <2>1, <2>5 DEF CodecInv
<1>10. CASE UNCHANGED vars
  <2>1. UNCHANGED <<message, input, pos, options>> /\ UNCHANGED status
    BY <1>10 DEF vars
  <2>2. BeforeSending => BeforeSending'
    BY <2>1, Kept DEF BeforeSending, NothingRead
  <2>3. \A length \in Nat : Arrived(length) => Arrived(length)'
    BY <2>1, ArrivedKept
  <2>4. \A length \in Nat : HeaderUnread(length) => HeaderUnread(length)'
    BY <2>1 DEF HeaderUnread, NothingRead
  <2>5. \A length \in Nat : HeaderRead(length) => HeaderRead(length)'
    BY <2>1, ReadKept DEF HeaderRead
  <2> QED BY <1>1, <2>2, <2>3, <2>4, <2>5 DEF CodecInv
<1> QED BY <1>2, <1>3, <1>5, <1>6, <1>7, <1>8, <1>9, <1>10 DEF Next

LEMMA CodecInvHolds == Spec => []CodecInv
<1>1. Init => CodecInv
  BY DEF Init, CodecInv, BeforeSending, NothingRead
<1>2. CodecInv /\ [Next]_vars => CodecInv'
  BY CodecStep
<1> QED BY <1>1, <1>2, PTL DEF Spec

\* Every option that was read took as many bytes as it would be written in,
\* or more, so that there is room for it in what arrived.
LEMMA ReadFits ==
  ASSUME message \in Sendable, NEW length, Arrived(length), NEW n, HasRead(n), NEW i \in 1 .. n
  PROVE  Len(Encoded(Read(i))) <= Len(input)
<1>1. PICK N \in Nat : N = Len(Meant)
  BY MessageOptions
<1>2. n \in 0 .. N /\ pos = EndOf(n) /\ pos <= Len(input) /\ Accepted(i) /\ i \in 1 .. N
  BY <1>1 DEF HasRead
<1>3. IsOption(Option(i))
  BY <1>1, <1>2, MessageOptions
<1>4. PICK d \in Seq(Byte), l \in Nat, c \in 0 .. U16Max :
        d = Payload(Option(i)) /\ l = Len(d) /\ c = CodeOf(Option(i))
  BY <1>3, PayloadBytes, CodeBytes
<1>5. PICK o : o = Read(i) /\ IsOption(o) /\ PayloadLen(o) <= l
  <2>1. ~Malformed(c, d)
    BY <1>2, <1>4, Zenon DEF Accepted
  <2>2. IsOption(Decoded(c, d)) /\ PayloadLen(Decoded(c, d)) <= Len(d)
    BY <2>1, DecodedIs
  <2> QED BY <1>4, <2>2, Zenon DEF Read
<1>6. PICK k \in Nat : k = PayloadLen(o) /\ Len(Encoded(o)) = 4 + k
  BY <1>5, PayloadBytes, EncodedBytes
<1>7. i \in 0 .. N /\ i - 1 \in 0 .. N /\ i <= n
  BY <1>1, <1>2
<1>8. PICK p \in Nat, q \in Nat : p = EndOf(i - 1) /\ q = EndOf(i) /\ q = p + 4 + l
  <2>1. EndOf(i) = EndOf(i - 1) + 4 + l
    BY <1>1, <1>2, <1>4, Ends, Zenon
  <2>2. EndOf(i) \in Nat /\ EndOf(i - 1) \in Nat
    BY <1>1, <1>7, Ends
  <2> QED BY <2>1, <2>2
<1>9. EndOf(i) <= EndOf(n)
  BY <1>1, <1>2, <1>7, Ends, Zenon
<1>10. EndOf(n) \in Nat /\ Len(input) \in Nat
  BY <1>1, <1>2, Ends, InputBytes
<1>11. k <= l
  BY <1>5, <1>6
<1>12. 4 + k <= Len(input)
  <2>1. q <= pos /\ pos <= Len(input) /\ pos \in Nat /\ Len(input) \in Nat /\ q = p + 4 + l
    BY <1>2, <1>8, <1>9, <1>10, Zenon
  <2> QED BY <1>11, <2>1
<1> QED BY <1>5, <1>6, <1>12, Zenon

\* Type correctness, whatever part of the message arrives: no byte behind the
\* input is read, and no option that is decoded is larger than it.
THEOREM Dhcpv6Types == Spec => []TypeOK
<1>1. CodecInv => TypeOK
  <2> SUFFICES ASSUME CodecInv PROVE TypeOK
    OBVIOUS
  <2>1. message \in Sendable
    BY DEF CodecInv
  <2>2. CASE BeforeSending
    BY <2>1, <2>2 DEF BeforeSending, NothingRead, TypeOK
  <2>3. CASE \E length \in Nat : Arrived(length) /\ HeaderUnread(length)
    BY <2>1, <2>3, InputBytes DEF HeaderUnread, NothingRead, TypeOK
  <2>4. CASE \E length \in Nat : Arrived(length) /\ HeaderRead(length)
    <3>1. PICK length \in Nat : Arrived(length) /\ HeaderRead(length)
      BY <2>4
    <3>2. PICK n \in Nat : HasRead(n)
      BY <3>1 DEF HeaderRead
    <3>3. \A i \in DOMAIN options : Len(Encoded(options[i])) <= Len(input)
      <4>1. ASSUME NEW i \in DOMAIN options PROVE Len(Encoded(options[i])) <= Len(input)
        <5>1. i \in 1 .. n /\ options[i] = Read(i)
          BY <3>2 DEF HasRead
        <5>2. Len(Encoded(Read(i))) <= Len(input)
          BY <2>1, <3>1, <3>2, <5>1, ReadFits
        <5> QED BY <5>1, <5>2
      <4> QED BY <4>1
    <3>4. pos \in 0 .. Len(input)
      BY <2>1, <3>1, <3>2, Ends, InputBytes DEF HasRead
    <3> QED BY <2>1, <3>1, <3>3, <3>4, InputBytes DEF HeaderRead, TypeOK
  <2> QED BY <2>2, <2>3, <2>4 DEF CodecInv
<1> QED BY <1>1, CodecInvHolds, PTL

-----------------------------------------------------------------------------
(* What is read, in the sender's terms *)

\* An option means what the decoder makes of its bytes.
MeaningsAgree ==
  \A m \in Sendable : \A i \in DOMAIN m.options :
    m.options[i].means =
      LET o == m.options[i].written
      IN  IF Malformed(CodeOf(o), Payload(o)) THEN Torn ELSE Decoded(CodeOf(o), Payload(o))

LEMMA MeaningOf ==
  ASSUME MeaningsAgree, message \in Sendable, NEW i \in 1 .. Len(Meant)
  PROVE  message.options[i].means = IF Accepted(i) THEN Read(i) ELSE Torn
<1>1. i \in DOMAIN message.options
  BY MessageOptions DEF Meant
<1> QED BY <1>1 DEF MeaningsAgree, Accepted, Read, Option

\* A message that is decoded, wherever it was cut, is the sender's up to the
\* end of some option; a torn or malformed option leaves nothing of it.
THEOREM NothingTornIsDecoded ==
  ASSUME MeaningsAgree
  PROVE  Spec => []AllOrNothing
<1>1. CodecInv => AllOrNothing
  <2> SUFFICES ASSUME CodecInv, status = "decoded" PROVE
        /\ MessageType = message.msg_type
        /\ TransactionId = message.transaction_id % (256 * 256 * 256)
        /\ Len(input) = EndOf(Len(options))
        /\ options = [i \in DOMAIN options |-> message.options[i].means]
    BY Zenon DEF AllOrNothing
  <2>1. message \in Sendable
    BY DEF CodecInv
  <2>2. PICK length \in Nat : Arrived(length) /\ HeaderRead(length)
    BY DEF CodecInv, BeforeSending, HeaderUnread
  <2>3. length >= 4
    BY <2>2 DEF HeaderRead
  <2>4. /\ MessageType = message.msg_type
        /\ TransactionId = message.transaction_id % (256 * 256 * 256)
    BY <2>1, <2>2, <2>3, HeaderIs, Zenon
  <2>5. PICK n \in Nat : HasRead(n) /\ pos = Len(input)
    BY <2>2 DEF HeaderRead
  <2>6. DOMAIN options = 1 .. n /\ Len(options) = n /\ \A i \in 1 .. n : options[i] = Read(i)
    <3>1. options = [i \in 1 .. n |-> Read(i)]
      BY <2>5 DEF HasRead
    <3> QED BY <3>1
  <2>7. Len(input) = EndOf(Len(options))
    BY <2>5, <2>6, Zenon DEF HasRead
  <2>8. ASSUME NEW i \in 1 .. n PROVE options[i] = message.options[i].means
    <3>1. i \in 1 .. Len(Meant) /\ Accepted(i)
      BY <2>1, <2>5, MessageOptions DEF HasRead
    <3> QED BY <2>1, <2>6, <3>1, MeaningOf
  <2>9. options = [i \in DOMAIN options |-> message.options[i].means]
    <3>1. options = [i \in 1 .. n |-> Read(i)]
      BY <2>5 DEF HasRead
    <3> QED BY <2>6, <2>8, <3>1
  <2> QED BY <2>4, <2>7, <2>9, Zenon
<1> QED BY <1>1, CodecInvHolds, PTL

\* A message that comes whole is refused for its type or for an option that
\* means nothing, and one that is not sent had an option too large.
THEOREM WholeMessagesAreDecoded ==
  ASSUME MeaningsAgree
  PROVE  Spec => []WholeIsDecoded
<1>1. CodecInv => WholeIsDecoded
  <2> SUFFICES ASSUME CodecInv PROVE WholeIsDecoded
    OBVIOUS
  <2>1. message \in Sendable
    BY DEF CodecInv
  <2>2. PICK N \in Nat : N = Len(Meant) /\ N = Len(message.options) /\ DOMAIN message.options = 1 .. N
    BY <2>1, MessageOptions DEF Meant
  <2>3. ASSUME status = "refused", Len(input) = EndOf(N)
        PROVE  \/ message.msg_type \notin MsgType
               \/ \E i \in DOMAIN message.options : message.options[i].means = Torn
    <3>1. PICK length \in Nat : Arrived(length) /\ (HeaderUnread(length) \/ HeaderRead(length))
      BY <2>3 DEF CodecInv, BeforeSending
    <3>2. CASE HeaderUnread(length)
      <4>1. N \in 0 .. N
        OBVIOUS
      <4>2. length \in Nat /\ Len(input) = length /\ EndOf(N) \in Nat /\ EndOf(N) >= 4
        BY <2>1, <2>2, <3>1, <4>1, InputBytes, Ends
      <4> QED BY <2>3, <3>2, <4>2 DEF HeaderUnread
    <3>3. CASE HeaderRead(length)
      <4>1. PICK n \in Nat : HasRead(n) /\ Stuck(n)
        BY <2>3, <3>3 DEF HeaderRead
      <4>2. PICK m \in 1 .. N : m = n + 1
        BY <2>2, <4>1 DEF Stuck
      <4>3. EndOf(m) <= EndOf(N) /\ EndOf(m) \in Nat /\ EndOf(N) \in Nat
        <5>1. m \in 0 .. N /\ N \in 0 .. N /\ m <= N
          OBVIOUS
        <5> QED BY <2>1, <2>2, <5>1, Ends
      <4>4. ~Accepted(m)
        BY <2>3, <4>1, <4>2, <4>3 DEF Stuck
      <4>5. message.options[m].means = Torn
        BY <2>1, <2>2, <4>4, MeaningOf
      <4> QED BY <2>2, <4>5
    <3> QED BY <3>1, <3>2, <3>3
  <2>4. ASSUME status = "unsent"
        PROVE  \E i \in DOMAIN message.options : Len(Payload(message.options[i].written)) > MaxPayload
    <3>1. PICK i \in 1 .. N : TooLarge(Option(i))
      BY <2>2, <2>4 DEF CodecInv, BeforeSending, HeaderUnread, HeaderRead
    <3>2. Len(Payload(Option(i))) = PayloadLen(Option(i))
      BY <2>1, <2>2, MessageOptions, PayloadBytes
    <3> QED BY <2>2, <3>1, <3>2 DEF TooLarge, Option
  <2> QED BY <2>2, <2>3, <2>4 DEF WholeIsDecoded
<1> QED BY <1>1, CodecInvHolds, PTL

-----------------------------------------------------------------------------
(* The program's own options come back as they were *)

Recognised == {OPT_CLIENTID, OPT_SERVERID, OPT_IA_NA, OPT_STATUS_CODE, OPT_DNS_SERVERS}

ReadsBack(o) ==
  ~Malformed(CodeOf(o), Payload(o)) /\ Decoded(CodeOf(o), Payload(o)) = o

LEMMA StatusDecodes ==
  ASSUME NEW d, Len(d) \in Nat, Len(d) >= 2, NEW m, m = SubSeq(d, 3, Len(d)), m \in Text
  PROVE  /\ ~Malformed(OPT_STATUS_CODE, d)
         /\ Decoded(OPT_STATUS_CODE, d) = StatusCode(U16At(d, 0), m)
<1> USE DEF OPT_CLIENTID, OPT_SERVERID, OPT_IA_NA, OPT_STATUS_CODE, OPT_DNS_SERVERS
<1>1. Malformed(OPT_STATUS_CODE, d) <=> (Len(d) < 2 \/ SubSeq(d, 3, Len(d)) \notin Text)
  BY DEF Malformed
<1>2. Decoded(OPT_STATUS_CODE, d) = StatusCode(U16At(d, 0), SubSeq(d, 3, Len(d)))
  BY DEF Decoded
<1> QED BY <1>1, <1>2

LEMMA StatusReadsBack ==
  ASSUME NEW o, o \in [kind : {"StatusCode"}, status : 0 .. U16Max, message : Seq(Byte)],
         o.message \in Text
  PROVE  ReadsBack(o)
<1>1. PICK c \in Nat, m \in Seq(Byte) :
        /\ c = o.status /\ c \in 0 .. U16Max /\ m = o.message /\ m \in Text
        /\ o = [kind |-> "StatusCode", status |-> c, message |-> m]
  BY LargestPayload
<1>2. PICK u \in Seq(Byte) : u = U16(c) /\ Len(u) = 2 /\ u[1] * 256 + u[2] = c
  BY <1>1, U16Bytes
<1>3. PICK n \in Nat : n = Len(m)
  OBVIOUS
<1>4. PICK d : d = u \o m
  OBVIOUS
<1>5. /\ d \in Seq(Byte) /\ Len(d) = 2 + n
      /\ \A i \in 1 .. 2 : d[i] = u[i]
      /\ \A i \in 1 .. n : d[2 + i] = m[i]
  <2>1. 2 \in Nat
    OBVIOUS
  <2>2. Joins(Byte, d, u, 2, m, n)
    BY <1>2, <1>3, <1>4, <2>1, Joined, Zenon
  <2> QED BY <2>2, Zenon DEF Joins
<1>6. o.kind = "StatusCode"
  BY <1>1
<1>7. CodeOf(o) = OPT_STATUS_CODE /\ Payload(o) = d
  BY <1>1, <1>2, <1>4, <1>6 DEF CodeOf, Payload
<1>8. SubSeq(d, 3, Len(d)) = m
  <2>1. IsCut(d, 2, n, m)
    <3>1. 2 \in Nat
      OBVIOUS
    <3> QED BY <1>3, <1>5, <3>1, Cut, Zenon
  <2>2. 2 + 1 = 3
    OBVIOUS
  <2> QED BY <1>5, <2>1, <2>2, Zenon DEF IsCut
<1>9. U16At(d, 0) = c
  <2>1. 0 + 1 = 1 /\ 0 + 2 = 2 /\ 1 \in 1 .. 2 /\ 2 \in 1 .. 2
    OBVIOUS
  <2>2. d[1] = u[1] /\ d[2] = u[2]
    BY <1>5, <2>1, Zenon
  <2>3. U16At(d, 0) = d[1] * 256 + d[2]
    BY <2>1, Zenon DEF U16At
  <2> QED BY <1>2, <2>2, <2>3, Zenon
<1>10. Len(d) >= 2 /\ Len(d) \in Nat
  BY <1>5
<1>11. ~Malformed(OPT_STATUS_CODE, d) /\ Decoded(OPT_STATUS_CODE, d) = StatusCode(c, m)
  <2>1. /\ ~Malformed(OPT_STATUS_CODE, d)
        /\ Decoded(OPT_STATUS_CODE, d) = StatusCode(U16At(d, 0), m)
    BY <1>1, <1>8, <1>10, StatusDecodes
  <2> QED BY <1>9, <2>1, Zenon
<1>12. StatusCode(c, m) = o
  BY <1>1 DEF StatusCode
<1> QED BY <1>7, <1>11, <1>12, Zenon DEF ReadsBack

LEMMA ServersReadBack ==
  ASSUME NEW o, o \in [kind : {"DnsServers"}, addrs : Seq(Bytes(16))]
  PROVE  ReadsBack(o)
<1>1. PICK x \in Seq(Bytes(16)) : x = o.addrs /\ o = [kind |-> "DnsServers", addrs |-> x]
  OBVIOUS
<1>2. o.kind = "DnsServers"
  OBVIOUS
<1>3. PICK d \in Seq(Byte), n \in Nat : d = FlattenSeq(x) /\ n = Len(x) /\ Len(d) = 16 * n
  BY ServerList
<1>4. CodeOf(o) = OPT_DNS_SERVERS /\ Payload(o) = d
  BY <1>1, <1>2, <1>3 DEF CodeOf, Payload
<1>5. (16 * n) % 16 = 0 /\ (16 * n) \div 16 = n
  OBVIOUS
<1>6. ASSUME NEW i \in 1 .. n PROVE SubSeq(d, 16 * i - 15, 16 * i) = x[i]
  <2>1. PICK a \in Seq(Byte) : a = x[i] /\ Len(a) = 16
    BY <1>3 DEF Bytes
  <2>2. PICK q \in Nat : q = 16 * (i - 1) /\ q + 1 = 16 * i - 15 /\ q + 16 = 16 * i
    <3>1. 16 * (i - 1) \in Nat /\ 16 * (i - 1) + 1 = 16 * i - 15 /\ 16 * (i - 1) + 16 = 16 * i
      OBVIOUS
    <3> QED BY <3>1
  <2>3. Offset(x, i - 1) = q
    <3>1. i - 1 \in 0 .. Len(x)
      BY <1>3
    <3> QED BY <2>2, <3>1, ServerList
  <2>4. ASSUME NEW k \in 1 .. 16 PROVE d[q + k] = a[k]
    <3>1. x \in Lists(Byte) /\ i \in 1 .. Len(x) /\ k \in 1 .. Len(x[i])
      BY <1>3, <2>1, ServerList
    <3>2. FlattenSeq(x)[Offset(x, i - 1) + k] = x[i][k]
      BY <3>1, FlattenAt
    <3> QED BY <1>3, <2>1, <2>3, <3>2, Zenon
  <2>5. IsCut(d, q, 16, a)
    <3>1. 16 \in Nat
      OBVIOUS
    <3> QED BY <2>1, <2>4, <3>1, Cut, Zenon
  <2> QED BY <2>1, <2>2, <2>5, Zenon DEF IsCut
<1>7. PICK y : y = [i \in 1 .. n |-> SubSeq(d, 16 * i - 15, 16 * i)]
  OBVIOUS
<1>8. y = x
  BY <1>3, <1>6, <1>7
<1> USE DEF OPT_CLIENTID, OPT_SERVERID, OPT_IA_NA, OPT_STATUS_CODE, OPT_DNS_SERVERS
<1>9. ~Malformed(OPT_DNS_SERVERS, d)
  BY <1>3, <1>5 DEF Malformed
<1>10. Decoded(OPT_DNS_SERVERS, d) = DnsServers(y)
  <2>1. Len(d) \div 16 = n
    BY <1>3, <1>5
  <2>2. Decoded(OPT_DNS_SERVERS, d)
          = DnsServers([i \in 1 .. Len(d) \div 16 |-> SubSeq(d, 16 * i - 15, 16 * i)])
    BY DEF Decoded
  <2> QED BY <1>7, <2>1, <2>2, Zenon
<1> QED BY <1>1, <1>4, <1>8, <1>9, <1>10, Zenon DEF ReadsBack, DnsServers

\* The 28 bytes of w, behind p bytes of data.
StandsAt(data, p, w) == \A i \in 1 .. 28 : data[p + i] = w[i]

\* One address, at p.
LEMMA AddressAt ==
  ASSUME NEW data, NEW p \in Nat, NEW a \in Address, Len(data) \in Nat, p + 28 <= Len(data),
         StandsAt(data, p, AddressOption(a))
  PROVE  /\ FramedAt(data, p) /\ IsAddress(data, p) /\ ~TooShort(data, p)
         /\ Behind(data, p) = p + 28 /\ AddressIn(BodyAt(data, p)) = a
<1>1. PICK w : w = AddressOption(a)
  OBVIOUS
<1>2. /\ U16At(w, 0) = OPT_IAADDR /\ U16At(w, 2) = 24
      /\ \A i \in 1 .. 16 : w[4 + i] = a.addr[i]
      /\ \A i \in 1 .. 8 : w[20 + i] = a.lifetimes[i]
  BY <1>1, AddressOptionBytes DEF Address
<1>3. PICK x \in Seq(Byte), y \in Seq(Byte) :
        /\ x = a.addr /\ y = a.lifetimes /\ Len(x) = 16 /\ Len(y) = 8
        /\ a = [addr |-> x, lifetimes |-> y]
  BY DEF Address, Bytes
<1>4. \A i \in 1 .. 28 : data[p + i] = w[i]
  BY <1>1, Zenon DEF StandsAt
<1>5. U16At(data, p) = OPT_IAADDR /\ LengthAt(data, p) = 24
  <2>0. /\ 1 \in 1 .. 28 /\ 2 \in 1 .. 28 /\ 3 \in 1 .. 28 /\ 4 \in 1 .. 28
        /\ 0 + 1 = 1 /\ 0 + 2 = 2 /\ 2 + 1 = 3 /\ 2 + 2 = 4
        /\ p + 2 + 1 = p + 3 /\ p + 2 + 2 = p + 4
    OBVIOUS
  <2>1. /\ data[p + 1] = w[1] /\ data[p + 2] = w[2] /\ data[p + 3] = w[3] /\ data[p + 4] = w[4]
    BY <1>4, <2>0, Zenon
  <2>2. U16At(data, p) = U16At(w, 0) /\ U16At(data, p + 2) = U16At(w, 2)
    <3>1. U16At(data, p) = w[1] * 256 + w[2] /\ U16At(data, p + 2) = w[3] * 256 + w[4]
      BY <2>0, <2>1, Zenon DEF U16At
    <3>2. U16At(w, 0) = w[1] * 256 + w[2] /\ U16At(w, 2) = w[3] * 256 + w[4]
      BY <2>0, Zenon DEF U16At
    <3> QED BY <3>1, <3>2, Zenon
  <2> QED BY <1>2, <2>2, Zenon DEF LengthAt
<1>6. PICK q \in Nat : q = p + 4
  OBVIOUS
<1>7. PICK b : b = SubSeq(data, p + 5, p + 28)
  OBVIOUS
<1>8. \A i \in 1 .. 24 : b[i] = data[q + i]
  <2>1. PICK S : S = {data[i] : i \in p + 5 .. p + 28}
    OBVIOUS
  <2>2. \A i \in p + 5 .. p + 28 : data[i] \in S
    BY <2>1
  <2>3. p + 5 \in Int /\ p + 28 \in Int
    OBVIOUS
  <2>4. \A i \in 1 .. p + 28 - (p + 5) + 1 : b[i] = data[p + 5 + i - 1]
    BY <1>7, <2>2, <2>3, SubSeqProperties
  <2>5. ASSUME NEW i \in 1 .. 24 PROVE b[i] = data[q + i]
    <3>1. i \in 1 .. p + 28 - (p + 5) + 1 /\ p + 5 + i - 1 = q + i
      BY <1>6
    <3> QED BY <2>4, <3>1, Zenon
  <2> QED BY <2>5
<1>9. BodyAt(data, p) = b
  <2>1. p + 4 + 24 = p + 28
    OBVIOUS
  <2> QED BY <1>5, <1>7, <2>1, Zenon DEF BodyAt
<1>10. ASSUME NEW i \in 1 .. 16 PROVE b[0 + i] = x[i]
  <2>1. 0 + i = i /\ i \in 1 .. 24 /\ 4 + i \in 1 .. 28 /\ q + i = p + (4 + i)
    BY <1>6
  <2>2. b[0 + i] = data[q + i]
    BY <1>8, <2>1, Zenon
  <2>3. data[p + (4 + i)] = w[4 + i]
    BY <1>4, <2>1, Zenon
  <2>4. w[4 + i] = x[i]
    BY <1>2, <1>3, Zenon
  <2> QED BY <2>1, <2>2, <2>3, <2>4, Zenon
<1>11. ASSUME NEW i \in 1 .. 8 PROVE b[16 + i] = y[i]
  <2>1. 16 + i \in 1 .. 24 /\ 20 + i \in 1 .. 28 /\ q + (16 + i) = p + (20 + i)
    BY <1>6
  <2>2. b[16 + i] = data[q + (16 + i)]
    BY <1>8, <2>1, Zenon
  <2>3. data[p + (20 + i)] = w[20 + i]
    BY <1>4, <2>1, Zenon
  <2>4. w[20 + i] = y[i]
    BY <1>2, <1>3, Zenon
  <2> QED BY <2>1, <2>2, <2>3, <2>4, Zenon
<1>12. SubSeq(b, 1, 16) = x
  <2>1. 0 \in Nat /\ 16 \in Nat /\ 0 + 1 = 1 /\ 0 + 16 = 16
    OBVIOUS
  <2>2. IsCut(b, 0, 16, x)
    BY <1>3, <1>10, <2>1, Cut, Zenon
  <2> QED BY <2>1, <2>2, Zenon DEF IsCut
<1>13. SubSeq(b, 17, 24) = y
  <2>1. 8 \in Nat /\ 16 \in Nat /\ 16 + 1 = 17 /\ 16 + 8 = 24
    OBVIOUS
  <2>2. IsCut(b, 16, 8, y)
    BY <1>3, <1>11, <2>1, Cut, Zenon
  <2> QED BY <2>1, <2>2, Zenon DEF IsCut
<1>14. AddressIn(b) = a
  BY <1>3, <1>12, <1>13, Zenon DEF AddressIn, IaAddr
<1>15. FramedAt(data, p) /\ ~TooShort(data, p)
  <2>1. Len(data) - p >= 4 /\ Len(data) - p - 4 >= 24 /\ ~(24 < 24)
    OBVIOUS
  <2> QED BY <1>5, <2>1, Zenon DEF FramedAt, TooShort
<1>16. Behind(data, p) = p + 28
  <2>1. p + 4 + 24 = p + 28
    OBVIOUS
  <2> QED BY <1>5, <2>1, Zenon DEF Behind
<1> QED BY <1>5, <1>9, <1>14, <1>15, <1>16, Zenon DEF IsAddress

LEMMA Twelve ==
  ASSUME NEW n \in Nat, NEW m \in 1 .. n
  PROVE  /\ 12 + 28 * (n - m) \in Nat /\ 12 + 28 * (n - m) + 28 = 12 + 28 * (n - (m - 1))
         /\ 12 + 28 * (n - m) + 28 <= 12 + 28 * n
  OBVIOUS

\* The fixed bytes of an IA_NA and its addresses.
IsIana(d, fixed, addrs, n) ==
  /\ d \in Seq(Byte) /\ Len(d) = 12 + 28 * n /\ SubSeq(d, 1, 12) = fixed
  /\ \A j \in 1 .. n : StandsAt(d, 12 + 28 * (j - 1), AddressOption(addrs[j]))

LEMMA IanaBytes ==
  ASSUME NEW fixed \in Bytes(12), NEW addrs \in Seq(Address), NEW n \in Nat, n = Len(addrs),
         NEW d, d = fixed \o FlattenSeq(AddressOptions(addrs))
  PROVE  IsIana(d, fixed, addrs, n)
<1>1. PICK W : W = AddressOptions(addrs)
  OBVIOUS
<1>2. /\ W \in Lists(Byte) /\ Len(W) = n
      /\ \A j \in 1 .. n : W[j] = AddressOption(addrs[j])
      /\ FlattenSeq(W) \in Seq(Byte) /\ Len(FlattenSeq(W)) = 28 * n
      /\ \A j \in 0 .. n : Offset(W, j) = 28 * j
  BY <1>1, AddressList, Zenon DEF Address
<1>3. PICK F \in Seq(Byte), l \in Nat : F = FlattenSeq(W) /\ Len(F) = l /\ l = 28 * n
  <2>1. 28 * n \in Nat
    OBVIOUS
  <2>2. FlattenSeq(W) \in Seq(Byte) /\ Len(FlattenSeq(W)) = 28 * n
    BY <1>2, Zenon
  <2> QED BY <2>1, <2>2, Zenon
<1>4. PICK h \in Seq(Byte) : h = fixed /\ Len(h) = 12
  BY DEF Bytes
<1>5. /\ d \in Seq(Byte) /\ Len(d) = 12 + l
      /\ \A i \in 1 .. 12 : d[i] = h[i]
      /\ \A i \in 1 .. l : d[12 + i] = F[i]
  <2>1. 12 \in Nat
    OBVIOUS
  <2>2. d = h \o F
    BY <1>1, <1>3, <1>4, Zenon
  <2>3. Joins(Byte, d, h, 12, F, l)
    BY <1>3, <1>4, <2>1, <2>2, Joined, Zenon
  <2> QED BY <2>3, Zenon DEF Joins
<1>6. SubSeq(d, 1, 12) = h
  <2>1. 0 \in Nat /\ 12 \in Nat /\ 0 + 1 = 1 /\ 0 + 12 = 12 /\ \A i \in 1 .. 12 : 0 + i = i
    OBVIOUS
  <2>2. \A i \in 1 .. 12 : d[0 + i] = h[i]
    BY <1>5, <2>1, Zenon
  <2>3. IsCut(d, 0, 12, h)
    BY <1>4, <2>1, <2>2, Cut, Zenon
  <2> QED BY <2>1, <2>3, Zenon DEF IsCut
<1>7. ASSUME NEW j \in 1 .. n PROVE StandsAt(d, 12 + 28 * (j - 1), AddressOption(addrs[j]))
  <2>1. PICK p \in Nat : p = 28 * (j - 1) /\ p + 28 <= l
    <3>1. 28 * (j - 1) \in Nat /\ 28 * (j - 1) + 28 <= 28 * n
      OBVIOUS
    <3> QED BY <1>3, <3>1
  <2>2. Offset(W, j - 1) = p
    <3>1. j - 1 \in 0 .. n
      OBVIOUS
    <3> QED BY <1>2, <2>1, <3>1, Zenon
  <2>3. PICK w \in Seq(Byte) : w = AddressOption(addrs[j]) /\ w = W[j] /\ Len(w) = 28
    <3>1. addrs[j] \in Address
      OBVIOUS
    <3>2. AddressOption(addrs[j]) \in Seq(Byte) /\ Len(AddressOption(addrs[j])) = 28
      BY <3>1, AddressOptionBytes DEF Address
    <3> QED BY <1>2, <3>2
  <2>4. ASSUME NEW i \in 1 .. 28 PROVE d[12 + p + i] = w[i]
    <3>1. W \in Lists(Byte) /\ j \in 1 .. Len(W) /\ i \in 1 .. Len(W[j])
      BY <1>2, <2>3
    <3>2. FlattenSeq(W)[Offset(W, j - 1) + i] = W[j][i]
      BY <3>1, FlattenAt
    <3>3. p + i \in 1 .. l /\ 12 + (p + i) = 12 + p + i
      BY <2>1
    <3>4. F[p + i] = w[i]
      BY <1>3, <2>2, <2>3, <3>2, Zenon
    <3>5. d[12 + (p + i)] = F[p + i]
      BY <1>5, <3>3, Zenon
    <3> QED BY <3>3, <3>4, <3>5, Zenon
  <2> QED BY <2>1, <2>3, <2>4, Zenon DEF StandsAt
<1> QED BY <1>3, <1>4, <1>5, <1>6, <1>7, Zenon DEF IsIana

\* The last m of x.
LastOnes(x, n, m) == [i \in 1 .. m |-> x[n - m + i]]

LEMMA LastGrows ==
  ASSUME NEW S, NEW x \in Seq(S), NEW n \in Nat, n = Len(x), NEW m \in 1 .. n
  PROVE  <<x[n - m + 1]>> \o LastOnes(x, n, m - 1) = LastOnes(x, n, m)
<1>1. PICK a \in S : a = x[n - m + 1]
  <2>1. n - m + 1 \in 1 .. Len(x)
    OBVIOUS
  <2> QED BY <2>1
<1>2. PICK h : h = <<a>>
  OBVIOUS
<1>3. h \in Seq(S) /\ Len(h) = 1 /\ h[1] = a
  BY <1>2
<1>4. PICK k \in Nat : k = m - 1
  OBVIOUS
<1>5. PICK t : t = [i \in 1 .. k |-> x[n - k + i]]
  OBVIOUS
<1>6. t \in Seq(S) /\ Len(t) = k
  <2>1. \A i \in 1 .. k : x[n - k + i] \in S
    <3>1. \A i \in 1 .. k : n - k + i \in 1 .. Len(x)
      BY <1>4
    <3> QED BY <3>1
  <2> QED BY <1>5, <2>1
<1>7. PICK w : w = h \o t
  OBVIOUS
<1>8. /\ w \in Seq(S) /\ Len(w) = 1 + k
      /\ \A i \in 1 .. 1 : w[i] = h[i]
      /\ \A i \in 1 .. k : w[1 + i] = t[i]
  <2>1. 1 \in Nat
    OBVIOUS
  <2>2. Joins(S, w, h, 1, t, k)
    BY <1>3, <1>6, <1>7, <2>1, Joined, Zenon
  <2> QED BY <2>2, Zenon DEF Joins
<1>9. ASSUME NEW i \in 1 .. m PROVE w[i] = x[n - m + i]
  <2>1. CASE i = 1
    BY <1>1, <1>3, <1>8, <2>1
  <2>2. CASE i # 1
    <3>1. PICK j \in 1 .. k : i = 1 + j /\ n - k + j = n - m + i
      <4>1. i - 1 \in 1 .. k /\ i = 1 + (i - 1) /\ n - k + (i - 1) = n - m + i
        BY <1>4, <2>2
      <4> QED BY <4>1
    <3>2. w[1 + j] = t[j] /\ t[j] = x[n - k + j]
      BY <1>5, <1>8
    <3> QED BY <3>1, <3>2, Zenon
  <2> QED BY <2>1, <2>2
<1>10. w = [i \in 1 .. m |-> x[n - m + i]]
  <2>1. DOMAIN w = 1 .. m
    BY <1>4, <1>8
  <2>2. w = [i \in DOMAIN w |-> w[i]]
    BY <1>8
  <2> QED BY <1>9, <2>1, <2>2
<1> QED BY <1>1, <1>2, <1>4, <1>5, <1>7, <1>10, Zenon DEF LastOnes

LEMMA AddressesBack ==
  ASSUME NEW fixed \in Bytes(12), NEW addrs \in Seq(Address),
         NEW d, d = fixed \o FlattenSeq(AddressOptions(addrs))
  PROVE  Addresses(d) = addrs
<1>1. PICK n \in Nat : n = Len(addrs)
  OBVIOUS
<1>2. /\ d \in Seq(Byte) /\ Len(d) = 12 + 28 * n
      /\ \A j \in 1 .. n : StandsAt(d, 12 + 28 * (j - 1), AddressOption(addrs[j]))
  <2>1. IsIana(d, fixed, addrs, n)
    BY <1>1, IanaBytes, Zenon
  <2> QED BY <2>1, Zenon DEF IsIana
<1>3. PICK N \in Nat : N = Len(d) /\ N = 12 + 28 * n /\ N >= 12
  BY <1>2
<1>4. PICK f : IsAddressFcn(f, d, 12) /\ Addresses(d) = f[12]
  BY <1>2, <1>3, AddressFcn
<1>5. \A p \in 12 .. N : f[p] = AddressesFrom(f, d, p)
  BY <1>3, <1>4 DEF IsAddressFcn
<1> DEFINE P(m) == f[12 + 28 * (n - m)] = LastOnes(addrs, n, m)
<1>6. P(0)
  <2>1. 12 + 28 * (n - 0) = N /\ N \in 12 .. N
    BY <1>3
  <2>2. f[N] = <<>>
    BY <1>3, <1>5, <2>1, Zenon DEF AddressesFrom
  <2>3. LastOnes(addrs, n, 0) = <<>>
    BY DEF LastOnes
  <2> QED BY <2>1, <2>2, <2>3, Zenon
<1>7. ASSUME NEW m \in 1 .. n, P(m - 1) PROVE P(m)
  <2>1. PICK p \in Nat : p = 12 + 28 * (n - m) /\ p + 28 = 12 + 28 * (n - (m - 1)) /\ p + 28 <= N
    <3>1. /\ 12 + 28 * (n - m) \in Nat /\ 12 + 28 * (n - m) + 28 = 12 + 28 * (n - (m - 1))
          /\ 12 + 28 * (n - m) + 28 <= 12 + 28 * n
      BY Twelve
    <3> QED BY <1>3, <3>1, Zenon
  <2>2. PICK j \in 1 .. n : j = n - m + 1 /\ j - 1 = n - m
    <3>1. n - m + 1 \in 1 .. n /\ n - m + 1 - 1 = n - m
      OBVIOUS
    <3> QED BY <3>1
  <2>3. PICK a \in Address : a = addrs[j]
    BY <1>1
  <2>4. StandsAt(d, p, AddressOption(a))
    BY <1>2, <2>1, <2>2, <2>3, Zenon
  <2>5. /\ FramedAt(d, p) /\ IsAddress(d, p) /\ ~TooShort(d, p)
        /\ Behind(d, p) = p + 28 /\ AddressIn(BodyAt(d, p)) = a
    BY <1>3, <2>1, <2>4, AddressAt
  <2>6. f[p] = <<a>> \o f[p + 28]
    <3>1. p \in 12 .. N /\ p # N
      <4>1. p >= 12
        BY <1>2, <1>3, <2>1
      <4> QED BY <2>1, <4>1
    <3>2. f[p] = AddressesFrom(f, d, p)
      BY <1>5, <3>1
    <3>3. AddressesFrom(f, d, p) = <<a>> \o f[p + 28]
      BY <1>3, <2>5, <3>1, Zenon DEF AddressesFrom, FirstThen
    <3> QED BY <3>2, <3>3
  <2>7. f[p + 28] = LastOnes(addrs, n, m - 1)
    BY <1>7, <2>1, Zenon
  <2>8. <<addrs[n - m + 1]>> \o LastOnes(addrs, n, m - 1) = LastOnes(addrs, n, m)
    BY <1>1, LastGrows
  <2> QED BY <2>1, <2>2, <2>3, <2>6, <2>7, <2>8, Zenon
<1>8. \A m \in 0 .. n : P(m)
  <2> DEFINE T == {m \in 0 .. n : P(m)}
  <2> HIDE DEF P
  <2>1. 0 \in T /\ \A m \in 1 .. n : m - 1 \in T => m \in T
    BY <1>6, <1>7
  <2>2. \A m \in 0 .. n : m \in T
    <3> HIDE DEF T
    <3> QED BY <2>1, Induction
  <2> QED BY <2>2
<1>9. f[12] = LastOnes(addrs, n, n)
  <2>1. n \in 0 .. n /\ 12 + 28 * (n - n) = 12
    OBVIOUS
  <2>2. f[12 + 28 * (n - n)] = LastOnes(addrs, n, n)
    BY <1>8, <2>1, Zenon
  <2> QED BY <2>1, <2>2, Zenon
<1>10. LastOnes(addrs, n, n) = addrs
  <2>1. \A i \in 1 .. n : n - n + i = i
    OBVIOUS
  <2>2. [i \in 1 .. n |-> addrs[n - n + i]] = [i \in 1 .. n |-> addrs[i]]
    BY <2>1
  <2>3. addrs = [i \in 1 .. n |-> addrs[i]]
    BY <1>1
  <2> QED BY <2>2, <2>3, Zenon DEF LastOnes
<1> QED BY <1>4, <1>9, <1>10, Zenon

LEMMA TornIsNoAddress == \A a \in Address : a # Torn
<1> SUFFICES ASSUME NEW a \in Address, a = Torn PROVE FALSE
  OBVIOUS
<1>1. DOMAIN a = {"addr", "lifetimes"}
  BY DEF Address
<1>2. DOMAIN Torn = {"kind", "code", "data"}
  BY DEF Torn
<1>3. "kind" \notin {"addr", "lifetimes"} /\ "kind" \in {"kind", "code", "data"}
  OBVIOUS
<1> QED BY <1>1, <1>2, <1>3, Zenon

LEMMA IanaDecodes ==
  ASSUME NEW d
  PROVE  /\ Malformed(OPT_IA_NA, d) <=> IanaIsMalformed(d)
         /\ Decoded(OPT_IA_NA, d) = DecodedIana(d)
<1> USE DEF OPT_CLIENTID, OPT_SERVERID, OPT_IA_NA, OPT_STATUS_CODE, OPT_DNS_SERVERS
<1>1. Malformed(OPT_IA_NA, d) <=> IanaIsMalformed(d)
  BY DEF Malformed
<1>2. Decoded(OPT_IA_NA, d) = DecodedIana(d)
  BY DEF Decoded
<1> QED BY <1>1, <1>2

LEMMA IanaReadsBack ==
  ASSUME NEW o, o \in [kind : {"IaNa"}, fixed : Bytes(12), addrs : Seq(Address)]
  PROVE  ReadsBack(o)
<1>1. PICK g \in Bytes(12), x \in Seq(Address) :
        g = o.fixed /\ x = o.addrs /\ o = [kind |-> "IaNa", fixed |-> g, addrs |-> x]
  OBVIOUS
<1>2. o.kind = "IaNa"
  OBVIOUS
<1>3. PICK d : d = g \o FlattenSeq(AddressOptions(x))
  OBVIOUS
<1>4. PICK n \in Nat : n = Len(x)
  OBVIOUS
<1>5. d \in Seq(Byte) /\ Len(d) = 12 + 28 * n /\ SubSeq(d, 1, 12) = g
  <2>1. IsIana(d, g, x, n)
    BY <1>3, <1>4, IanaBytes, Zenon
  <2> QED BY <2>1, Zenon DEF IsIana
<1>6. Addresses(d) = x
  BY <1>3, AddressesBack
<1>7. CodeOf(o) = OPT_IA_NA
  BY <1>2 DEF CodeOf
<1>8. Payload(o) = d
  <2>1. Payload(o) = o.fixed \o FlattenSeq([i \in DOMAIN o.addrs |-> AddressOption(o.addrs[i])])
    BY <1>2 DEF Payload
  <2> QED BY <1>1, <1>3, <2>1, Zenon DEF AddressOptions
<1>9. ~IanaIsMalformed(d)
  <2>1. ~(Len(d) < 12)
    BY <1>5
  <2>2. \A i \in DOMAIN x : x[i] # Torn
    BY TornIsNoAddress
  <2> QED BY <1>6, <2>1, <2>2, Zenon DEF IanaIsMalformed
<1>10. DecodedIana(d) = o
  BY <1>1, <1>5, <1>6, Zenon DEF DecodedIana, IaNa
<1>11. ~Malformed(OPT_IA_NA, d)
  BY <1>9, IanaDecodes
<1>12. Decoded(OPT_IA_NA, d) = DecodedIana(d)
  BY IanaDecodes
<1> QED BY <1>7, <1>8, <1>10, <1>11, <1>12, Zenon DEF ReadsBack

\* Every option the program can write, it reads back as it was; one it keeps
\* as bytes must not carry a code that it has a type for.
THEOREM OptionRoundTrip ==
  ASSUME NEW o, IsOption(o), o.kind = "Unrecognized" => o.code \notin Recognised
  PROVE  ReadsBack(o)
<1> USE DEF OPT_CLIENTID, OPT_SERVERID, OPT_IA_NA, OPT_STATUS_CODE, OPT_DNS_SERVERS
<1>1. CASE o \in [kind : {"ClientId", "ServerId"}, data : Seq(Byte)]
  <2>1. PICK d \in Seq(Byte) : d = o.data /\ o = [kind |-> o.kind, data |-> d]
    BY <1>1
  <2>2. Payload(o) = d
    BY <1>1, <2>1 DEF Payload
  <2>3. CASE o.kind = "ClientId"
    <3>1. CodeOf(o) = OPT_CLIENTID
      BY <2>3 DEF CodeOf
    <3>2. ~Malformed(OPT_CLIENTID, d) /\ Decoded(OPT_CLIENTID, d) = ClientId(d)
      BY DEF Malformed, Decoded
    <3> QED BY <2>1, <2>2, <2>3, <3>1, <3>2, Zenon DEF ReadsBack, ClientId
  <2>4. CASE o.kind = "ServerId"
    <3>1. CodeOf(o) = OPT_SERVERID
      BY <2>4 DEF CodeOf
    <3>2. ~Malformed(OPT_SERVERID, d) /\ Decoded(OPT_SERVERID, d) = ServerId(d)
      BY DEF Malformed, Decoded
    <3> QED BY <2>1, <2>2, <2>4, <3>1, <3>2, Zenon DEF ReadsBack, ServerId
  <2> QED BY <1>1, <2>3, <2>4
<1>2. CASE o \in [kind : {"Unrecognized"}, code : 0 .. U16Max, data : Seq(Byte)]
  <2>1. PICK d \in Seq(Byte), c \in 0 .. U16Max :
          d = o.data /\ c = o.code /\ o = [kind |-> "Unrecognized", code |-> c, data |-> d]
    BY <1>2
  <2>2. o.kind = "Unrecognized" /\ c \notin Recognised
    BY <1>2, <2>1
  <2>3. Payload(o) = d /\ CodeOf(o) = c
    BY <2>1, <2>2 DEF Payload, CodeOf
  <2>4. ~Malformed(c, d) /\ Decoded(c, d) = Raw(c, d)
    BY <2>2 DEF Malformed, Decoded, Recognised
  <2> QED BY <2>1, <2>3, <2>4, Zenon DEF ReadsBack, Raw
<1>3. CASE o \in [kind : {"StatusCode"}, status : 0 .. U16Max, message : Seq(Byte)]
  <2>1. o.message \in Text
    BY <1>3 DEF IsOption
  <2> QED BY <1>3, <2>1, StatusReadsBack
<1>4. CASE o \in [kind : {"DnsServers"}, addrs : Seq(Bytes(16))]
  BY <1>4, ServersReadBack
<1>5. CASE o \in [kind : {"IaNa"}, fixed : Bytes(12),
                  addrs : Seq([addr : Bytes(16), lifetimes : Bytes(8)])]
  BY <1>5, IanaReadsBack DEF Address
<1> QED BY <1>1, <1>2, <1>3, <1>4, <1>5 DEF IsOption

\* So between two of these programs the meanings agree by themselves: whatever
\* is sent is read as it was meant, or not at all.
THEOREM OwnMessagesAreRead ==
  ASSUME \A m \in Sendable : \A i \in DOMAIN m.options :
           /\ m.options[i].means = m.options[i].written
           /\ m.options[i].written.kind = "Unrecognized"
                => m.options[i].written.code \notin Recognised
  PROVE  Spec => [](AllOrNothing /\ WholeIsDecoded)
<1>1. MeaningsAgree
  <2>1. ASSUME NEW m \in Sendable, NEW i \in DOMAIN m.options
        PROVE  ReadsBack(m.options[i].written) /\ m.options[i].means = m.options[i].written
    <3>1. PICK o : o = m.options[i].written
      OBVIOUS
    <3>2. IsOption(o)
      BY <3>1, SendableMessage DEF IsMessage
    <3>3. o.kind = "Unrecognized" => o.code \notin Recognised
      BY <3>1
    <3>4. ReadsBack(o)
      BY <3>2, <3>3, OptionRoundTrip
    <3> QED BY <3>1, <3>4
  <2> QED BY <2>1, Zenon DEF MeaningsAgree, ReadsBack
<1> QED BY <1>1, NothingTornIsDecoded, WholeMessagesAreDecoded, PTL
=============================================================================
