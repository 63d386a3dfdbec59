-------------------------- MODULE PacketCodecProofs --------------------------
(* Theorems about the reading of a DHCPv4 datagram (PacketCodec). *)
EXTENDS PacketCodec, SequenceFacts

-----------------------------------------------------------------------------
(* The bytes of a datagram *)

Codes(opts) == [i \in DOMAIN opts |-> Coded(opts[i])]

LEMMA SendableFields ==
  ASSUME NEW o \in Sendable
  PROVE  /\ o.code \in Byte /\ o.code # END
         /\ o.data \in Seq(Byte) /\ Len(o.data) \in Byte
  BY SendableAssumption

LEMMA CodedOption ==
  ASSUME NEW o \in Sendable
  PROVE  /\ Coded(o) \in Seq(Byte)
         /\ Len(Coded(o)) = 2 + Len(o.data)
         /\ Coded(o)[1] = o.code /\ Coded(o)[2] = Len(o.data)
         /\ \A i \in 1 .. Len(o.data) : Coded(o)[2 + i] = o.data[i]
<1>1. PICK d \in Seq(Byte) : d = o.data
  BY SendableFields
<1>2. PICK h : h = <<o.code, Len(o.data)>>
  OBVIOUS
<1>3. h \in Seq(Byte) /\ Len(h) = 2 /\ h[1] = o.code /\ h[2] = Len(o.data)
  BY <1>2, SendableFields
<1>4. PICK c : c = h \o d /\ c = Coded(o)
  BY <1>1, <1>2 DEF Coded
<1>5. /\ c \in Seq(Byte) /\ Len(d) \in Nat /\ Len(c) = Len(h) + Len(d)
      /\ \A i \in 1 .. Len(h) : c[i] = h[i]
      /\ \A i \in 1 .. Len(d) : c[Len(h) + i] = d[i]
  <2>1. h \in Seq(Byte) /\ d \in Seq(Byte)
    BY <1>3
  <2>2. h \o d \in Seq(Byte)
    BY <2>1, ConcatIndex
  <2>3. Len(d) \in Nat /\ Len(h \o d) = Len(h) + Len(d)
    BY <2>1, ConcatIndex
  <2>4. \A i \in 1 .. Len(h) : (h \o d)[i] = h[i]
    BY <2>1, ConcatIndex
  <2>5. \A i \in 1 .. Len(d) : (h \o d)[Len(h) + i] = d[i]
    BY <2>1, ConcatIndex
  <2> QED BY <1>4, <2>2, <2>3, <2>4, <2>5
<1>6. 1 \in 1 .. 2 /\ 2 \in 1 .. 2
  OBVIOUS
<1> QED BY <1>1, <1>3, <1>4, <1>5, <1>6

LEMMA CodesList ==
  ASSUME NEW opts \in Seq(Sendable)
  PROVE  /\ Codes(opts) \in Lists(Byte)
         /\ Len(Codes(opts)) = Len(opts)
         /\ \A n \in 1 .. Len(opts) : Codes(opts)[n] = Coded(opts[n])
         /\ Wire(opts) = FlattenSeq(Codes(opts))
<1>1. \A n \in 1 .. Len(opts) : Coded(opts[n]) \in Seq(Byte)
  BY CodedOption
<1>2. Codes(opts) = [n \in 1 .. Len(opts) |-> Coded(opts[n])]
  BY DEF Codes
<1>3. Codes(opts) \in Seq(Seq(Byte)) /\ Len(Codes(opts)) = Len(opts)
  BY <1>1, <1>2
<1> QED BY <1>2, <1>3 DEF Lists, Wire, Codes

LEMMA WireBytes ==
  ASSUME NEW opts \in Seq(Sendable)
  PROVE  Wire(opts) \in Seq(Byte)
  BY CodesList, FlattenType

LEMMA EndIsOffset ==
  ASSUME sent \in Seq(Sendable), NEW n \in 0 .. Len(sent)
  PROVE  EndOf(n) = Offset(Codes(sent), n)
<1>1. PICK W \in Lists(Byte) : W = Codes(sent) /\ Len(W) = Len(sent)
  BY CodesList
<1>2. PICK p : p = SubSeq(sent, 1, n)
  OBVIOUS
<1>3. p \in Seq(Sendable) /\ Len(p) = n /\ \A i \in 1 .. n : p[i] = sent[i]
  BY <1>2
<1>4. PICK V \in Lists(Byte) : V = Codes(p) /\ Len(V) = n
  BY <1>3, CodesList
<1>5. PICK U \in Lists(Byte) :
        U = SubSeq(W, 1, n) /\ Len(U) = n /\ \A i \in 1 .. n : U[i] = W[i]
  <2>1. n \in 0 .. Len(W)
    BY <1>1
  <2>2. PICK s : s = SubSeq(W, 1, n)
    OBVIOUS
  <2>3. s \in Lists(Byte) /\ Len(s) = n /\ \A i \in 1 .. n : s[i] = W[i]
    BY <2>1, <2>2, ListPrefix, Zenon
  <2> QED BY <2>2, <2>3, Zenon
<1>6. \A i \in 1 .. n : V[i] = U[i]
  <2>1. ASSUME NEW i \in 1 .. n PROVE V[i] = U[i]
    <3>1. i \in 1 .. Len(sent) /\ i \in 1 .. Len(p)
      BY <1>3
    <3>2. V[i] = Coded(p[i]) /\ W[i] = Coded(sent[i])
      BY <1>1, <1>3, <1>4, <3>1, CodesList
    <3> QED BY <1>3, <1>5, <3>2
  <2> QED BY <2>1
<1>7. V = U
  BY <1>4, <1>5, <1>6 DEF Lists
<1>8. Wire(p) = FlattenSeq(V)
  BY <1>3, <1>4, CodesList
<1> QED BY <1>1, <1>2, <1>5, <1>7, <1>8, Zenon DEF EndOf, Offset

\* Where the options end, and that they follow each other.
LEMMA Ends ==
  ASSUME sent \in Seq(Sendable)
  PROVE  /\ EndOf(0) = 0
         /\ EndOf(Len(sent)) = Len(Wire(sent))
         /\ \A n \in 0 .. Len(sent) : EndOf(n) \in Nat
         /\ \A n \in 1 .. Len(sent) : EndOf(n) = EndOf(n - 1) + 2 + Len(sent[n].data)
         /\ \A m, n \in 0 .. Len(sent) : m <= n => EndOf(m) <= EndOf(n)
<1>1. PICK W \in Lists(Byte) : W = Codes(sent) /\ Len(W) = Len(sent)
  BY CodesList
<1>2. \A n \in 0 .. Len(sent) : EndOf(n) = Offset(W, n)
  BY <1>1, EndIsOffset
<1>3. /\ Offset(W, 0) = 0
      /\ Offset(W, Len(sent)) = Len(FlattenSeq(W))
      /\ \A n \in 0 .. Len(sent) : Offset(W, n) \in Nat
      /\ \A n \in 1 .. Len(sent) : Offset(W, n) = Offset(W, n - 1) + Len(W[n])
  BY <1>1, Offsets
<1>4. ASSUME NEW n \in 1 .. Len(sent) PROVE Len(W[n]) = 2 + Len(sent[n].data)
  BY <1>1, CodesList, CodedOption
<1>5. ASSUME NEW n \in 1 .. Len(sent) PROVE EndOf(n) = EndOf(n - 1) + 2 + Len(sent[n].data)
  <2>1. n \in 0 .. Len(sent) /\ n - 1 \in 0 .. Len(sent)
    OBVIOUS
  <2>2. EndOf(n) = Offset(W, n) /\ EndOf(n - 1) = Offset(W, n - 1) /\ Offset(W, n - 1) \in Nat
    BY <1>2, <1>3, <2>1
  <2>3. Offset(W, n) = Offset(W, n - 1) + Len(W[n])
    BY <1>3
  <2>4. sent[n] \in Sendable
    OBVIOUS
  <2>5. PICK l \in Nat : l = Len(sent[n].data)
    BY <2>4, SendableFields DEF Byte
  <2>6. PICK p \in Nat : p = EndOf(n - 1) /\ p = Offset(W, n - 1)
    BY <2>2
  <2>7. EndOf(n) = p + (2 + l)
    BY <1>4, <2>2, <2>3, <2>5, <2>6, Zenon
  <2>8. EndOf(n) = p + 2 + l
    BY <2>7
  <2> QED BY <2>5, <2>6, <2>8
<1>6. ASSUME NEW m \in 0 .. Len(sent), NEW n \in 0 .. Len(sent), m <= n
      PROVE  EndOf(m) <= EndOf(n)
  <2>1. n \in m .. Len(W) /\ m \in 0 .. Len(W)
    BY <1>1, <1>6
  <2>2. Offset(W, m) <= Offset(W, n)
    BY <2>1, OffsetsGrow
  <2> QED BY <1>2, <2>2
<1>7. EndOf(0) = 0 /\ EndOf(Len(sent)) = Len(Wire(sent))
  <2>1. 0 \in 0 .. Len(sent) /\ Len(sent) \in 0 .. Len(sent)
    OBVIOUS
  <2> QED BY <1>1, <1>2, <1>3, <2>1, CodesList
<1>8. \A n \in 0 .. Len(sent) : EndOf(n) \in Nat
  BY <1>2, <1>3
<1> QED BY <1>5, <1>6, <1>7, <1>8

\* And what stands there.
LEMMA WireAt ==
  ASSUME sent \in Seq(Sendable), NEW n \in 1 .. Len(sent)
  PROVE  /\ Wire(sent)[EndOf(n - 1) + 1] = sent[n].code
         /\ Wire(sent)[EndOf(n - 1) + 2] = Len(sent[n].data)
         /\ \A i \in 1 .. Len(sent[n].data) : Wire(sent)[EndOf(n - 1) + 2 + i] = sent[n].data[i]
<1>1. PICK W \in Lists(Byte) : W = Codes(sent) /\ Len(W) = Len(sent)
  BY CodesList
<1>2. PICK p \in Nat : p = EndOf(n - 1) /\ p = Offset(W, n - 1)
  <2>1. n - 1 \in 0 .. Len(sent)
    OBVIOUS
  <2> QED BY <1>1, <2>1, EndIsOffset, Ends
<1>3. sent[n] \in Sendable
  OBVIOUS
<1>4. PICK d \in Seq(Byte) : d = sent[n].data
  BY <1>3, SendableFields
<1>5. PICK e \in Seq(Byte) : e = Coded(sent[n]) /\ e = W[n]
  BY <1>1, <1>3, CodedOption, CodesList
<1>6. /\ Len(e) = 2 + Len(d) /\ e[1] = sent[n].code /\ e[2] = Len(d)
      /\ \A i \in 1 .. Len(d) : e[2 + i] = d[i]
  BY <1>3, <1>4, <1>5, CodedOption
<1>7. \A i \in 1 .. Len(e) : Wire(sent)[p + i] = e[i]
  <2>1. ASSUME NEW i \in 1 .. Len(e) PROVE Wire(sent)[p + i] = e[i]
    <3>1. n \in 1 .. Len(W) /\ i \in 1 .. Len(W[n])
      BY <1>1, <1>5
    <3>2. FlattenSeq(W)[Offset(W, n - 1) + i] = W[n][i]
      BY <3>1, FlattenAt
    <3>3. Wire(sent) = FlattenSeq(W)
      BY <1>1, CodesList
    <3> QED BY <1>2, <1>5, <3>2, <3>3, Zenon
  <2> QED BY <2>1
<1>8. PICK l \in Nat : l = Len(d)
  OBVIOUS
<1>9. \A i \in 1 .. l : 2 + i \in 1 .. Len(e) /\ p + (2 + i) = p + 2 + i
  BY <1>6, <1>8
<1>10. 1 \in 1 .. Len(e) /\ 2 \in 1 .. Len(e)
  BY <1>6, <1>8
<1>11. Wire(sent)[p + 1] = sent[n].code /\ Wire(sent)[p + 2] = Len(d)
  BY <1>6, <1>7, <1>10, Zenon
<1>12. ASSUME NEW i \in 1 .. l PROVE Wire(sent)[p + 2 + i] = d[i]
  <2>1. Wire(sent)[p + (2 + i)] = d[i]
    BY <1>6, <1>7, <1>8, <1>9, Zenon
  <2> QED BY <1>9, <2>1, Zenon
<1> QED BY <1>2, <1>4, <1>8, <1>11, <1>12, Zenon

-----------------------------------------------------------------------------
(* What has arrived *)

Arrived(length) ==
  /\ length \in 0 .. Len(Wire(sent)) + 1
  /\ Len(input) = length
  /\ \A i \in 1 .. length : input[i] = IF i <= Len(Wire(sent)) THEN Wire(sent)[i] ELSE END

LEMMA DatagramBytes ==
  ASSUME NEW opts \in Seq(Sendable), NEW length \in 0 .. Len(Wire(opts)) + 1
  PROVE  /\ Datagram(opts, length) \in Seq(Byte)
         /\ Len(Datagram(opts, length)) = length
         /\ \A i \in 1 .. length :
              Datagram(opts, length)[i] = IF i <= Len(Wire(opts)) THEN Wire(opts)[i] ELSE END
<1>1. PICK w \in Seq(Byte) : w = Wire(opts)
  BY WireBytes
<1>2. PICK u : u = Append(w, END)
  OBVIOUS
<1>3. END \in Byte
  BY DEF END, Byte
<1>4. u \in Seq(Byte) /\ Len(u) = Len(w) + 1
  BY <1>2, <1>3
<1>5. \A i \in 1 .. Len(u) : u[i] = IF i <= Len(w) THEN w[i] ELSE END
  BY <1>2, <1>3
<1>6. PICK v : v = SubSeq(u, 1, length)
  OBVIOUS
<1>7. length \in 0 .. Len(u)
  BY <1>1, <1>4
<1>8. v \in Seq(Byte) /\ Len(v) = length /\ \A i \in 1 .. length : v[i] = u[i]
  BY <1>4, <1>6, <1>7
<1>9. \A i \in 1 .. length : i \in 1 .. Len(u)
  BY <1>7
<1> QED BY <1>1, <1>2, <1>5, <1>6, <1>8, <1>9, Zenon DEF Datagram

\* What the next option reads as: the one that was sent next, if it is there.
LEMMA NextOption ==
  ASSUME sent \in Seq(Sendable), NEW length, Arrived(length),
         NEW n \in 1 .. Len(sent), pos = EndOf(n - 1), Left > 0
  PROVE  /\ Code = sent[n].code
         /\ Left >= 2 => Size = Len(sent[n].data)
         /\ Framed <=> EndOf(n) <= Len(input)
         /\ Framed => After = EndOf(n) /\ Data = sent[n].data
<1>1. PICK p \in Nat : p = EndOf(n - 1) /\ p = pos
  <2>1. n - 1 \in 0 .. Len(sent)
    OBVIOUS
  <2> QED BY <2>1, Ends
<1>2. sent[n] \in Sendable
  OBVIOUS
<1>3. PICK d \in Seq(Byte) : d = sent[n].data
  BY <1>2, SendableFields
<1>4. PICK l \in Nat : l = Len(d)
  OBVIOUS
<1>5. PICK w \in Seq(Byte) : w = Wire(sent)
  BY WireBytes
<1>6. EndOf(n) = p + 2 + l /\ p + 2 + l <= Len(w)
  <2>1. EndOf(n) = p + 2 + l
    BY <1>1, <1>3, <1>4, Ends, Zenon
  <2>2. n \in 0 .. Len(sent) /\ Len(sent) \in 0 .. Len(sent) /\ n <= Len(sent)
    OBVIOUS
  <2>3. EndOf(n) <= Len(w)
    BY <1>5, <2>2, Ends, Zenon
  <2> QED BY <2>1, <2>3, Zenon
<1>7. /\ w[p + 1] = sent[n].code /\ w[p + 2] = l
      /\ \A i \in 1 .. l : w[p + 2 + i] = d[i]
  BY <1>1, <1>3, <1>4, <1>5, WireAt, Zenon
<1>8. /\ length \in 0 .. Len(w) + 1 /\ Len(input) = length
      /\ \A i \in 1 .. length : input[i] = IF i <= Len(w) THEN w[i] ELSE END
  BY <1>5, Zenon DEF Arrived
<1>9. Left = length - p /\ p < length
  BY <1>1, <1>8 DEF Left
\* While it is within what arrived and within the options, it is the sender's.
<1>10. ASSUME NEW k \in 1 .. 2 + l, p + k <= length PROVE input[p + k] = w[p + k]
  <2>1. p + k \in 1 .. length /\ p + k <= Len(w)
    BY <1>6, <1>10
  <2> QED BY <1>8, <2>1
<1>11. Code = sent[n].code
  <2>1. 1 \in 1 .. 2 + l /\ p + 1 <= length
    BY <1>8, <1>9
  <2> QED BY <1>1, <1>7, <1>10, <2>1, Zenon DEF Code
<1>12. ASSUME Left >= 2 PROVE Size = l
  <2>1. 2 \in 1 .. 2 + l /\ p + 2 <= length
    BY <1>8, <1>9, <1>12
  <2> QED BY <1>1, <1>7, <1>10, <2>1, Zenon DEF Size
<1>13. Framed <=> p + 2 + l <= length
  <2>1. CASE Left >= 2
    BY <1>8, <1>9, <1>12, <2>1 DEF Framed
  <2>2. CASE ~(Left >= 2)
    BY <1>8, <1>9, <2>2 DEF Framed
  <2> QED BY <2>1, <2>2
<1>14. ASSUME Framed PROVE After = p + 2 + l /\ Data = d
  <2>1. Size = l /\ p + 2 + l <= length
    BY <1>12, <1>13, <1>14 DEF Framed
  <2>2. After = p + 2 + l
    BY <1>1, <2>1 DEF After
  <2>3. ASSUME NEW i \in 1 .. l PROVE input[p + 2 + i] = d[i]
    <3>1. 2 + i \in 1 .. 2 + l /\ p + (2 + i) <= length /\ p + (2 + i) = p + 2 + i
      BY <1>8, <2>1
    <3>2. input[p + (2 + i)] = w[p + (2 + i)]
      BY <1>10, <3>1, Zenon
    <3> QED BY <1>7, <3>1, <3>2, Zenon
  <2>4. SubSeq(input, p + 2 + 1, p + 2 + l) = d
    <3>1. PICK q \in Nat : q = p + 2
      OBVIOUS
    <3>2. \A i \in 1 .. Len(d) : input[q + i] = d[i]
      BY <1>4, <2>3, <3>1, Zenon
    <3>3. SubSeq(input, q + 1, q + Len(d)) = d
      BY <3>2, SubSeqIs
    <3> QED BY <1>4, <3>1, <3>3, Zenon
  <2>5. pos + 3 = p + 2 + 1 /\ pos + 2 + Size = p + 2 + l
    BY <1>1, <2>1
  <2> QED BY <2>2, <2>4, <2>5, Zenon DEF Data
<1> QED BY <1>1, <1>3, <1>4, <1>6, <1>8, <1>11, <1>12, <1>13, <1>14, Zenon

-----------------------------------------------------------------------------
(* The invariant *)

\* The decoder makes an option of o, and this one.
Taken(o) == Accepts(o.code, o.data)
OptionOf(o) == [code |-> o.code, data |-> Kept(o.code, o.data)]

\* Whatever stands behind the first n options is not read.
Stopped(n) == n < Len(sent) => EndOf(n + 1) > Len(input) \/ ~Taken(sent[n + 1])

Statuses == {"header", "options", "closing", "decoded", "refused", "panicked"}

\* What never changes.
InputInv ==
  /\ header \in {"short", "hlen", "cookie", "good"}
  /\ sent \in Seq(Sendable)
  /\ \E length \in 0 .. Len(Wire(sent)) + 1 : input = Datagram(sent, length)

\* The first n options of the sender are read, and nothing else.
HasRead(n) ==
  /\ n \in 0 .. Len(sent)
  /\ pos = EndOf(n) /\ pos <= Len(input)
  /\ DOMAIN options = 1 .. n
  /\ options \in Seq([code : Byte, data : Seq(Byte)])
  /\ \A i \in 1 .. n : Taken(sent[i]) /\ options[i] = OptionOf(sent[i])

\* What each status knows of that n.
StatusInv(n) ==
  /\ status \in {"header", "refused"} => n = 0
  /\ status = "options" => n = 0 \/ ~AtEnd(pos)
  /\ status = "closing" => Stopped(n) /\ (sent = <<>> => Left = 0)
  /\ status = "decoded" => Stopped(n) /\ sent # <<>> /\ Left > 0
  /\ status = "panicked" => \/ sent = <<>> /\ Len(input) = 1
                            \/ Stopped(n) /\ Left = 0

ReadInv ==
  /\ InputInv
  /\ status \in Statuses
  /\ \E n \in Nat : HasRead(n) /\ StatusInv(n)

LEMMA InputArrived ==
  ASSUME InputInv
  PROVE  /\ input \in Seq(Byte)
         /\ \E length : Arrived(length)
<1>1. PICK length \in 0 .. Len(Wire(sent)) + 1 : input = Datagram(sent, length)
  BY DEF InputInv
<1>2. sent \in Seq(Sendable)
  BY DEF InputInv
<1> QED BY <1>1, <1>2, DatagramBytes DEF Arrived

\* The byte behind the first n options is an END or the code of the next one.
LEMMA EndIsLast ==
  ASSUME InputInv, NEW n \in 0 .. Len(sent), EndOf(n) < Len(input)
  PROVE  IF input[EndOf(n) + 1] = END THEN n = Len(sent) /\ Len(input) = EndOf(n) + 1
                                      ELSE n < Len(sent)
<1>1. PICK length : Arrived(length)
  BY InputArrived
<1>2. sent \in Seq(Sendable)
  BY DEF InputInv
<1>3. PICK p \in Nat, w \in Nat : p = EndOf(n) /\ w = Len(Wire(sent)) /\ p <= w
  <2>1. Len(sent) \in 0 .. Len(sent) /\ n <= Len(sent)
    BY <1>2
  <2> QED BY <1>2, <2>1, Ends
<1>4. /\ length \in 0 .. w + 1 /\ Len(input) = length
      /\ \A i \in 1 .. length : input[i] = IF i <= w THEN Wire(sent)[i] ELSE END
  BY <1>1, <1>3 DEF Arrived
<1>5. CASE n < Len(sent)
  <2>1. PICK m \in 1 .. Len(sent) : m = n + 1 /\ m - 1 = n
    BY <1>2, <1>5
  <2>2. Wire(sent)[p + 1] = sent[m].code /\ sent[m].code # END
    BY <1>2, <1>3, <2>1, WireAt, SendableFields
  <2>3. p + 1 <= w
    <3>1. PICK l \in Nat : l = Len(sent[m].data)
      <4>1. sent[m] \in Sendable
        BY <1>2
      <4>2. Len(sent[m].data) \in Byte
        BY <4>1, SendableFields
      <4>3. Len(sent[m].data) \in Nat
        BY <4>2 DEF Byte
      <4> QED BY <4>3, Zenon
    <3>2. EndOf(m) = p + 2 + l
      BY <1>2, <1>3, <2>1, <3>1, Ends, Zenon
    <3>3. m \in 0 .. Len(sent) /\ Len(sent) \in 0 .. Len(sent) /\ m <= Len(sent)
      BY <1>2
    <3>4. EndOf(m) <= w
      BY <1>2, <1>3, <3>3, Ends, Zenon
    <3> QED BY <3>2, <3>4
  <2>4. input[p + 1] = Wire(sent)[p + 1]
    BY <1>3, <1>4, <2>3
  <2> QED BY <1>3, <1>5, <2>2, <2>4
<1>6. CASE n = Len(sent)
  <2>1. p = w
    BY <1>2, <1>3, <1>6, Ends
  <2> QED BY <1>3, <1>4, <1>6, <2>1
<1> QED BY <1>2, <1>5, <1>6

LEMMA EndOrOption ==
  ASSUME InputInv, NEW n, HasRead(n), Left > 0
  PROVE  IF Code = END THEN n = Len(sent) /\ Left = 1 ELSE n < Len(sent)
<1>1. n \in 0 .. Len(sent) /\ pos = EndOf(n) /\ pos \in Nat /\ Len(input) \in Nat
  BY InputArrived, Ends DEF InputInv, HasRead
<1>2. EndOf(n) < Len(input)
  BY <1>1 DEF Left
<1> QED BY <1>1, <1>2, EndIsLast DEF Left, Code

LEMMA KeptBytes ==
  ASSUME NEW o \in Sendable, Taken(o)
  PROVE  Kept(o.code, o.data) \in Seq(Byte)
<1> USE DEF Addressed, DHCP_MESSAGE_TYPE, SERVER_IDENTIFIER, REQUESTED_IP_ADDRESS, SUBNET_MASK,
            IP_ADDRESS_LEASE_TIME, HOST_NAME, MESSAGE
<1>1. PICK d \in Seq(Byte) : d = o.data
  BY SendableFields
<1>2. CASE o.code = DHCP_MESSAGE_TYPE
  <2>1. d # <<>>
    BY <1>1, <1>2 DEF Taken, Accepts
  <2>2. SubSeq(d, 1, 1) \in Seq(Byte)
    BY <2>1
  <2> QED BY <1>1, <1>2, <2>2 DEF Kept
<1>3. CASE o.code \in Addressed
  <2>1. o.code # DHCP_MESSAGE_TYPE
    BY <1>3
  <2>2. Len(d) >= 4
    BY <1>1, <1>3, <2>1 DEF Taken, Accepts
  <2>3. SubSeq(d, 1, 4) \in Seq(Byte)
    BY <2>2
  <2> QED BY <1>1, <1>3, <2>1, <2>3 DEF Kept
<1>4. CASE o.code # DHCP_MESSAGE_TYPE /\ o.code \notin Addressed
  BY <1>1, <1>4 DEF Kept
<1> QED BY <1>2, <1>3, <1>4

\* One more option is read.
LEMMA OptionRead ==
  ASSUME InputInv, NEW n, HasRead(n), DecodeOption
  PROVE  HasRead(n + 1)'
<1>1. PICK length : Arrived(length)
  BY InputArrived
<1>2. /\ sent \in Seq(Sendable) /\ n \in 0 .. Len(sent) /\ pos = EndOf(n)
      /\ UNCHANGED <<sent, input>> /\ Left > 0 /\ Framed /\ Accepts(Code, Data)
      /\ options' = Append(options, [code |-> Code, data |-> Kept(Code, Data)])
      /\ pos' = After
  BY DEF InputInv, HasRead, DecodeOption
<1>3. n < Len(sent)
  BY EndOrOption DEF DecodeOption
<1>4. PICK m \in 1 .. Len(sent) : m = n + 1 /\ m - 1 = n
  BY <1>2, <1>3
<1>5. Code = sent[m].code /\ After = EndOf(m) /\ Data = sent[m].data /\ EndOf(m) <= Len(input)
  BY <1>1, <1>2, <1>4, NextOption
<1>6. EndOf(m)' = EndOf(m)
  BY <1>2 DEF EndOf
<1>7. PICK o \in [code : Byte, data : Seq(Byte)] : o = OptionOf(sent[m])
  <2>1. sent[m] \in Sendable /\ Taken(sent[m])
    BY <1>2, <1>5 DEF Taken
  <2> QED BY <2>1, KeptBytes, SendableFields DEF OptionOf
<1>8. options' = Append(options, o)
  BY <1>2, <1>5, <1>7 DEF OptionOf
<1>9. /\ options \in Seq([code : Byte, data : Seq(Byte)]) /\ Len(options) = n
      /\ \A i \in 1 .. n : Taken(sent[i]) /\ options[i] = OptionOf(sent[i])
  BY <1>2 DEF HasRead
<1>10. /\ options' \in Seq([code : Byte, data : Seq(Byte)]) /\ DOMAIN options' = 1 .. m
       /\ \A i \in 1 .. n : options'[i] = options[i]
       /\ options'[m] = o
  BY <1>4, <1>8, <1>9
<1>11. ASSUME NEW i \in 1 .. m PROVE Taken(sent'[i]) /\ options'[i] = OptionOf(sent'[i])
  <2>1. CASE i = m
    BY <1>2, <1>5, <1>7, <1>10, <2>1 DEF Taken
  <2>2. CASE i \in 1 .. n
    BY <1>2, <1>9, <1>10, <2>2
  <2> QED BY <1>4, <2>1, <2>2
<1> QED BY <1>2, <1>4, <1>5, <1>6, <1>10, <1>11 DEF HasRead, Taken, OptionOf

\* The loop ends where no other option could be read.
LEMMA StopsThere ==
  ASSUME InputInv, NEW n, HasRead(n), StopSilently
  PROVE  Stopped(n) /\ (sent = <<>> => Left = 0)
<1>1. PICK length : Arrived(length)
  BY InputArrived
<1>2. /\ sent \in Seq(Sendable) /\ n \in 0 .. Len(sent) /\ pos = EndOf(n) /\ Len(input) \in Nat
      /\ pos \in Nat /\ pos <= Len(input)
  BY InputArrived, Ends DEF InputInv, HasRead
<1>3. ASSUME n < Len(sent) PROVE EndOf(n + 1) > Len(input) \/ ~Taken(sent[n + 1])
  <2>1. PICK m \in 1 .. Len(sent) : m = n + 1 /\ m - 1 = n
    BY <1>2, <1>3
  <2>2. CASE Left = 0
    <3>1. PICK l \in Nat : l = Len(sent[m].data)
      <4>1. sent[m] \in Sendable
        BY <1>2
      <4>2. Len(sent[m].data) \in Byte
        BY <4>1, SendableFields
      <4>3. Len(sent[m].data) \in Nat
        BY <4>2 DEF Byte
      <4> QED BY <4>3, Zenon
    <3>2. EndOf(m) = pos + 2 + l
      BY <1>2, <2>1, <3>1, Ends, Zenon
    <3> QED BY <1>2, <2>1, <2>2, <3>2 DEF Left
  <2>3. CASE Left > 0 /\ Code # END /\ ~Framed
    <3>1. ~(EndOf(m) <= Len(input))
      BY <1>1, <1>2, <2>1, <2>3, NextOption
    <3>2. EndOf(m) \in Nat
      <4>1. m \in 0 .. Len(sent)
        OBVIOUS
      <4> QED BY <1>2, <4>1, Ends
    <3> QED BY <1>2, <2>1, <3>1, <3>2
  <2>4. CASE Left > 0 /\ Code # END /\ Framed /\ ~Accepts(Code, Data)
    <3>1. Code = sent[m].code /\ Data = sent[m].data
      BY <1>1, <1>2, <2>1, <2>4, NextOption
    <3> QED BY <2>1, <2>4, <3>1 DEF Taken
  <2> QED BY <2>2, <2>3, <2>4 DEF StopSilently
<1>4. ASSUME sent = <<>> PROVE Left = 0
  <2>1. Len(sent) = 0 /\ n = 0
    BY <1>2, <1>4
  <2>2. ~(Left > 0 /\ Code # END)
    BY <2>1, EndOrOption
  <2> QED BY <2>2 DEF StopSilently
<1> QED BY <1>3, <1>4 DEF Stopped

LEMMA ReadStep ==
  ASSUME ReadInv, [Next]_vars
  PROVE  ReadInv'
<1>1. /\ InputInv /\ status \in Statuses
  BY DEF ReadInv
<1>2. PICK n \in Nat : HasRead(n) /\ StatusInv(n)
  BY DEF ReadInv
<1>3. UNCHANGED <<header, sent, input>>
  BY DEF Next, vars, Header, AssertEnd, DecodeOption, StopSilently, Close
<1>4. InputInv'
  BY <1>1, <1>3 DEF InputInv, Datagram, Wire, Coded
\* Nothing that a step keeps is said of anything else.
<1>5. UNCHANGED <<pos, options>> => HasRead(n)'
  BY <1>2, <1>3 DEF HasRead, EndOf, Taken, OptionOf
<1>6. Stopped(n)' <=> Stopped(n)
  BY <1>3 DEF Stopped, EndOf, Taken
<1>7. UNCHANGED pos => Left' = Left
  BY <1>3 DEF Left
<1>8. CASE Header
  <2>1. HasRead(n)' /\ n = 0 /\ status' \in {"options", "refused"}
    BY <1>2, <1>5, <1>8 DEF Header, StatusInv
  <2> QED BY <1>4, <2>1 DEF ReadInv, StatusInv, Statuses
<1>9. CASE AssertEnd
  <2>1. /\ status = "options" /\ status' = "panicked" /\ Left > 0 /\ Code = END /\ HasRead(n)'
    BY <1>5, <1>9 DEF AssertEnd
  <2>2. AtEnd(pos)
    BY <1>1, <1>2, <2>1, InputArrived, Ends DEF AtEnd, Left, Code, HasRead, InputInv
  <2>3. n = 0
    BY <1>2, <2>1, <2>2 DEF StatusInv
  <2>4. n = Len(sent) /\ Left = 1
    BY <1>1, <1>2, <2>1, EndOrOption
  <2>5. sent = <<>> /\ Len(input) = 1
    <3>1. pos = 0 /\ sent \in Seq(Sendable) /\ Len(input) \in Nat
      BY <1>1, <1>2, <2>3, Ends, InputArrived DEF HasRead, InputInv
    <3> QED BY <2>3, <2>4, <3>1 DEF Left
  <2> QED BY <1>3, <1>4, <2>1, <2>3, <2>5 DEF ReadInv, StatusInv, Statuses
<1>10. CASE DecodeOption
  <2>1. HasRead(n + 1)'
    BY <1>1, <1>2, <1>10, OptionRead
  <2>2. sent # <<>>
    <3>1. n < Len(sent) /\ n \in Nat
      BY <1>1, <1>2, <1>10, EndOrOption DEF DecodeOption
    <3> QED BY <3>1
  <2>3. CASE AtEnd(After)
    <3>1. status' = "closing" /\ pos' = After
      BY <1>10, <2>3 DEF DecodeOption
    <3>3. n + 1 = Len(sent)
      <4>1. n + 1 \in 0 .. Len(sent) /\ After = EndOf(n + 1)
        <5>1. (n + 1 \in 0 .. Len(sent) /\ pos = EndOf(n + 1))'
          BY <2>1 DEF HasRead
        <5> QED BY <1>3, <3>1, <5>1 DEF EndOf
      <4>2. EndOf(n + 1) < Len(input) /\ input[EndOf(n + 1) + 1] = END
        BY <2>3, <4>1 DEF AtEnd
      <4> QED BY <1>1, <4>1, <4>2, EndIsLast
    <3>4. Stopped(n + 1)'
      BY <1>3, <3>3 DEF Stopped
    <3> QED BY <1>3, <1>4, <2>1, <2>2, <3>1, <3>4 DEF ReadInv, StatusInv, Statuses
  <2>4. CASE ~AtEnd(After)
    <3>1. status' = "options" /\ ~AtEnd(pos)'
      BY <1>3, <1>10, <2>4 DEF DecodeOption, AtEnd
    <3> QED BY <1>4, <2>1, <3>1 DEF ReadInv, StatusInv, Statuses
  <2> QED BY <2>3, <2>4
<1>11. CASE StopSilently
  <2>1. Stopped(n) /\ (sent = <<>> => Left = 0)
    BY <1>1, <1>2, <1>11, StopsThere
  <2>2. status' = "closing" /\ HasRead(n)' /\ Left' = Left
    BY <1>5, <1>7, <1>11 DEF StopSilently
  <2> QED BY <1>3, <1>4, <1>6, <2>1, <2>2 DEF ReadInv, StatusInv, Statuses
<1>12. CASE Close
  <2>1. Stopped(n) /\ (sent = <<>> => Left = 0)
    BY <1>2, <1>12 DEF Close, StatusInv
  <2>2. status' = (IF Left > 0 THEN "decoded" ELSE "panicked") /\ HasRead(n)' /\ Left' = Left
    BY <1>5, <1>7, <1>12 DEF Close
  <2>3. Left >= 0
    <3>1. pos \in Nat /\ Len(input) \in Nat /\ pos <= Len(input)
      BY <1>1, <1>2, Ends, InputArrived DEF HasRead, InputInv
    <3> QED BY <3>1 DEF Left
  <2>4. CASE Left > 0
    <3>1. status' = "decoded" /\ sent # <<>>
      BY <2>1, <2>2, <2>4
    <3> QED BY <1>3, <1>4, <1>6, <2>1, <2>2, <2>4, <3>1 DEF ReadInv, StatusInv, Statuses
  <2>5. CASE Left = 0
    <3>1. status' = "panicked"
      BY <2>2, <2>5
    <3> QED BY <1>3, <1>4, <1>6, <2>1, <2>2, <2>5, <3>1 DEF ReadInv, StatusInv, Statuses
  <2>6. Left \in Int
    BY <1>1, <1>2, Ends, InputArrived DEF HasRead, InputInv, Left
  <2> QED BY <2>3, <2>4, <2>5, <2>6
<1>13. CASE UNCHANGED vars
  <2>1. HasRead(n)' /\ Left' = Left /\ status' = status /\ pos' = pos
    BY <1>5, <1>7, <1>13 DEF vars
  <2>2. AtEnd(pos)' <=> AtEnd(pos)
    BY <1>3, <2>1 DEF AtEnd
  <2> QED BY <1>1, <1>2, <1>3, <1>4, <1>6, <2>1, <2>2 DEF ReadInv, StatusInv
<1> QED BY <1>8, <1>9, <1>10, <1>11, <1>12, <1>13 DEF Next

LEMMA ReadInvHolds == Spec => []ReadInv
<1>1. Init => ReadInv
  <2> SUFFICES ASSUME Init PROVE ReadInv
    OBVIOUS
  <2>1. InputInv
    BY SendableAssumption DEF Init, InputInv
  <2>2. HasRead(0)
    <3>1. EndOf(0) = 0 /\ Len(input) \in Nat
      BY <2>1, Ends, InputArrived DEF InputInv
    <3> QED BY <2>1, <3>1 DEF Init, HasRead, InputInv
  <2>3. StatusInv(0) /\ status \in Statuses
    BY DEF Init, StatusInv, Statuses
  <2> QED BY <2>1, <2>2, <2>3 DEF ReadInv
<1>2. ReadInv /\ [Next]_vars => ReadInv'
  BY ReadStep
<1> QED BY <1>1, <1>2, PTL DEF Spec

\* Type correctness of the decoder, whatever arrives.
THEOREM DecoderTypes == Spec => []TypeOK
<1>1. ReadInv => TypeOK
  <2> SUFFICES ASSUME ReadInv PROVE TypeOK
    OBVIOUS
  <2>1. PICK n \in Nat : HasRead(n)
    BY DEF ReadInv
  <2>2. pos \in 0 .. Len(input)
    BY <2>1, Ends, InputArrived DEF ReadInv, HasRead, InputInv
  <2> QED BY <2>1, <2>2, InputArrived DEF ReadInv, InputInv, HasRead, TypeOK, Statuses
<1> QED BY <1>1, ReadInvHolds, PTL

-----------------------------------------------------------------------------
(* What is read, in the sender's terms *)

\* An option means what the decoder keeps of it, or nothing.
MeaningsAgree ==
  \A o \in Sendable : o.means = IF Taken(o) THEN Kept(o.code, o.data) ELSE None

LEMMA ReadableIs ==
  ASSUME MeaningsAgree, InputInv, NEW n, HasRead(n), Stopped(n)
  PROVE  Readable = n
<1>1. /\ sent \in Seq(Sendable) /\ n \in 0 .. Len(sent) /\ EndOf(n) <= Len(input)
      /\ Len(input) \in Nat
      /\ \A i \in 1 .. n : Taken(sent[i])
  BY InputArrived DEF InputInv, HasRead
<1>2. \A i \in 1 .. Len(sent) : sent[i].means # None <=> Taken(sent[i])
  <2>1. ASSUME NEW i \in 1 .. Len(sent) PROVE sent[i].means # None <=> Taken(sent[i])
    <3>1. sent[i] \in Sendable
      BY <1>1
    <3>2. Taken(sent[i]) => Kept(sent[i].code, sent[i].data) # None
      BY <3>1, KeptBytes, SendableAssumption
    <3> QED BY <3>1, <3>2 DEF MeaningsAgree
  <2> QED BY <2>1
<1>3. Good(n)
  BY <1>1, <1>2 DEF Good
<1>4. ASSUME NEW m \in 0 .. Len(sent), Good(m) PROVE m <= n
  <2> SUFFICES ASSUME n < m PROVE FALSE
    BY <1>1
  <2>1. n + 1 \in 1 .. m /\ n + 1 \in 0 .. Len(sent) /\ n + 1 \in 1 .. Len(sent) /\ n < Len(sent)
    BY <1>1
  <2>2. Taken(sent[n + 1])
    BY <1>2, <1>4, <2>1 DEF Good
  <2>3. EndOf(n + 1) <= EndOf(m) /\ EndOf(n + 1) \in Nat /\ EndOf(m) \in Nat /\ EndOf(m) <= Len(input)
    BY <1>1, <1>4, <2>1, Ends DEF Good
  <2> QED BY <1>1, <2>1, <2>2, <2>3 DEF Stopped
<1>5. \A m \in 0 .. Len(sent) :
        (Good(m) /\ \A l \in 0 .. Len(sent) : Good(l) => l <= m) => m = n
  BY <1>1, <1>3, <1>4
<1> QED BY <1>1, <1>3, <1>4, <1>5 DEF Readable

LEMMA FirstType ==
  ASSUME MeaningsAgree, InputInv, NEW n, HasRead(n), NEW i \in 1 .. n,
         sent[i].code = DHCP_MESSAGE_TYPE,
         \A j \in 1 .. i - 1 : sent[j].code # DHCP_MESSAGE_TYPE
  PROVE  <<MessageType>> = sent[i].means
<1>1. /\ sent \in Seq(Sendable) /\ n \in 0 .. Len(sent) /\ DOMAIN options = 1 .. n
      /\ \A j \in 1 .. n : Taken(sent[j]) /\ options[j] = OptionOf(sent[j])
  BY DEF InputInv, HasRead
<1>2. \A j \in 1 .. n : options[j].code = sent[j].code
  BY <1>1 DEF OptionOf
<1> DEFINE types == {j \in DOMAIN options : options[j].code = DHCP_MESSAGE_TYPE}
<1>3. i \in types /\ \A j \in types : i <= j
  BY <1>1, <1>2
<1>4. (CHOOSE k \in types : \A j \in types : k <= j) = i
  <2>1. types \subseteq Int
    BY <1>1
  <2>2. \A k \in types : (\A j \in types : k <= j) => k = i
    BY <1>3, <2>1
  <2> HIDE DEF types
  <2> QED BY <1>3, <2>2
<1>5. MessageType = options[i].data[1]
  BY <1>3, <1>4 DEF MessageType
<1>6. sent[i] \in Sendable /\ Taken(sent[i])
  BY <1>1
<1>7. PICK d \in Seq(Byte) : d = sent[i].data /\ d # <<>>
  <2>1. sent[i].data # <<>>
    BY <1>6 DEF Taken, Accepts, Addressed, DHCP_MESSAGE_TYPE, SERVER_IDENTIFIER,
                REQUESTED_IP_ADDRESS, SUBNET_MASK, IP_ADDRESS_LEASE_TIME, HOST_NAME, MESSAGE
  <2> QED BY <1>6, <2>1, SendableFields
<1>8. Kept(sent[i].code, d) = SubSeq(d, 1, 1)
  BY <1>7 DEF Kept, Addressed, DHCP_MESSAGE_TYPE, SERVER_IDENTIFIER, REQUESTED_IP_ADDRESS,
              SUBNET_MASK, IP_ADDRESS_LEASE_TIME
<1>9. SubSeq(d, 1, 1) = <<d[1]>> /\ SubSeq(d, 1, 1)[1] = d[1]
  <2>1. Len(d) \in Nat /\ Len(d) >= 1 /\ d[1] \in Byte
    BY <1>7
  <2>2. PICK v : v = SubSeq(d, 1, 1)
    OBVIOUS
  <2>3. v \in Seq(Byte) /\ Len(v) = 1 /\ v[1] = d[1]
    BY <2>1, <2>2
  <2>4. DOMAIN v = 1 .. 1 /\ \A k \in 1 .. 1 : v[k] = <<d[1]>>[k]
    BY <2>3
  <2>5. v = <<d[1]>>
    BY <2>3, <2>4
  <2> QED BY <2>2, <2>3, <2>5, Zenon
<1>10. options[i].data = SubSeq(d, 1, 1) /\ sent[i].means = SubSeq(d, 1, 1)
  BY <1>1, <1>6, <1>7, <1>8 DEF OptionOf, MeaningsAgree
<1> QED BY <1>5, <1>9, <1>10

\* A datagram that is decoded yields the sender's options up to the first that
\* was cut or means nothing to the decoder, and the message type is the first.
THEOREM ReadingIsExact ==
  ASSUME MeaningsAgree
  PROVE  Spec => []ReadsWhatWasSent
<1>1. ReadInv => ReadsWhatWasSent
  <2> SUFFICES ASSUME ReadInv, status = "decoded" PROVE
        /\ options = [i \in 1 .. Readable |-> [code |-> sent[i].code, data |-> sent[i].means]]
        /\ \A i \in 1 .. Readable :
             /\ sent[i].code = DHCP_MESSAGE_TYPE
             /\ \A j \in 1 .. i - 1 : sent[j].code # DHCP_MESSAGE_TYPE
             => <<MessageType>> = sent[i].means
    BY DEF ReadsWhatWasSent
  <2>1. PICK n \in Nat : HasRead(n) /\ StatusInv(n)
    BY DEF ReadInv
  <2>2. InputInv /\ Stopped(n)
    BY <2>1 DEF ReadInv, StatusInv
  <2>3. Readable = n
    BY <2>1, <2>2, ReadableIs
  <2>4. ASSUME NEW i \in 1 .. n
        PROVE  options[i] = [code |-> sent[i].code, data |-> sent[i].means]
    BY <2>1, <2>2 DEF HasRead, InputInv, OptionOf, MeaningsAgree
  <2>5. options = [i \in 1 .. n |-> [code |-> sent[i].code, data |-> sent[i].means]]
    BY <2>1, <2>4 DEF HasRead
  <2>6. \A i \in 1 .. n :
          /\ sent[i].code = DHCP_MESSAGE_TYPE
          /\ \A j \in 1 .. i - 1 : sent[j].code # DHCP_MESSAGE_TYPE
          => <<MessageType>> = sent[i].means
    BY <2>1, <2>2, FirstType
  <2> QED BY <2>3, <2>5, <2>6
<1> QED BY <1>1, ReadInvHolds, PTL

\* The decoder panics on nothing but an option area that is a single END, or
\* that ends behind an acceptable option without one.
THEOREM PanicsAreExact ==
  ASSUME MeaningsAgree
  PROVE  Spec => []PanicsExactly
<1>1. ReadInv => PanicsExactly
  <2> SUFFICES ASSUME ReadInv PROVE PanicsExactly
    OBVIOUS
  <2>1. PICK n \in Nat : HasRead(n) /\ StatusInv(n)
    BY DEF ReadInv
  <2>2. InputInv /\ sent \in Seq(Sendable) /\ pos = EndOf(n) /\ pos \in Nat /\ Len(input) \in Nat
    BY <2>1, Ends, InputArrived DEF ReadInv, InputInv, HasRead
  <2>3. Stopped(n) => Readable = n
    BY <2>1, <2>2, ReadableIs
  <2> QED BY <2>1, <2>2, <2>3 DEF PanicsExactly, StatusInv, Left
<1> QED BY <1>1, ReadInvHolds, PTL
=============================================================================
