---------------------------- MODULE SequenceFacts ----------------------------
(***************************************************************************)
(* Facts about natural numbers and flattened sequences that the proofs of  *)
(* several modules need.  Nothing here is about the program.               *)
(*                                                                         *)
(* What a recursive function computes is proved in three steps: some       *)
(* function satisfies its defining equation (by induction on its domain),  *)
(* so the one CHOSEN does; and what holds of its values follows from the   *)
(* equation by induction.  Induction itself is well-foundedness of < on    *)
(* Nat, stated for a set instead of a predicate.                           *)
(***************************************************************************)
EXTENDS Integers, SequencesExt, WellFoundedInduction, SequenceTheorems, TLAPS

-----------------------------------------------------------------------------
(* Induction *)

LEMMA LessThan == IsWellFoundedOn({p \in Nat \X Nat : p[1] < p[2]}, Nat)
  BY NatLessThanWellFounded, Zenon DEF OpToRel

\* Every set of natural numbers but {} has a smallest element.
LEMMA Smallest ==
  ASSUME NEW T, T \subseteq Nat, T # {}
  PROVE  \E m \in T : \A n \in T : m <= n
<1> DEFINE R == {p \in Nat \X Nat : p[1] < p[2]}
<1>1. PICK m \in T : \A n \in T : ~(<<n, m>> \in R)
  <2> HIDE DEF R
  <2>1. IsWellFoundedOn(R, Nat)
    BY LessThan DEF R
  <2> QED BY <2>1, WFMin
<1>2. ASSUME NEW n \in T PROVE m <= n
  <2>1. m \in Nat /\ n \in Nat
    OBVIOUS
  <2>2. ~(n < m)
    BY <1>1, <2>1
  <2> QED BY <2>1, <2>2
<1> QED BY <1>2

LEMMA Induction ==
  ASSUME NEW N \in Nat, NEW S, 0 \in S, \A n \in 1 .. N : n - 1 \in S => n \in S
  PROVE  \A n \in 0 .. N : n \in S
<1> DEFINE T == {n \in 0 .. N : n \notin S}
<1> SUFFICES ASSUME T # {} PROVE FALSE
  OBVIOUS
<1>1. PICK m \in T : \A n \in T : m <= n
  <2>1. T \subseteq Nat
    OBVIOUS
  <2> HIDE DEF T
  <2> QED BY <2>1, Smallest
<1>2. m \in 1 .. N /\ m - 1 \in 0 .. N
  BY <1>1
<1>3. m - 1 \notin T
  BY <1>1, <1>2
<1> QED BY <1>2, <1>3

-----------------------------------------------------------------------------
(* Concatenation *)

LEMMA ConcatIndex ==
  ASSUME NEW S, NEW s \in Seq(S), NEW t \in Seq(S)
  PROVE  /\ s \o t \in Seq(S)
         /\ Len(s) \in Nat /\ Len(t) \in Nat /\ Len(s \o t) = Len(s) + Len(t)
         /\ \A i \in 1 .. Len(s) : (s \o t)[i] = s[i]
         /\ \A i \in 1 .. Len(t) : (s \o t)[Len(s) + i] = t[i]
  BY ConcatProperties

LEMMA JoinLen ==
  ASSUME NEW S, NEW s \in Seq(S), NEW t \in Seq(S)
  PROVE  s \o t \in Seq(S) /\ Len(s \o t) = Len(s) + Len(t)
  BY ConcatIndex

\* w is s, of length m, and then t, of length n.
Joins(S, w, s, m, t, n) ==
  /\ w \in Seq(S) /\ Len(w) = m + n
  /\ \A i \in 1 .. m : w[i] = s[i]
  /\ \A i \in 1 .. n : w[m + i] = t[i]

LEMMA ConcatJoins ==
  ASSUME NEW S, NEW s \in Seq(S), NEW t \in Seq(S)
  PROVE  Joins(S, s \o t, s, Len(s), t, Len(t))
  BY ConcatIndex DEF Joins

LEMMA Joined ==
  ASSUME NEW S, NEW s \in Seq(S), NEW t \in Seq(S), NEW m \in Nat, NEW n \in Nat,
         Len(s) = m, Len(t) = n, NEW w, w = s \o t
  PROVE  Joins(S, w, s, m, t, n)
  BY ConcatJoins, Zenon

\* What is cut out of s where d stands in it.
LEMMA SubSeqIs ==
  ASSUME NEW S, NEW s, NEW p \in Nat, NEW d \in Seq(S),
         \A i \in 1 .. Len(d) : s[p + i] = d[i]
  PROVE  SubSeq(s, p + 1, p + Len(d)) = d
<1>1. PICK l \in Nat : l = Len(d)
  OBVIOUS
<1>2. \A i \in p + 1 .. p + l : s[i] \in S
  <2>1. ASSUME NEW i \in p + 1 .. p + l PROVE s[i] \in S
    <3>1. i - p \in 1 .. l /\ p + (i - p) = i
      OBVIOUS
    <3>2. s[i] = d[i - p]
      BY <1>1, <3>1, Zenon
    <3>3. d[i - p] \in S
      BY <1>1, <3>1
    <3> QED BY <3>2, <3>3
  <2> QED BY <2>1
<1>3. PICK v : v = SubSeq(s, p + 1, p + l)
  OBVIOUS
<1>4. p + 1 \in Int /\ p + l \in Int
  OBVIOUS
<1>5. /\ v \in Seq(S)
      /\ Len(v) = IF p + 1 <= p + l THEN p + l - (p + 1) + 1 ELSE 0
      /\ \A i \in 1 .. p + l - (p + 1) + 1 : v[i] = s[p + 1 + i - 1]
  BY <1>2, <1>3, <1>4, SubSeqProperties
<1>6. Len(v) = l
  BY <1>5
<1>7. \A i \in 1 .. l : v[i] = d[i]
  <2>1. ASSUME NEW i \in 1 .. l PROVE v[i] = d[i]
    <3>1. p + 1 + i - 1 = p + i /\ i \in 1 .. p + l - (p + 1) + 1
      OBVIOUS
    <3>2. v[i] = s[p + i]
      BY <1>5, <3>1
    <3> QED BY <1>1, <3>2
  <2> QED BY <2>1
<1>8. v = d
  BY <1>1, <1>5, <1>6, <1>7
<1> QED BY <1>1, <1>3, <1>8, Zenon

-----------------------------------------------------------------------------
(* FlattenSeq *)

\* A function satisfies the equation that FlattenSeq's recursion is.
LEMMA FlattenExists ==
  ASSUME NEW seqs, NEW N \in Nat
  PROVE  \E f : f = [i \in 1 .. N |-> IF i = 1 THEN seqs[i] ELSE f[i-1] \o seqs[i]]
<1> DEFINE Body(f, m) == [i \in 1 .. m |-> IF i = 1 THEN seqs[i] ELSE f[i-1] \o seqs[i]]
           S == {m \in Nat : \E f : f = Body(f, m)}
<1>1. 0 \in S
  <2>1. PICK e : e = [i \in {} |-> <<>>]
    OBVIOUS
  <2>2. e = Body(e, 0)
    BY <2>1, 1 .. 0 = {}
  <2> QED BY <2>2
<1>2. ASSUME NEW m \in 1 .. N, m - 1 \in S PROVE m \in S
  <2>1. PICK f : f = Body(f, m - 1)
    BY <1>2
  <2> DEFINE g == [i \in 1 .. m |->
                     IF i = m THEN IF m = 1 THEN seqs[i] ELSE f[m-1] \o seqs[i] ELSE f[i]]
  <2>2. ASSUME NEW i \in 1 .. m
        PROVE  g[i] = IF i = 1 THEN seqs[i] ELSE g[i-1] \o seqs[i]
    <3>1. CASE i = m
      BY <3>1
    <3>2. CASE i \in 1 .. m - 1
      <4>1. f[i] = IF i = 1 THEN seqs[i] ELSE f[i-1] \o seqs[i]
        BY <2>1, <3>2
      <4>2. g[i] = f[i] /\ (i # 1 => g[i-1] = f[i-1])
        BY <3>2
      <4> QED BY <4>1, <4>2
    <3> QED BY <3>1, <3>2
  <2>3. g = Body(g, m)
    BY <2>2
  <2>4. m \in Nat /\ \E h : h = Body(h, m)
    <3> HIDE DEF g, Body
    <3> QED BY <2>3
  <2> QED BY <2>4
<1>3. N \in S
  <2> HIDE DEF S
  <2> QED BY <1>1, <1>2, Induction
<1> QED BY <1>3

\* Lists of sequences.
Lists(S) == Seq(Seq(S))

LEMMA ListElements ==
  ASSUME NEW S, NEW seqs \in Lists(S), NEW i \in 1 .. Len(seqs)
  PROVE  seqs[i] \in Seq(S)
  BY DEF Lists

LEMMA ListPrefix ==
  ASSUME NEW S, NEW seqs \in Lists(S), NEW n \in 0 .. Len(seqs)
  PROVE  /\ SubSeq(seqs, 1, n) \in Lists(S)
         /\ Len(SubSeq(seqs, 1, n)) = n
         /\ \A i \in 1 .. n : SubSeq(seqs, 1, n)[i] = seqs[i]
<1> USE DEF Lists
<1>1. \A i \in 1 .. n : seqs[i] \in Seq(S)
  OBVIOUS
<1>2. /\ SubSeq(seqs, 1, n) \in Seq(Seq(S))
      /\ Len(SubSeq(seqs, 1, n)) = IF 1 <= n THEN n - 1 + 1 ELSE 0
      /\ \A i \in 1 .. n - 1 + 1 : SubSeq(seqs, 1, n)[i] = seqs[1 + i - 1]
  BY <1>1, SubSeqProperties
<1> QED BY <1>2

\* f has what flattening the first n of seqs gives, for every n up to N.
Flattens(f, seqs, N) ==
  /\ f[0] = <<>>
  /\ \A n \in 1 .. N : f[n] = f[n-1] \o seqs[n]

LEMMA FlattensStep ==
  ASSUME NEW f, NEW seqs, NEW N \in Nat, Flattens(f, seqs, N), NEW n \in 1 .. N
  PROVE  f[0] = <<>> /\ f[n] = f[n-1] \o seqs[n]
  BY Zenon DEF Flattens

LEMMA FlattenFcn ==
  ASSUME NEW S, NEW seqs \in Lists(S), NEW N \in Nat, Len(seqs) = N
  PROVE  \E f : Flattens(f, seqs, N) /\ FlattenSeq(seqs) = f[N]
<1>1. CASE N = 0
  <2>1. PICK f : f = [i \in {0} |-> <<>>]
    OBVIOUS
  <2>2. FlattenSeq(seqs) = <<>>
    BY <1>1 DEF FlattenSeq, Lists
  <2> QED BY <1>1, <2>1, <2>2 DEF Flattens
<1>2. CASE N # 0
  <2> DEFINE P(h) == h = [i \in 1 .. N |-> IF i = 1 THEN seqs[i] ELSE h[i-1] \o seqs[i]]
             fl == CHOOSE h : P(h)
  <2>1. \E h : P(h)
    BY FlattenExists
  <2>2. P(fl)
    <3> HIDE DEF P
    <3> QED BY <2>1
  <2>3. FlattenSeq(seqs) = fl[N]
    BY <1>2 DEF FlattenSeq
  <2> HIDE DEF fl
  <2> DEFINE f == [i \in 0 .. N |-> IF i = 0 THEN <<>> ELSE fl[i]]
  <2>4. ASSUME NEW i \in 1 .. N PROVE f[i] = f[i-1] \o seqs[i]
    <3>1. fl[i] = IF i = 1 THEN seqs[i] ELSE fl[i-1] \o seqs[i]
      BY <2>2
    <3>2. f[i] = fl[i] /\ f[i-1] = IF i = 1 THEN <<>> ELSE fl[i-1]
      OBVIOUS
    <3>3. seqs[i] \in Seq(S)
      BY ListElements
    <3>4. <<>> \o seqs[i] = seqs[i]
      BY <3>3, ConcatEmptySeq
    <3> HIDE DEF f
    <3> QED BY <3>1, <3>2, <3>4
  <2>5. f[0] = <<>> /\ f[N] = fl[N]
    BY <1>2
  <2> HIDE DEF f
  <2> QED BY <2>3, <2>4, <2>5 DEF Flattens
<1> QED BY <1>1, <1>2

\* Flattening goes on where flattening a prefix has stopped.
LEMMA FlattenPrefixes ==
  ASSUME NEW S, NEW seqs \in Lists(S), NEW N \in Nat, Len(seqs) = N
  PROVE  \E f : /\ Flattens(f, seqs, N)
                /\ \A n \in 0 .. N : f[n] \in Seq(S) /\ FlattenSeq(SubSeq(seqs, 1, n)) = f[n]
<1>1. PICK h : Flattens(h, seqs, N)
  BY FlattenFcn
<1>2. \A n \in 0 .. N : h[n] \in Seq(S)
  <2> DEFINE P(n) == h[n] \in Seq(S)
  <2>1. P(0)
    <3>1. h[0] = <<>>
      BY <1>1 DEF Flattens
    <3> QED BY <3>1
  <2>2. ASSUME NEW i \in 1 .. N, P(i - 1) PROVE P(i)
    <3>1. h[i] = h[i-1] \o seqs[i]
      BY <1>1, Zenon DEF Flattens
    <3>2. h[i-1] \in Seq(S) /\ seqs[i] \in Seq(S)
      BY <2>2, ListElements
    <3> QED BY <3>1, <3>2
  <2>3. \A n \in 0 .. N : P(n)
    <3> DEFINE T == {n \in 0 .. N : P(n)}
    <3> HIDE DEF P
    <3>1. 0 \in T /\ \A n \in 1 .. N : n - 1 \in T => n \in T
      BY <2>1, <2>2
    <3>2. \A n \in 0 .. N : n \in T
      <4> HIDE DEF T
      <4> QED BY <3>1, Induction
    <3> QED BY <3>2
  <2> QED BY <2>3
<1>3. ASSUME NEW n \in 0 .. N PROVE FlattenSeq(SubSeq(seqs, 1, n)) = h[n]
  <2>0. PICK s : s = SubSeq(seqs, 1, n)
    OBVIOUS
  <2>1. n \in Nat /\ s \in Lists(S) /\ Len(s) = n /\ \A i \in 1 .. n : s[i] = seqs[i]
    BY <2>0, ListPrefix
  <2>2. PICK g : Flattens(g, s, n) /\ FlattenSeq(s) = g[n]
    BY <2>1, FlattenFcn
  <2> DEFINE P(i) == g[i] = h[i]
  <2>3. P(0)
    BY <1>1, <2>2 DEF Flattens
  <2>4. ASSUME NEW i \in 1 .. n, P(i - 1) PROVE P(i)
    <3>1. g[i] = g[i-1] \o s[i]
      BY <2>2, Zenon DEF Flattens
    <3>2. i \in 1 .. N
      OBVIOUS
    <3>3. h[i] = h[i-1] \o seqs[i]
      BY <1>1, <3>2, Zenon DEF Flattens
    <3> QED BY <2>1, <2>4, <3>1, <3>3
  <2>5. \A i \in 0 .. n : P(i)
    <3> DEFINE T == {i \in 0 .. n : P(i)}
    <3> HIDE DEF P
    <3>1. 0 \in T /\ \A i \in 1 .. n : i - 1 \in T => i \in T
      BY <2>3, <2>4
    <3>2. \A i \in 0 .. n : i \in T
      <4> HIDE DEF T
      <4> QED BY <3>1, Induction
    <3> QED BY <3>2
  <2> QED BY <2>0, <2>1, <2>2, <2>5
<1> QED BY <1>1, <1>2, <1>3

LEMMA FlattenType ==
  ASSUME NEW S, NEW seqs \in Lists(S)
  PROVE  FlattenSeq(seqs) \in Seq(S)
<1> DEFINE N == Len(seqs)
<1>1. N \in Nat /\ SubSeq(seqs, 1, N) = seqs
  BY SubSeqFull DEF Lists
<1> HIDE DEF N
<1>2. FlattenSeq(SubSeq(seqs, 1, N)) \in Seq(S)
  BY <1>1, FlattenPrefixes DEF N
<1> QED BY <1>1, <1>2

\* Where element n + 1 of the list begins in the flattened sequence.
Offset(seqs, n) == Len(FlattenSeq(SubSeq(seqs, 1, n)))

LEMMA Offsets ==
  ASSUME NEW S, NEW seqs \in Lists(S)
  PROVE  /\ Offset(seqs, 0) = 0
         /\ Offset(seqs, Len(seqs)) = Len(FlattenSeq(seqs))
         /\ \A n \in 0 .. Len(seqs) : Offset(seqs, n) \in Nat
         /\ \A n \in 1 .. Len(seqs) : Offset(seqs, n) = Offset(seqs, n - 1) + Len(seqs[n])
<1>1. PICK N \in Nat : N = Len(seqs)
  BY DEF Lists
<1>2. SubSeq(seqs, 1, Len(seqs)) = seqs
  BY SubSeqFull DEF Lists
<1>3. PICK f : /\ Flattens(f, seqs, N)
               /\ \A n \in 0 .. N : f[n] \in Seq(S) /\ FlattenSeq(SubSeq(seqs, 1, n)) = f[n]
  BY <1>1, FlattenPrefixes
<1>4. \A n \in 0 .. N : Offset(seqs, n) = Len(f[n]) /\ Len(f[n]) \in Nat
  BY <1>3 DEF Offset
<1>5. f[0] = <<>>
  BY <1>3 DEF Flattens
<1>6. ASSUME NEW n \in 1 .. N PROVE Offset(seqs, n) = Offset(seqs, n - 1) + Len(seqs[n])
  <2>1. f[n] = f[n-1] \o seqs[n]
    BY <1>3, FlattensStep
  <2>2. f[n-1] \in Seq(S) /\ seqs[n] \in Seq(S)
    BY <1>1, <1>3, ListElements
  <2>3. Len(f[n]) = Len(f[n-1]) + Len(seqs[n])
    BY <2>1, <2>2
  <2>4. n \in 0 .. N /\ n - 1 \in 0 .. N
    OBVIOUS
  <2>5. Offset(seqs, n) = Len(f[n]) /\ Offset(seqs, n - 1) = Len(f[n-1])
    BY <1>4, <2>4
  <2> QED BY <2>3, <2>5
<1>7. Offset(seqs, 0) = 0
  <2>1. Offset(seqs, 0) = Len(f[0])
    BY <1>4
  <2> QED BY <1>5, <2>1
<1> QED BY <1>1, <1>2, <1>4, <1>6, <1>7 DEF Offset

LEMMA OffsetsGrow ==
  ASSUME NEW S, NEW seqs \in Lists(S), NEW m \in 0 .. Len(seqs), NEW n \in m .. Len(seqs)
  PROVE  Offset(seqs, m) <= Offset(seqs, n)
<1>1. PICK N \in Nat : N = Len(seqs)
  BY DEF Lists
<1> DEFINE P(i) == m <= i => Offset(seqs, m) <= Offset(seqs, i)
<1>2. P(0)
  BY <1>1, Offsets
<1>3. ASSUME NEW i \in 1 .. N, P(i - 1) PROVE P(i)
  <2>1. Offset(seqs, i) = Offset(seqs, i - 1) + Len(seqs[i])
    BY <1>1, Offsets
  <2>2. Offset(seqs, i - 1) \in Nat /\ Offset(seqs, m) \in Nat
    BY <1>1, Offsets
  <2>3. Len(seqs[i]) \in Nat
    BY <1>1, ListElements
  <2> QED BY <1>1, <1>3, <2>1, <2>2, <2>3
<1>4. \A i \in 0 .. N : P(i)
  <2> DEFINE T == {i \in 0 .. N : P(i)}
  <2> HIDE DEF P
  <2>1. 0 \in T /\ \A i \in 1 .. N : i - 1 \in T => i \in T
    BY <1>2, <1>3
  <2>2. \A i \in 0 .. N : i \in T
    <3> HIDE DEF T
    <3> QED BY <2>1, Induction
  <2> QED BY <2>2
<1> QED BY <1>1, <1>4

\* What is behind that place is the element.
LEMMA FlattenAt ==
  ASSUME NEW S, NEW seqs \in Lists(S), NEW n \in 1 .. Len(seqs), NEW i \in 1 .. Len(seqs[n])
  PROVE  FlattenSeq(seqs)[Offset(seqs, n - 1) + i] = seqs[n][i]
<1>1. PICK N \in Nat : N = Len(seqs)
  BY DEF Lists
<1>2. SubSeq(seqs, 1, Len(seqs)) = seqs
  BY SubSeqFull DEF Lists
<1>3. PICK f : /\ Flattens(f, seqs, N)
               /\ \A k \in 0 .. N : f[k] \in Seq(S) /\ FlattenSeq(SubSeq(seqs, 1, k)) = f[k]
  BY <1>1, FlattenPrefixes
<1>4. PICK j : j = Offset(seqs, n - 1) + i
  OBVIOUS
\* One more element: what was there stays, and the element follows.
<1>5. ASSUME NEW k \in 1 .. N
      PROVE  /\ Len(f[k-1]) \in Nat /\ Len(f[k]) \in Nat /\ Len(f[k]) = Len(f[k-1]) + Len(seqs[k])
             /\ \A l \in 1 .. Len(f[k-1]) : f[k][l] = f[k-1][l]
             /\ \A l \in 1 .. Len(seqs[k]) : f[k][Len(f[k-1]) + l] = seqs[k][l]
  <2>1. PICK a \in Seq(S), b \in Seq(S) : a = f[k-1] /\ b = seqs[k]
    <3>1. f[k-1] \in Seq(S) /\ seqs[k] \in Seq(S)
      BY <1>1, <1>3, ListElements
    <3> QED BY <3>1
  <2>2. f[k] = a \o b
    <3>1. f[k] = f[k-1] \o seqs[k]
      BY <1>3, FlattensStep, Zenon
    <3> QED BY <2>1, <3>1, Zenon
  <2>3. PICK c : c = a \o b
    OBVIOUS
  <2>4. /\ Len(a) \in Nat /\ Len(c) \in Nat /\ Len(c) = Len(a) + Len(b)
        /\ \A l \in 1 .. Len(a) : c[l] = a[l]
        /\ \A l \in 1 .. Len(b) : c[Len(a) + l] = b[l]
    BY <2>3, ConcatIndex
  <2>5. c = f[k]
    BY <2>2, <2>3, Zenon
  <2> QED BY <2>1, <2>4, <2>5, Zenon
<1>6. j \in Nat /\ j >= 1 /\ j <= Len(f[n]) /\ f[n][j] = seqs[n][i]
  <2>1. n \in 1 .. N /\ n - 1 \in 0 .. N
    BY <1>1
  <2>2. Offset(seqs, n - 1) = Len(f[n-1])
    BY <1>3, <2>1, Zenon DEF Offset
  <2>3. PICK p \in Nat : p = Len(f[n-1])
    BY <1>5, <2>1
  <2>4. Len(f[n]) = p + Len(seqs[n]) /\ f[n][p + i] = seqs[n][i]
    BY <1>5, <2>1, <2>3, Zenon
  <2>5. Len(seqs[n]) \in Nat
    BY ListElements
  <2>6. j = p + i
    BY <1>4, <2>2, <2>3, Zenon
  <2>7. f[n][j] = seqs[n][i]
    BY <2>4, <2>6, Zenon
  <2>8. PICK q \in Nat : q = Len(seqs[n])
    BY <2>5
  <2>9. Len(f[n]) = p + q /\ i \in 1 .. q
    BY <2>4, <2>8, Zenon
  <2> QED BY <2>6, <2>7, <2>9
<1> DEFINE P(k) == n <= k => j <= Len(f[k]) /\ f[k][j] = seqs[n][i]
<1>8. P(0)
  BY <1>1
<1>9. ASSUME NEW k \in 1 .. N, P(k - 1) PROVE P(k)
  <2>1. CASE k <= n
    <3>1. n <= k => k = n
      BY <1>1, <2>1
    <3> QED BY <1>6, <3>1
  <2>2. CASE n <= k - 1
    <3>1. j <= Len(f[k-1]) /\ f[k-1][j] = seqs[n][i]
      BY <1>9, <2>2
    <3>2. PICK p \in Nat : p = Len(f[k-1])
      BY <1>5
    <3>3. j \in 1 .. p
      BY <1>6, <3>1, <3>2
    <3>4. f[k][j] = f[k-1][j]
      BY <1>5, <3>2, <3>3, Zenon
    <3>5. PICK q \in Nat : q = Len(f[k])
      BY <1>5
    <3>6. PICK r \in Nat : r = Len(seqs[k])
      BY <1>1, ListElements
    <3>7. q = p + r
      BY <1>5, <3>2, <3>5, <3>6, Zenon
    <3>8. j <= q
      BY <3>3, <3>7
    <3> QED BY <3>1, <3>4, <3>5, <3>8, Zenon
  <2> QED BY <1>1, <2>1, <2>2
<1>10. \A k \in 0 .. N : P(k)
  <2> DEFINE T == {k \in 0 .. N : P(k)}
  <2> HIDE DEF P
  <2>1. 0 \in T /\ \A k \in 1 .. N : k - 1 \in T => k \in T
    BY <1>8, <1>9
  <2>2. \A k \in 0 .. N : k \in T
    <3> HIDE DEF T
    <3> QED BY <2>1, Induction
  <2> QED BY <2>2
<1>11. f[N][j] = seqs[n][i] /\ FlattenSeq(seqs) = f[N]
  <2>1. N \in 0 .. N /\ n <= N
    BY <1>1
  <2>2. FlattenSeq(SubSeq(seqs, 1, N)) = f[N]
    BY <1>3, <2>1, Zenon
  <2>3. P(N)
    BY <1>10, <2>1, Zenon
  <2>4. f[N][j] = seqs[n][i]
    BY <2>1, <2>3, Zenon
  <2> QED BY <1>1, <1>2, <2>2, <2>4, Zenon
<1> QED BY <1>4, <1>11, Zenon

LEMMA Multiples ==
  ASSUME NEW k \in Nat, NEW n \in Int
  PROVE  k * n = k * (n - 1) + k /\ k * 0 = 0
  OBVIOUS

\* Elements of one length stand at its multiples.
LEMMA FlattenUniform ==
  ASSUME NEW S, NEW seqs \in Lists(S), NEW k \in Nat,
         \A i \in 1 .. Len(seqs) : Len(seqs[i]) = k
  PROVE  /\ \A n \in 0 .. Len(seqs) : Offset(seqs, n) = k * n
         /\ Len(FlattenSeq(seqs)) = k * Len(seqs)
<1>1. PICK N \in Nat : N = Len(seqs)
  BY DEF Lists
<1> DEFINE P(n) == Offset(seqs, n) = k * n
<1>2. P(0)
  BY Offsets, Multiples
<1>3. ASSUME NEW n \in 1 .. N, P(n - 1) PROVE P(n)
  <2>1. Offset(seqs, n) = Offset(seqs, n - 1) + Len(seqs[n]) /\ Len(seqs[n]) = k
    BY <1>1, Offsets
  <2>2. k * n = k * (n - 1) + k
    BY Multiples
  <2> QED BY <1>3, <2>1, <2>2, Zenon
<1>4. \A n \in 0 .. N : P(n)
  <2> DEFINE T == {n \in 0 .. N : P(n)}
  <2> HIDE DEF P
  <2>1. 0 \in T /\ \A n \in 1 .. N : n - 1 \in T => n \in T
    BY <1>2, <1>3
  <2>2. \A n \in 0 .. N : n \in T
    <3> HIDE DEF T
    <3> QED BY <2>1, Induction
  <2> QED BY <2>2
<1>5. P(N)
  BY <1>4
<1>6. Offset(seqs, N) = Len(FlattenSeq(seqs))
  BY <1>1, Offsets
<1> QED BY <1>1, <1>4, <1>5, <1>6, Zenon
=============================================================================
