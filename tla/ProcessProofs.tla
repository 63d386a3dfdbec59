--------------------------- MODULE ProcessProofs ----------------------------
(* Theorems about the configuration a process runs under (Process). *)
EXTENDS Process, SequenceFacts

\* The file, once its name for "unreadable" is excluded, is a list of lines.
FileOK ==
  Readable =>
    /\ Len(file) \in Nat
    /\ DOMAIN file = 1 .. Len(file)
    /\ \A i \in DOMAIN file : IsLine(file[i])

-----------------------------------------------------------------------------
(* Types *)

LEMMA InitFile ==
  ASSUME file \in Files PROVE FileOK
  BY FilesAssumption DEF FileOK, Readable

\* A line that is not refused leaves a configuration.
LEMMA AppliedIsConfig ==
  ASSUME NEW c, IsConfig(c), NEW line, IsLine(line), ~Refused(line)
  PROVE  IsConfig(Applied(c, line))
<1>1. CASE line \in {Skipped, Malformed}
  <2>1. line.key \notin Scalar \cup Listed
    BY <1>1 DEF Skipped, Malformed, Scalar, Plain, Switch, Ranged, Listed
  <2> QED BY <2>1 DEF Applied, Listed
<1>2. CASE line.key \in Scalar /\ line.value \in Value(line.key) \cup {Bad}
  <2>1. line.value \in Value(line.key)
    BY <1>2 DEF Refused
  <2>2. Applied(c, line) = [c EXCEPT !.field[line.key] = line.value]
    BY <1>2 DEF Applied, Scalar, Plain, Switch, Ranged
  <2> DEFINE d == [c EXCEPT !.field[line.key] = line.value]
  <2>3. /\ DOMAIN d = DOMAIN c
        /\ d.field = [c.field EXCEPT ![line.key] = line.value]
        /\ d.broadcast_ip = c.broadcast_ip
        /\ d.extra_broadcast_ips = c.extra_broadcast_ips
    <3>1. "field" \in DOMAIN c /\ DOMAIN d = DOMAIN c
      BY DEF IsConfig
    <3>2. d.field = [c.field EXCEPT ![line.key] = line.value]
      BY <3>1, Zenon
    <3>3. /\ d.broadcast_ip = c.broadcast_ip
          /\ d.extra_broadcast_ips = c.extra_broadcast_ips
      BY DEF IsConfig
    <3> QED BY <3>1, <3>2, <3>3
  <2>4. DOMAIN d.field = Scalar /\ \A k \in Scalar : d.field[k] \in Value(k)
    BY <2>1, <2>3, <1>2 DEF IsConfig
  <2> QED BY <2>2, <2>3, <2>4 DEF IsConfig
<1>3. CASE line.key \in Listed /\ line.value \in Seq(Address \cup {Bad}) \ {<<>>}
  <2>1. line.value \in Seq(Address)
    BY <1>3 DEF Refused
  <2>2. line.value # <<>> /\ Head(line.value) \in Address /\ Tail(line.value) \in Seq(Address)
    BY <2>1, <1>3
  <2>3. line.key \notin Scalar
    BY <1>3 DEF Listed, Scalar, Plain, Switch, Ranged
  <2>4. CASE line.key = "broadcast_ip"
    <3>1. Applied(c, line) = [c EXCEPT !.broadcast_ip = Head(line.value),
                                       !.extra_broadcast_ips = @ \o Tail(line.value)]
      BY <2>3, <2>4 DEF Applied
    <3>2. c.extra_broadcast_ips \o Tail(line.value) \in Seq(Address)
      BY <2>2 DEF IsConfig
    <3> QED BY <3>1, <3>2, <2>2 DEF IsConfig
  <2>5. CASE line.key = "extra_broadcast_ips"
    <3>1. Applied(c, line) = [c EXCEPT !.extra_broadcast_ips = @ \o line.value]
      BY <2>3, <2>5 DEF Applied
    <3>2. c.extra_broadcast_ips \o line.value \in Seq(Address)
      BY <2>1 DEF IsConfig
    <3> QED BY <3>1, <3>2 DEF IsConfig
  <2> QED BY <2>4, <2>5, <1>3 DEF Listed
<1> QED BY <1>1, <1>2, <1>3 DEF IsLine

\* Type correctness of the start of the process.
THEOREM StartTypes == Spec => []TypeOK
<1>1. Init => TypeOK
  BY FilesAssumption, ConfigAssumption DEF Init, TypeOK, Readable
<1>2. TypeOK /\ [Next]_vars => TypeOK'
  <2> SUFFICES ASSUME TypeOK, [Next]_vars PROVE TypeOK'
    OBVIOUS
  <2>0. FileOK
    BY InitFile DEF TypeOK
  <2>1. CASE ReadLine
    <3>1. read + 1 \in DOMAIN file /\ Readable
      BY <2>0, <2>1 DEF ReadLine, FileOK, TypeOK
    <3>2. IsConfig(cfg')
      BY <2>0, <2>1, <3>1, AppliedIsConfig DEF ReadLine, NextLine, FileOK, TypeOK
    <3> QED BY <2>0, <2>1, <3>1, <3>2 DEF ReadLine, TypeOK, Readable, FileOK
  <2>2. CASE Accept
    BY <2>2 DEF Accept, TypeOK, Readable
  <2>3. CASE FallBack
    BY <2>3, ConfigAssumption DEF FallBack, TypeOK, Readable
  <2>4. CASE Spawn \/ Bind \/ Load \/ End
    BY <2>4 DEF Spawn, Bind, Load, End, TypeOK, Readable
  <2>5. CASE V6 \/ V6End
    BY <2>5 DEF V6, V6Bind, V6Load, V6End, TypeOK, Readable
  <2>6. CASE UNCHANGED vars
    BY <2>6 DEF vars, TypeOK, Readable
  <2> QED BY <2>1, <2>2, <2>3, <2>4, <2>5, <2>6 DEF Next, Main
<1> QED BY <1>1, <1>2, PTL DEF Spec

-----------------------------------------------------------------------------
(* The configuration in force *)

\* v is what the first n lines give key k: its last occurrence, or the default.
LastTo(k, n, v) ==
  \/ /\ v = Defaults.field[k]
     /\ \A i \in 1 .. n : file[i].key # k
  \/ \E i \in 1 .. n :
       /\ file[i].key = k
       /\ file[i].value = v
       /\ \A j \in 1 .. n : file[j].key = k => j <= i

\* While the file is being read, the lines so far are all in cfg.
ReadSoFar ==
  main = "reading" /\ Readable =>
    /\ \A i \in 1 .. read : ~Refused(file[i])
    /\ \A k \in Scalar : LastTo(k, read, cfg.field[k])

StartInv == TypeOK /\ ReadSoFar /\ AsWritten /\ PoolsFit

\* A line sets its own key and no other.
LEMMA AppliedField ==
  ASSUME NEW c, IsConfig(c), NEW line, IsLine(line), ~Refused(line), NEW k \in Scalar
  PROVE  Applied(c, line).field[k] = IF line.key = k THEN line.value ELSE c.field[k]
<1>1. CASE line.key \in Scalar
  <2>1. Applied(c, line) = [c EXCEPT !.field[line.key] = line.value]
    BY <1>1 DEF Applied, Scalar, Plain, Switch, Ranged
  <2> DEFINE d == [c EXCEPT !.field[line.key] = line.value]
  <2>2. "field" \in DOMAIN c /\ DOMAIN c.field = Scalar
    BY DEF IsConfig
  <2>3. d.field = [c.field EXCEPT ![line.key] = line.value]
    BY <2>2, Zenon
  <2> QED BY <1>1, <2>1, <2>2, <2>3
<1>2. CASE line.key \notin Scalar
  <2>1. Applied(c, line).field = c.field
    BY <1>2 DEF Applied, IsConfig
  <2> QED BY <2>1, <1>2
<1> QED BY <1>1, <1>2

\* The last occurrence is what Written chooses.
LEMMA LastIsWritten ==
  ASSUME FileOK, Readable, NEW k \in Scalar, NEW v, LastTo(k, Len(file), v)
  PROVE  Written(k) = v
<1>1. DOMAIN file = 1 .. Len(file)
  BY DEF FileOK
<1>2. CASE \A i \in 1 .. Len(file) : file[i].key # k
  <2>1. At(k) = {} /\ v = Defaults.field[k]
    BY <1>1, <1>2 DEF At, LastTo
  <2> QED BY <2>1 DEF Written
<1>3. CASE \E i \in 1 .. Len(file) : file[i].key = k
  <2>1. PICK i \in At(k) : file[i].value = v /\ \A j \in At(k) : j <= i
    BY <1>1, <1>3 DEF LastTo, At
  <2>2. At(k) \subseteq Int
    BY <1>1 DEF At, FileOK
  <2>3. ASSUME NEW l \in At(k), \A j \in At(k) : j <= l PROVE l = i
    BY <2>1, <2>2, <2>3
  <2> QED BY <2>1, <2>3 DEF Written
<1> QED BY <1>2, <1>3

\* While reading, LoadFails is the opposite of a good file.
LEMMA WholeFileRead ==
  ASSUME TypeOK, ReadSoFar, main = "reading", Readable, read = Len(file)
  PROVE  /\ \A k \in Scalar : cfg.field[k] = Written(k)
         /\ Good <=> Valid(cfg)
<1>1. FileOK
  BY InitFile DEF TypeOK
<1>2. \A k \in Scalar : cfg.field[k] = Written(k)
  BY <1>1, LastIsWritten DEF ReadSoFar
<1> DEFINE f == [k \in Ranged |-> Written(k)]
<1>3. \A k \in Ranged : f[k] = cfg.field[k]
  BY <1>2 DEF Scalar
<1>4. (FitsDuid(f) /\ FitsV4(f) /\ FitsV6(f)) <=> Valid(cfg)
  BY <1>3 DEF Valid, FitsDuid, FitsV4, FitsV6, Ranged
<1>5. \A i \in DOMAIN file : ~Refused(file[i])
  BY <1>1 DEF FileOK, ReadSoFar
<1> QED BY <1>2, <1>4, <1>5 DEF Good

\* A file that is fallen back from is not good.
LEMMA FallBackIsBad ==
  ASSUME TypeOK, ReadSoFar, FallBack
  PROVE  ~Good
<1>1. CASE ~Readable
  BY <1>1 DEF Good
<1>2. CASE Readable /\ read < Len(file) /\ Refused(file[read + 1])
  <2>1. read + 1 \in DOMAIN file
    BY <1>2, InitFile DEF FileOK, TypeOK
  <2> QED BY <2>1, <1>2 DEF Good
<1>3. CASE Readable /\ read = Len(file) /\ ~Valid(cfg)
  BY <1>3, WholeFileRead DEF FallBack
<1> QED BY <1>1, <1>2, <1>3 DEF FallBack, LoadFails, NextLine

\* Nothing of the written values depends on anything but the file.
LEMMA FileKept ==
  ASSUME UNCHANGED file
  PROVE  /\ Good' <=> Good
         /\ \A k \in Scalar : Written(k)' = Written(k)
<1>1. \A k \in Scalar : Written(k)' = Written(k)
  BY DEF Written, At
<1>2. (\A i \in DOMAIN file : ~Refused(file[i]))' <=> \A i \in DOMAIN file : ~Refused(file[i])
  OBVIOUS
<1>3. Readable' <=> Readable
  BY DEF Readable
<1> DEFINE f == [k \in Ranged |-> Written(k)]
<1>4. f' = f
  BY <1>1 DEF Scalar
<1>5. (FitsDuid(f) /\ FitsV4(f) /\ FitsV6(f))' <=> FitsDuid(f) /\ FitsV4(f) /\ FitsV6(f)
  BY <1>4
<1> QED BY <1>1, <1>2, <1>3, <1>5 DEF Good

\* Reading one more line keeps track of all of them.
LEMMA ReadLineSoFar ==
  ASSUME TypeOK, ReadSoFar, ReadLine
  PROVE  ReadSoFar'
<1>0. FileOK
  BY InitFile DEF TypeOK
<1>1. /\ Readable /\ main = "reading" /\ read \in Nat /\ read < Len(file)
      /\ read' = read + 1 /\ file' = file
      /\ ~Refused(file[read + 1])
      /\ cfg' = Applied(cfg, file[read + 1])
  BY DEF ReadLine, NextLine, TypeOK
<1>2. IsLine(file[read + 1]) /\ IsConfig(cfg)
  BY <1>0, <1>1 DEF FileOK, TypeOK
<1>3. \A i \in 1 .. read' : ~Refused(file'[i])
  <2>1. \A i \in 1 .. read' : i \in 1 .. read \/ i = read + 1
    BY <1>1
  <2> QED BY <2>1, <1>1 DEF ReadSoFar
<1>4. ASSUME NEW k \in Scalar PROVE LastTo(k, read, cfg.field[k])'
  <2>1. cfg'.field[k] = IF file[read + 1].key = k THEN file[read + 1].value ELSE cfg.field[k]
    BY <1>1, <1>2, AppliedField
  <2>2. LastTo(k, read, cfg.field[k])
    BY <1>1 DEF ReadSoFar
  <2>3. CASE file[read + 1].key = k
    BY <1>1, <2>1, <2>3 DEF LastTo
  <2>4. CASE file[read + 1].key # k
    <3>1. cfg'.field[k] = cfg.field[k]
      BY <2>1, <2>4
    <3>2. \A i \in 1 .. read + 1 : file[i].key = k => i \in 1 .. read
      BY <1>1, <2>4
    <3>3. CASE \A i \in 1 .. read : file[i].key # k
      BY <1>1, <2>2, <3>1, <3>2, <3>3 DEF LastTo
    <3>4. CASE \E i \in 1 .. read : file[i].key = k
      <4>1. PICK i \in 1 .. read : /\ file[i].key = k /\ file[i].value = cfg.field[k]
                                  /\ \A j \in 1 .. read : file[j].key = k => j <= i
        BY <2>2, <3>4 DEF LastTo
      <4>2. i \in 1 .. read + 1
        BY <1>1
      <4>3. \A j \in 1 .. read + 1 : file[j].key = k => j <= i
        BY <3>2, <4>1
      <4> QED BY <1>1, <3>1, <4>1, <4>2, <4>3 DEF LastTo
    <3> QED BY <3>3, <3>4
  <2> QED BY <2>3, <2>4
<1> QED BY <1>3, <1>4 DEF ReadSoFar

-----------------------------------------------------------------------------

LEMMA StartInvHolds == Spec => []StartInv
<1>1. Init => ReadSoFar /\ AsWritten /\ PoolsFit
  BY DEF Init, ReadSoFar, LastTo, AsWritten, PoolsFit, InForce
<1>2. StartInv /\ TypeOK' /\ [Next]_vars => StartInv'
  <2> SUFFICES ASSUME StartInv, TypeOK', [Next]_vars PROVE StartInv'
    OBVIOUS
  <2> USE DEF StartInv
  <2>1. CASE ReadLine
    <3>1. ReadSoFar'
      BY <2>1, ReadLineSoFar
    <3>2. ~InForce'
      BY <2>1 DEF ReadLine, InForce
    <3> QED BY <3>1, <3>2 DEF AsWritten, PoolsFit
  <2>2. CASE Accept
    <3>1. Readable /\ read = Len(file) /\ Valid(cfg) /\ main = "reading" /\ UNCHANGED <<file, cfg>>
      BY <2>2 DEF Accept
    <3>2. Good /\ \A k \in Scalar : cfg.field[k] = Written(k)
      BY <3>1, WholeFileRead
    <3>3. AsWritten'
      BY <3>1, <3>2, FileKept DEF AsWritten
    <3>4. PoolsFit'
      BY <3>1 DEF Valid, PoolsFit
    <3>5. ReadSoFar'
      BY <2>2 DEF Accept, ReadSoFar
    <3> QED BY <3>3, <3>4, <3>5
  <2>3. CASE FallBack
    <3>1. cfg' = Defaults /\ UNCHANGED file
      BY <2>3 DEF FallBack
    <3>2. ~Good
      BY <2>3, FallBackIsBad
    <3>3. AsWritten'
      BY <3>1, <3>2, FileKept DEF AsWritten
    <3>4. PoolsFit'
      BY <3>1, ConfigAssumption DEF Valid, PoolsFit
    <3>5. ReadSoFar'
      BY <2>3 DEF FallBack, ReadSoFar
    <3> QED BY <3>3, <3>4, <3>5
  <2>4. CASE Spawn \/ Bind \/ Load \/ End \/ V6 \/ V6End \/ UNCHANGED vars
    <3>1. /\ UNCHANGED <<file, read, cfg>>
          /\ main' = "reading" <=> main = "reading"
      BY <2>4 DEF Spawn, Bind, Load, End, V6, V6Bind, V6Load, V6End, vars
    <3>2. AsWritten'
      BY <3>1, FileKept DEF AsWritten, InForce
    <3>3. PoolsFit'
      BY <3>1 DEF PoolsFit, InForce
    <3>4. ReadSoFar'
      BY <3>1 DEF ReadSoFar, Readable, LastTo
    <3> QED BY <3>2, <3>3, <3>4
  <2> QED BY <2>1, <2>2, <2>3, <2>4 DEF Next, Main
<1> QED BY <1>1, <1>2, StartTypes, PTL DEF Spec, StartInv

\* The configuration in force is the whole file's, each scalar key by its last
\* occurrence, or the defaults: for every file.
THEOREM WholeOrDefaults == Spec => []AsWritten
<1>1. StartInv => AsWritten
  BY DEF StartInv
<1> QED BY <1>1, StartInvHolds, PTL

\* The pools of both services fit their address spaces, whatever the file said.
THEOREM ServicesGetPoolsThatFit == Spec => []PoolsFit
<1>1. StartInv => PoolsFit
  BY DEF StartInv
<1> QED BY <1>1, StartInvHolds, PTL

-----------------------------------------------------------------------------
(* The destinations: what a line does to them *)

Values(s) == {s[i] : i \in DOMAIN s}

\* The extra destinations that a line names.
Extras(line) ==
  CASE line.key = "extra_broadcast_ips" -> Values(line.value)
    [] line.key = "broadcast_ip" -> {line.value[j] : j \in 2 .. Len(line.value)}
    [] OTHER -> {}

LEMMA ValuesWithin ==
  ASSUME NEW s, NEW X
  PROVE  Values(s) \subseteq X <=> \A i \in DOMAIN s : s[i] \in X
  BY DEF Values

LEMMA ConcatValues ==
  ASSUME NEW s \in Seq(Address), NEW t \in Seq(Address)
  PROVE  Values(s \o t) = Values(s) \cup Values(t)
<1>1. PICK m \in Nat, n \in Nat : m = Len(s) /\ n = Len(t)
  OBVIOUS
<1>2. PICK u : u = s \o t
  OBVIOUS
<1>3. /\ u \in Seq(Address) /\ Len(u) = m + n
      /\ \A i \in 1 .. m : u[i] = s[i]
      /\ \A i \in 1 .. n : u[m + i] = t[i]
  BY <1>1, <1>2, ConcatIndex
<1>4. DOMAIN s = 1 .. m /\ DOMAIN t = 1 .. n /\ DOMAIN u = 1 .. m + n
  BY <1>1, <1>3
<1>5. ASSUME NEW i \in 1 .. m + n PROVE u[i] \in Values(s) \cup Values(t)
  <2>1. CASE i <= m
    <3>1. i \in DOMAIN s /\ u[i] = s[i]
      BY <1>3, <1>4, <2>1
    <3> QED BY <3>1 DEF Values
  <2>2. CASE i > m
    <3>1. PICK j \in 1 .. n : i = m + j
      <4>1. i - m \in 1 .. n /\ i = m + (i - m)
        BY <2>2
      <4> QED BY <4>1
    <3> QED BY <1>3, <1>4, <3>1 DEF Values
  <2> QED BY <2>1, <2>2
<1>6. ASSUME NEW i \in 1 .. m PROVE s[i] \in Values(u)
  <2>1. i \in 1 .. m + n
    OBVIOUS
  <2> QED BY <1>3, <1>4, <2>1 DEF Values
<1>7. ASSUME NEW i \in 1 .. n PROVE t[i] \in Values(u)
  <2>1. m + i \in 1 .. m + n
    OBVIOUS
  <2> QED BY <1>3, <1>4, <2>1 DEF Values
<1>8. Values(u) \subseteq Values(s) \cup Values(t)
  BY <1>4, <1>5, ValuesWithin
<1>9. Values(s) \subseteq Values(u) /\ Values(t) \subseteq Values(u)
  BY <1>4, <1>6, <1>7, ValuesWithin
<1> QED BY <1>2, <1>8, <1>9

LEMMA TailValues ==
  ASSUME NEW s \in Seq(Address), s # <<>>
  PROVE  Values(Tail(s)) = {s[j] : j \in 2 .. Len(s)}
<1>1. PICK n \in Nat : n = Len(s) /\ n >= 1
  OBVIOUS
<1>2. PICK t : t = Tail(s)
  OBVIOUS
<1>3. /\ t \in Seq(Address) /\ Len(t) = n - 1
      /\ \A i \in 1 .. n - 1 : t[i] = s[i + 1]
  BY <1>1, <1>2
<1>4. DOMAIN t = 1 .. n - 1
  BY <1>3
<1>5. ASSUME NEW i \in 1 .. n - 1 PROVE t[i] \in {s[j] : j \in 2 .. n}
  <2>1. i + 1 \in 2 .. n
    BY <1>1
  <2> QED BY <1>3, <2>1
<1>6. ASSUME NEW j \in 2 .. n PROVE s[j] \in Values(t)
  <2>1. PICK i \in 1 .. n - 1 : j = i + 1
    <3>1. j - 1 \in 1 .. n - 1 /\ j = j - 1 + 1
      BY <1>1
    <3> QED BY <3>1
  <2> QED BY <1>3, <1>4, <2>1 DEF Values
<1>7. Values(t) \subseteq {s[j] : j \in 2 .. n}
  BY <1>4, <1>5, ValuesWithin
<1>8. {s[j] : j \in 2 .. n} \subseteq Values(t)
  BY <1>6
<1> QED BY <1>1, <1>2, <1>7, <1>8

LEMMA AppliedDestinations ==
  ASSUME NEW c, IsConfig(c), NEW line, IsLine(line), ~Refused(line)
  PROVE  /\ Applied(c, line).broadcast_ip
              = IF line.key = "broadcast_ip" THEN Head(line.value) ELSE c.broadcast_ip
         /\ Values(Applied(c, line).extra_broadcast_ips)
              = Values(c.extra_broadcast_ips) \cup Extras(line)
<1>1. CASE line.key \notin Listed
  <2>1. Extras(line) = {}
    BY <1>1 DEF Extras, Listed
  <2>2. /\ Applied(c, line).broadcast_ip = c.broadcast_ip
        /\ Applied(c, line).extra_broadcast_ips = c.extra_broadcast_ips
    BY <1>1 DEF Applied, IsConfig, Listed
  <2> QED BY <1>1, <2>1, <2>2 DEF Listed
<1>2. CASE line.key \in Listed
  <2>1. line \notin {Skipped, Malformed} /\ line.key \notin Scalar
    BY <1>2 DEF Listed, Skipped, Malformed, Scalar, Plain, Switch, Ranged
  <2>2. line.value \in Seq(Address) /\ line.value # <<>>
    <3>1. line.value \in Seq(Address \cup {Bad}) \ {<<>>}
      BY <2>1 DEF IsLine
    <3>2. \A i \in DOMAIN line.value : line.value[i] # Bad
      BY <1>2 DEF Refused
    <3> QED BY <3>1, <3>2
  <2>3. c.extra_broadcast_ips \in Seq(Address)
    BY DEF IsConfig
  <2>4. CASE line.key = "broadcast_ip"
    <3>1. Applied(c, line) = [c EXCEPT !.broadcast_ip = Head(line.value),
                                       !.extra_broadcast_ips = @ \o Tail(line.value)]
      BY <2>1, <2>4 DEF Applied
    <3>2. /\ Applied(c, line).broadcast_ip = Head(line.value)
          /\ Applied(c, line).extra_broadcast_ips = c.extra_broadcast_ips \o Tail(line.value)
      BY <3>1 DEF IsConfig
    <3>3. Tail(line.value) \in Seq(Address)
      BY <2>2
    <3>4. Extras(line) = Values(Tail(line.value))
      BY <2>2, <2>4, TailValues DEF Extras
    <3> QED BY <2>3, <2>4, <3>2, <3>3, <3>4, ConcatValues
  <2>5. CASE line.key = "extra_broadcast_ips"
    <3>1. Applied(c, line) = [c EXCEPT !.extra_broadcast_ips = @ \o line.value]
      BY <2>1, <2>5 DEF Applied
    <3>2. /\ Applied(c, line).broadcast_ip = c.broadcast_ip
          /\ Applied(c, line).extra_broadcast_ips = c.extra_broadcast_ips \o line.value
      BY <3>1 DEF IsConfig
    <3>3. Extras(line) = Values(line.value)
      BY <2>5 DEF Extras
    <3> QED BY <2>2, <2>3, <2>5, <3>2, <3>3, ConcatValues
  <2> QED BY <1>2, <2>4, <2>5 DEF Listed
<1> QED BY <1>1, <1>2

-----------------------------------------------------------------------------
(* The destinations: what the whole file does to them *)

\* v is the primary destination after the first n lines.
PrimaryTo(n, v) ==
  \/ /\ v = Defaults.broadcast_ip
     /\ \A i \in 1 .. n : file[i].key # "broadcast_ip"
  \/ \E i \in 1 .. n :
       /\ file[i].key = "broadcast_ip"
       /\ Head(file[i].value) = v
       /\ \A j \in 1 .. n : file[j].key = "broadcast_ip" => j <= i

ExtrasTo(n) == UNION {Extras(file[i]) : i \in 1 .. n}

\* While the file is being read, cfg has the destinations of the lines so far.
DestinationsSoFar ==
  main = "reading" /\ Readable =>
    /\ PrimaryTo(read, cfg.broadcast_ip)
    /\ Values(cfg.extra_broadcast_ips)
         = Values(Defaults.extra_broadcast_ips) \cup ExtrasTo(read)

\* The extra destinations that any line of the file names.
ExtraWritten ==
  (UNION {{file[i].value[j] : j \in DOMAIN file[i].value} : i \in At("extra_broadcast_ips")})
    \cup (UNION {{file[i].value[j] : j \in 2 .. Len(file[i].value)} : i \in At("broadcast_ip")})

\* What the code makes of duplicate keys: the last primary destination, the
\* extra ones of every line, and the default ones.
Accumulated ==
  InForce /\ Good =>
    LET all == Broadcasts(cfg)
    IN  /\ all[1] = PrimaryWritten
        /\ \A i, j \in DOMAIN all : i # j => all[i] # all[j]
        /\ {all[i] : i \in DOMAIN all}
             = {PrimaryWritten} \cup ExtraWritten
                 \cup {Defaults.extra_broadcast_ips[i] : i \in DOMAIN Defaults.extra_broadcast_ips}

DestinationsInv == DestinationsSoFar /\ Accumulated

LEMMA ReadLineDestinations ==
  ASSUME TypeOK, DestinationsSoFar, ReadLine
  PROVE  DestinationsSoFar'
<1>0. FileOK
  BY InitFile DEF TypeOK
<1>1. /\ Readable /\ main = "reading" /\ read \in Nat /\ read < Len(file)
      /\ read' = read + 1 /\ file' = file
      /\ ~Refused(file[read + 1])
      /\ cfg' = Applied(cfg, file[read + 1])
  BY DEF ReadLine, NextLine, TypeOK
<1>2. IsLine(file[read + 1]) /\ IsConfig(cfg)
  BY <1>0, <1>1 DEF FileOK, TypeOK
<1>3. /\ cfg'.broadcast_ip = IF file[read + 1].key = "broadcast_ip"
                               THEN Head(file[read + 1].value) ELSE cfg.broadcast_ip
      /\ Values(cfg'.extra_broadcast_ips)
           = Values(cfg.extra_broadcast_ips) \cup Extras(file[read + 1])
  BY <1>1, <1>2, AppliedDestinations
<1>4. /\ PrimaryTo(read, cfg.broadcast_ip)
      /\ Values(cfg.extra_broadcast_ips)
           = Values(Defaults.extra_broadcast_ips) \cup ExtrasTo(read)
  BY <1>1 DEF DestinationsSoFar
<1>5. 1 .. read + 1 = (1 .. read) \cup {read + 1}
  BY <1>1
<1>6. ExtrasTo(read)' = ExtrasTo(read) \cup Extras(file[read + 1])
  <2>1. ExtrasTo(read)' = UNION {Extras(file[i]) : i \in 1 .. read + 1}
    BY <1>1 DEF ExtrasTo, Extras, Values
  <2> QED BY <1>5, <2>1 DEF ExtrasTo
<1>7. PrimaryTo(read, cfg.broadcast_ip)'
  <2>1. CASE file[read + 1].key = "broadcast_ip"
    BY <1>1, <1>3, <2>1 DEF PrimaryTo
  <2>2. CASE file[read + 1].key # "broadcast_ip"
    <3>1. cfg'.broadcast_ip = cfg.broadcast_ip
      BY <1>3, <2>2
    <3>2. CASE \A i \in 1 .. read : file[i].key # "broadcast_ip"
      BY <1>1, <1>4, <1>5, <2>2, <3>1, <3>2 DEF PrimaryTo
    <3>3. CASE \E i \in 1 .. read : file[i].key = "broadcast_ip"
      <4>1. PICK i \in 1 .. read :
              /\ file[i].key = "broadcast_ip" /\ Head(file[i].value) = cfg.broadcast_ip
              /\ \A j \in 1 .. read : file[j].key = "broadcast_ip" => j <= i
        BY <1>4, <3>3 DEF PrimaryTo
      <4>2. i \in 1 .. read + 1
        BY <1>1
      <4>3. \A j \in 1 .. read + 1 : file[j].key = "broadcast_ip" => j <= i
        BY <1>5, <2>2, <4>1
      <4> QED BY <1>1, <3>1, <4>1, <4>2, <4>3 DEF PrimaryTo
    <3> QED BY <3>2, <3>3
  <2> QED BY <2>1, <2>2
<1>8. /\ Values(cfg.extra_broadcast_ips)' = Values(cfg'.extra_broadcast_ips)
      /\ Values(Defaults.extra_broadcast_ips)' = Values(Defaults.extra_broadcast_ips)
  BY DEF Values
<1> QED BY <1>3, <1>4, <1>6, <1>7, <1>8 DEF DestinationsSoFar

\* What the last line leaves is what the properties say of the file.
LEMMA WholeFileDestinations ==
  ASSUME TypeOK, DestinationsSoFar, main = "reading", Readable, read = Len(file)
  PROVE  /\ cfg.broadcast_ip = PrimaryWritten
         /\ Values(cfg.extra_broadcast_ips)
              = ExtraWritten \cup Values(Defaults.extra_broadcast_ips)
<1>0. DOMAIN file = 1 .. Len(file) /\ Len(file) \in Nat
  BY InitFile DEF TypeOK, FileOK
<1>1. /\ PrimaryTo(Len(file), cfg.broadcast_ip)
      /\ Values(cfg.extra_broadcast_ips)
           = Values(Defaults.extra_broadcast_ips) \cup ExtrasTo(Len(file))
  BY DEF DestinationsSoFar
<1>2. ExtrasTo(Len(file)) = ExtraWritten
  <2> DEFINE A == UNION {{file[i].value[j] : j \in DOMAIN file[i].value} :
                           i \in At("extra_broadcast_ips")}
             B == UNION {{file[i].value[j] : j \in 2 .. Len(file[i].value)} :
                           i \in At("broadcast_ip")}
  <2>0. \A x : x \in ExtraWritten <=> x \in A \/ x \in B
    <3>1. ExtraWritten = A \cup B
      BY Zenon DEF ExtraWritten
    <3> HIDE DEF A, B
    <3> QED BY <3>1
  <2>1. ASSUME NEW x \in ExtrasTo(Len(file)) PROVE x \in ExtraWritten
    <3>1. PICK i \in DOMAIN file : x \in Extras(file[i])
      BY <1>0 DEF ExtrasTo
    <3>2. CASE file[i].key = "extra_broadcast_ips"
      <4>1. i \in At("extra_broadcast_ips")
        BY <3>1, <3>2 DEF At
      <4>2. x \in {file[i].value[j] : j \in DOMAIN file[i].value}
        BY <3>1, <3>2 DEF Extras, Values
      <4>3. x \in A
        BY <4>1, <4>2, Zenon
      <4> HIDE DEF A, B
      <4> QED BY <2>0, <4>3
    <3>3. CASE file[i].key = "broadcast_ip"
      <4>1. i \in At("broadcast_ip")
        BY <3>1, <3>3 DEF At
      <4>2. x \in {file[i].value[j] : j \in 2 .. Len(file[i].value)}
        BY <3>1, <3>3 DEF Extras
      <4>3. x \in B
        BY <4>1, <4>2, Zenon
      <4> HIDE DEF A, B
      <4> QED BY <2>0, <4>3
    <3> QED BY <3>1, <3>2, <3>3 DEF Extras
  <2>2. ASSUME NEW x \in ExtraWritten PROVE x \in ExtrasTo(Len(file))
    <3>1. \/ \E i \in At("extra_broadcast_ips") : x \in Values(file[i].value)
          \/ \E i \in At("broadcast_ip") : x \in {file[i].value[j] : j \in 2 .. Len(file[i].value)}
      <4>1. CASE x \in A
        <5>1. PICK i \in At("extra_broadcast_ips") :
                x \in {file[i].value[j] : j \in DOMAIN file[i].value}
          BY <4>1, Zenon
        <5> QED BY <5>1, Zenon DEF Values
      <4>2. CASE x \in B
        BY <4>2, Zenon
      <4> HIDE DEF A, B
      <4> QED BY <2>0, <4>1, <4>2
    <3>2. \E i \in DOMAIN file : x \in Extras(file[i])
      BY <3>1 DEF At, Extras
    <3> QED BY <1>0, <3>2 DEF ExtrasTo
  <2> QED BY <2>1, <2>2
<1>3. cfg.broadcast_ip = PrimaryWritten
  <2>1. CASE \A i \in 1 .. Len(file) : file[i].key # "broadcast_ip"
    <3>1. At("broadcast_ip") = {} /\ cfg.broadcast_ip = Defaults.broadcast_ip
      BY <1>0, <1>1, <2>1 DEF PrimaryTo, At
    <3> QED BY <3>1 DEF PrimaryWritten
  <2>2. CASE \E i \in 1 .. Len(file) : file[i].key = "broadcast_ip"
    <3>1. PICK i \in At("broadcast_ip") : /\ Head(file[i].value) = cfg.broadcast_ip
                                          /\ \A j \in At("broadcast_ip") : j <= i
      BY <1>0, <1>1, <2>2 DEF PrimaryTo, At
    <3>2. At("broadcast_ip") \subseteq Int
      BY <1>0 DEF At
    <3>3. ASSUME NEW l \in At("broadcast_ip"), \A j \in At("broadcast_ip") : j <= l PROVE l = i
      BY <3>1, <3>2, <3>3
    <3> QED BY <3>1, <3>3 DEF PrimaryWritten
  <2> QED BY <2>1, <2>2
<1> QED BY <1>1, <1>2, <1>3

-----------------------------------------------------------------------------
(* The destinations: broadcasts() *)

LEMMA AppendAll ==
  ASSUME NEW S, NEW s \in Seq(S), NEW e \in S
  PROVE  /\ Append(s, e) \in Seq(S)
         /\ Len(s) \in Nat /\ Len(Append(s, e)) = Len(s) + 1
         /\ \A i \in 1 .. Len(s) : Append(s, e)[i] = s[i]
         /\ Append(s, e)[Len(s) + 1] = e
  BY AppendProperties

\* out[n] is the list of destinations once n of the extra ones are looked at.
Collects(out, first, extra, N) ==
  /\ out[0] = <<first>>
  /\ \A n \in 1 .. N :
       out[n] = IF InSeq(extra[n], out[n-1]) THEN out[n-1] ELSE Append(out[n-1], extra[n])

\* The recursion in Broadcasts.
IsCollecting(out, first, extra, N) ==
  out = [n \in 0 .. N |->
           IF n = 0 THEN <<first>>
           ELSE IF InSeq(extra[n], out[n-1]) THEN out[n-1]
           ELSE Append(out[n-1], extra[n])]

LEMMA CollectsExists ==
  ASSUME NEW first, NEW extra, NEW N \in Nat
  PROVE  \E out : IsCollecting(out, first, extra, N)
<1> DEFINE Grown(s, n) == IF InSeq(extra[n], s) THEN s ELSE Append(s, extra[n])
           Body(f, m) == [n \in 0 .. m |-> IF n = 0 THEN <<first>> ELSE Grown(f[n-1], n)]
           S == {m \in Nat : \E f : f = Body(f, m)}
<1> HIDE DEF Grown
<1>1. 0 \in S
  <2>1. PICK e : e = [n \in {0} |-> <<first>>]
    OBVIOUS
  <2>2. e = Body(e, 0)
    <3>1. \A n \in 0 .. 0 : n = 0
      OBVIOUS
    <3>2. 0 .. 0 = {0}
      OBVIOUS
    <3> QED BY <2>1, <3>1, <3>2
  <2> QED BY <2>2
<1>2. ASSUME NEW m \in 1 .. N, m - 1 \in S PROVE m \in S
  <2>1. PICK f : f = Body(f, m - 1)
    BY <1>2
  <2> DEFINE g == [n \in 0 .. m |-> IF n = m THEN Grown(f[m-1], m) ELSE f[n]]
  <2>2. ASSUME NEW n \in 0 .. m
        PROVE  g[n] = IF n = 0 THEN <<first>> ELSE Grown(g[n-1], n)
    <3>1. CASE n = m
      BY <3>1
    <3>2. CASE n \in 0 .. m - 1
      <4>1. f[n] = IF n = 0 THEN <<first>> ELSE Grown(f[n-1], n)
        BY <2>1, <3>2
      <4>2. g[n] = f[n] /\ (n # 0 => g[n-1] = f[n-1])
        BY <3>2
      <4> QED BY <4>1, <4>2
    <3> QED BY <3>1, <3>2
  <2>3. g = Body(g, m)
    BY <2>2
  <2>4. m \in Nat /\ \E h : h = Body(h, m)
    <3> HIDE DEF g, Body
    <3> QED BY <2>3
  <2> QED BY <2>4
<1>3. N \in S
  <2> HIDE DEF S
  <2> QED BY <1>1, <1>2, Induction
<1> QED BY <1>3 DEF Grown, IsCollecting

\* s has the first destination and the first n of extra, each of them once.
AreDestinations(s, first, extra, n) ==
  /\ s \in Seq(Address) /\ s # <<>> /\ s[1] = first
  /\ \A i, j \in 1 .. Len(s) : i # j => s[i] # s[j]
  /\ {s[i] : i \in 1 .. Len(s)} = {first} \cup {extra[i] : i \in 1 .. n}

LEMMA CollectOne ==
  ASSUME NEW first \in Address, NEW extra \in Seq(Address), NEW n \in 1 .. Len(extra),
         NEW s, AreDestinations(s, first, extra, n - 1)
  PROVE  AreDestinations(IF InSeq(extra[n], s) THEN s ELSE Append(s, extra[n]), first, extra, n)
<1>1. /\ s \in Seq(Address) /\ s # <<>> /\ s[1] = first
      /\ \A i, j \in 1 .. Len(s) : i # j => s[i] # s[j]
      /\ {s[i] : i \in 1 .. Len(s)} = {first} \cup {extra[i] : i \in 1 .. n - 1}
  BY DEF AreDestinations
<1>2. DOMAIN s = 1 .. Len(s) /\ Len(s) \in Nat /\ extra[n] \in Address
  BY <1>1
<1>3. {extra[i] : i \in 1 .. n} = {extra[i] : i \in 1 .. n - 1} \cup {extra[n]}
  <2>1. 1 .. n = (1 .. n - 1) \cup {n}
    OBVIOUS
  <2> QED BY <2>1
<1>4. CASE InSeq(extra[n], s)
  <2>1. extra[n] \in {s[i] : i \in 1 .. Len(s)}
    BY <1>2, <1>4 DEF InSeq
  <2>2. {s[i] : i \in 1 .. Len(s)} = {first} \cup {extra[i] : i \in 1 .. n}
    BY <1>1, <1>3, <2>1
  <2> QED BY <1>1, <1>4, <2>2 DEF AreDestinations
<1>5. CASE ~InSeq(extra[n], s)
  <2>1. PICK t : t = Append(s, extra[n])
    OBVIOUS
  <2>2. /\ t \in Seq(Address) /\ Len(t) = Len(s) + 1
        /\ \A i \in 1 .. Len(s) : t[i] = s[i]
        /\ t[Len(s) + 1] = extra[n]
    BY <1>1, <1>2, <2>1, AppendAll
  <2>3. \A i \in 1 .. Len(s) : s[i] # extra[n]
    BY <1>2, <1>5 DEF InSeq
  <2>4. 1 .. Len(t) = (1 .. Len(s)) \cup {Len(s) + 1}
    BY <1>2, <2>2
  <2>5. \A i, j \in 1 .. Len(t) : i # j => t[i] # t[j]
    BY <1>1, <2>2, <2>3, <2>4
  <2>6. {t[i] : i \in 1 .. Len(t)} = {s[i] : i \in 1 .. Len(s)} \cup {extra[n]}
    BY <2>2, <2>4
  <2>7. Len(s) >= 1
    BY <1>1, <1>2
  <2>8. t # <<>> /\ t[1] = first
    BY <1>1, <1>2, <2>2, <2>7
  <2>9. AreDestinations(t, first, extra, n)
    <3>1. {t[i] : i \in 1 .. Len(t)} = {first} \cup {extra[i] : i \in 1 .. n}
      <4>1. {s[i] : i \in 1 .. Len(s)} = {first} \cup {extra[i] : i \in 1 .. n - 1}
        BY <1>1
      <4>2. \A X, Y, Z : (X \cup Y) \cup Z = X \cup (Y \cup Z)
        OBVIOUS
      <4> QED BY <4>1, <4>2, <1>3, <2>6, Zenon
    <3> QED BY <2>2, <2>5, <2>8, <3>1, Zenon DEF AreDestinations
  <2> QED BY <1>5, <2>1, <2>9, Zenon
<1> QED BY <1>4, <1>5

LEMMA BroadcastsExact ==
  ASSUME NEW c, IsConfig(c)
  PROVE  AreDestinations(Broadcasts(c), c.broadcast_ip, c.extra_broadcast_ips, Len(c.extra_broadcast_ips))
<1>0. PICK first \in Address, extra \in Seq(Address) :
        first = c.broadcast_ip /\ extra = c.extra_broadcast_ips
  BY DEF IsConfig
<1>1. PICK N \in Nat : N = Len(extra)
  OBVIOUS
<1> DEFINE P(h) == IsCollecting(h, first, extra, N)
           out == CHOOSE h : P(h)
<1>2. P(out)
  <2>1. \E h : P(h)
    BY CollectsExists, Zenon
  <2> HIDE DEF P
  <2> QED BY <2>1
<1>3. Broadcasts(c) = out[N]
  BY <1>0, <1>1, Zenon DEF Broadcasts, IsCollecting
<1> HIDE DEF out
<1>4. Collects(out, first, extra, N)
  <2>1. out[0] = <<first>>
    BY <1>2 DEF IsCollecting
  <2>2. ASSUME NEW n \in 1 .. N
        PROVE  out[n] = IF InSeq(extra[n], out[n-1]) THEN out[n-1] ELSE Append(out[n-1], extra[n])
    <3>1. n \in 0 .. N /\ n # 0
      OBVIOUS
    <3> QED BY <1>2, <3>1, Zenon DEF IsCollecting
  <2> HIDE DEF P
  <2> QED BY <2>1, <2>2, Zenon DEF Collects
<1> HIDE DEF P
<1> DEFINE Q(n) == AreDestinations(out[n], first, extra, n)
<1>5. Q(0)
  <2>1. PICK s : s = <<first>>
    OBVIOUS
  <2>2. out[0] = s
    BY <1>4, <2>1 DEF Collects
  <2>3. s \in Seq(Address) /\ s # <<>> /\ Len(s) = 1 /\ s[1] = first
    BY <2>1
  <2>4. {s[i] : i \in 1 .. Len(s)} = {first} \cup {extra[i] : i \in 1 .. 0}
    <3>1. 1 .. Len(s) = {1} /\ 1 .. 0 = {}
      BY <2>3
    <3> QED BY <2>3, <3>1
  <2>5. \A i, j \in 1 .. Len(s) : i # j => s[i] # s[j]
    BY <2>3
  <2>6. AreDestinations(s, first, extra, 0)
    BY <2>3, <2>4, <2>5 DEF AreDestinations
  <2> QED BY <2>2, <2>6, Zenon
<1>6. ASSUME NEW n \in 1 .. N, Q(n - 1) PROVE Q(n)
  <2>1. out[n] = IF InSeq(extra[n], out[n-1]) THEN out[n-1] ELSE Append(out[n-1], extra[n])
    BY <1>4, Zenon DEF Collects
  <2>2. n \in 1 .. Len(extra)
    BY <1>1
  <2>3. AreDestinations(IF InSeq(extra[n], out[n-1]) THEN out[n-1] ELSE Append(out[n-1], extra[n]),
               first, extra, n)
    BY <1>6, <2>2, CollectOne, Zenon
  <2> QED BY <2>1, <2>3, Zenon
<1>7. \A n \in 0 .. N : Q(n)
  <2> DEFINE T == {n \in 0 .. N : Q(n)}
  <2> HIDE DEF Q
  <2>1. 0 \in T /\ \A n \in 1 .. N : n - 1 \in T => n \in T
    BY <1>5, <1>6
  <2>2. \A n \in 0 .. N : n \in T
    <3> HIDE DEF T
    <3> QED BY <2>1, Induction
  <2> QED BY <2>2
<1>8. Q(N)
  <2>1. N \in 0 .. N
    OBVIOUS
  <2> HIDE DEF Q
  <2> QED BY <1>7, <2>1
<1> QED BY <1>0, <1>1, <1>3, <1>8, Zenon

\* What Accumulated says, of the file that the configuration comes from.
LEMMA ExactDestinations ==
  ASSUME IsConfig(cfg), cfg.broadcast_ip = PrimaryWritten,
         Values(cfg.extra_broadcast_ips) = ExtraWritten \cup Values(Defaults.extra_broadcast_ips)
  PROVE  LET all == Broadcasts(cfg)
         IN  /\ all[1] = PrimaryWritten
             /\ \A i, j \in DOMAIN all : i # j => all[i] # all[j]
             /\ {all[i] : i \in DOMAIN all}
                  = {PrimaryWritten} \cup ExtraWritten
                      \cup {Defaults.extra_broadcast_ips[i] : i \in DOMAIN Defaults.extra_broadcast_ips}
<1>1. PICK all : all = Broadcasts(cfg)
  OBVIOUS
<1>2. PICK extra \in Seq(Address) : extra = cfg.extra_broadcast_ips
  BY DEF IsConfig
<1>3. AreDestinations(all, PrimaryWritten, extra, Len(extra))
  BY <1>1, <1>2, BroadcastsExact
<1>4. /\ all \in Seq(Address) /\ all[1] = PrimaryWritten
      /\ \A i, j \in 1 .. Len(all) : i # j => all[i] # all[j]
      /\ {all[i] : i \in 1 .. Len(all)} = {PrimaryWritten} \cup {extra[i] : i \in 1 .. Len(extra)}
  BY <1>3 DEF AreDestinations
<1>5. DOMAIN all = 1 .. Len(all) /\ DOMAIN extra = 1 .. Len(extra)
  BY <1>4
<1>6. {extra[i] : i \in 1 .. Len(extra)} = ExtraWritten \cup Values(Defaults.extra_broadcast_ips)
  BY <1>2, <1>5 DEF Values
<1>7. \A X, Y, Z : (X \cup Y) \cup Z = X \cup (Y \cup Z)
  OBVIOUS
<1>8. {all[i] : i \in DOMAIN all}
        = {PrimaryWritten} \cup ExtraWritten \cup Values(Defaults.extra_broadcast_ips)
  <2>1. {all[i] : i \in DOMAIN all} = {all[i] : i \in 1 .. Len(all)}
    BY <1>5
  <2> QED BY <1>4, <1>6, <1>7, <2>1, Zenon
<1>9. \A i, j \in DOMAIN all : i # j => all[i] # all[j]
  BY <1>4, <1>5
<1>10. Values(Defaults.extra_broadcast_ips)
         = {Defaults.extra_broadcast_ips[i] : i \in DOMAIN Defaults.extra_broadcast_ips}
  BY Zenon DEF Values
<1>11. {all[i] : i \in DOMAIN all}
         = {PrimaryWritten} \cup ExtraWritten
             \cup {Defaults.extra_broadcast_ips[i] : i \in DOMAIN Defaults.extra_broadcast_ips}
  BY <1>8, <1>10, Zenon
<1>12. all[1] = PrimaryWritten
  BY <1>4
<1> QED BY <1>1, <1>9, <1>11, <1>12, Zenon

LEMMA DestinationsKept ==
  ASSUME UNCHANGED <<file, read, cfg>>, (main' = "reading") <=> (main = "reading"), DestinationsInv
  PROVE  DestinationsInv'
<1>1. Good' <=> Good
  BY FileKept
<1>2. PrimaryWritten' = PrimaryWritten /\ ExtraWritten' = ExtraWritten
  BY DEF PrimaryWritten, ExtraWritten, At
<1>3. Broadcasts(cfg)' = Broadcasts(cfg)
  OBVIOUS
<1>4. Accumulated'
  BY <1>1, <1>2, <1>3 DEF DestinationsInv, Accumulated, InForce
<1>5. DestinationsSoFar'
  <2>1. SUFFICES ASSUME main = "reading", Readable PROVE DestinationsSoFar'
    BY DEF DestinationsSoFar, Readable
  <2>2. /\ PrimaryTo(read, cfg.broadcast_ip)'
        /\ (Values(cfg.extra_broadcast_ips)
             = Values(Defaults.extra_broadcast_ips) \cup ExtrasTo(read))'
    <3>1. /\ PrimaryTo(read, cfg.broadcast_ip)
          /\ Values(cfg.extra_broadcast_ips)
               = Values(Defaults.extra_broadcast_ips) \cup ExtrasTo(read)
      BY <2>1 DEF DestinationsInv, DestinationsSoFar
    <3>2. PrimaryTo(read, cfg.broadcast_ip)' = PrimaryTo(read, cfg.broadcast_ip)
      BY DEF PrimaryTo
    <3>3. ExtrasTo(read)' = ExtrasTo(read)
      BY DEF ExtrasTo, Extras
    <3> QED BY <3>1, <3>2, <3>3
  <2> QED BY <2>2 DEF DestinationsSoFar
<1> QED BY <1>4, <1>5 DEF DestinationsInv

LEMMA DestinationsInvHolds == Spec => []DestinationsInv
<1>1. Init => DestinationsInv
  <2> SUFFICES ASSUME Init PROVE DestinationsInv
    OBVIOUS
  <2>1. main = "reading" /\ read = 0 /\ cfg = Defaults
    BY DEF Init
  <2>2. 1 .. read = {}
    BY <2>1
  <2>3. PrimaryTo(read, cfg.broadcast_ip) /\ ExtrasTo(read) = {}
    BY <2>1, <2>2 DEF PrimaryTo, ExtrasTo
  <2> QED BY <2>1, <2>3 DEF DestinationsInv, DestinationsSoFar, Accumulated, InForce
<1>2. DestinationsInv /\ StartInv /\ TypeOK' /\ [Next]_vars => DestinationsInv'
  <2> SUFFICES ASSUME DestinationsInv, StartInv, TypeOK', [Next]_vars PROVE DestinationsInv'
    OBVIOUS
  <2>1. CASE ReadLine
    <3>1. DestinationsSoFar'
      BY <2>1, ReadLineDestinations DEF DestinationsInv, StartInv
    <3>2. ~InForce'
      BY <2>1 DEF ReadLine, InForce
    <3> QED BY <3>1, <3>2 DEF DestinationsInv, Accumulated
  <2>2. CASE Accept
    <3>1. /\ Readable /\ read = Len(file) /\ main = "reading" /\ main' = "spawning"
          /\ UNCHANGED <<file, cfg>>
      BY <2>2 DEF Accept
    <3>2. /\ IsConfig(cfg) /\ cfg.broadcast_ip = PrimaryWritten
          /\ Values(cfg.extra_broadcast_ips)
               = ExtraWritten \cup Values(Defaults.extra_broadcast_ips)
      BY <3>1, WholeFileDestinations DEF DestinationsInv, StartInv, TypeOK
    <3>3. /\ PrimaryWritten' = PrimaryWritten /\ ExtraWritten' = ExtraWritten
          /\ cfg' = cfg
      BY <3>1 DEF PrimaryWritten, ExtraWritten, At
    <3>4. Accumulated'
      BY <3>2, <3>3, ExactDestinations DEF Accumulated
    <3> QED BY <3>1, <3>4 DEF DestinationsInv, DestinationsSoFar
  <2>3. CASE FallBack
    <3>1. main' = "spawning" /\ ~Good
      BY <2>3, FallBackIsBad DEF FallBack, StartInv
    <3>2. ~Good'
      BY <2>3, <3>1, FileKept DEF FallBack
    <3> QED BY <3>1, <3>2 DEF DestinationsInv, DestinationsSoFar, Accumulated
  <2>4. CASE Spawn \/ Bind \/ Load \/ End \/ V6 \/ V6End \/ UNCHANGED vars
    <3>1. /\ UNCHANGED <<file, read, cfg>>
          /\ (main' = "reading") <=> (main = "reading")
      BY <2>4 DEF Spawn, Bind, Load, End, V6, V6Bind, V6Load, V6End, vars
    <3> QED BY <3>1, DestinationsKept
  <2> QED BY <2>1, <2>2, <2>3, <2>4 DEF Next, Main
<1> QED BY <1>1, <1>2, StartTypes, StartInvHolds, PTL DEF Spec

\* More lines name no fewer destinations.
LEMMA ExtraOfAll ==
  ASSUME NEW L, L \subseteq DOMAIN file
  PROVE  ExtraOf(L) \subseteq ExtraOf(DOMAIN file)
<1> DEFINE VA(i) == {file[i].value[j] : j \in DOMAIN file[i].value}
           VB(i) == {file[i].value[j] : j \in 2 .. Len(file[i].value)}
           A(M) == UNION {VA(i) : i \in M \cap At("extra_broadcast_ips")}
           B(M) == UNION {VB(i) : i \in M \cap At("broadcast_ip")}
<1>1. \A M : ExtraOf(M) = A(M) \cup B(M)
  BY Zenon DEF ExtraOf
<1>2. A(L) \subseteq A(DOMAIN file) /\ B(L) \subseteq B(DOMAIN file)
  <2> HIDE DEF VA, VB
  <2> QED OBVIOUS
<1> HIDE DEF A, B
<1> QED BY <1>1, <1>2

\* All the lines name what the code collects.
LEMMA ExtraOfFile == ExtraOf(DOMAIN file) = ExtraWritten
<1>1. \A k : DOMAIN file \cap At(k) = At(k)
  BY DEF At
<1> QED BY <1>1, Zenon DEF ExtraOf, ExtraWritten

\* The destinations of a good file: its last primary one first, every one that
\* the last line of a key names, none that no line names, each once.
THEOREM DestinationsAreWritten == Spec => []DestinationsWritten
<1>1. ASSUME Accumulated PROVE DestinationsWritten
  <2> SUFFICES ASSUME InForce, Good PROVE DestinationsWritten
    BY DEF DestinationsWritten
  <2> DEFINE all == Broadcasts(cfg)
             named == {all[i] : i \in DOMAIN all}
  <2>1. /\ all[1] = PrimaryWritten
        /\ \A i, j \in DOMAIN all : i # j => all[i] # all[j]
        /\ named = {PrimaryWritten} \cup ExtraWritten \cup ExtraDefaults
    BY <1>1, Zenon DEF Accumulated, ExtraDefaults
  <2>2. ExtraLast \subseteq ExtraWritten \cup ExtraDefaults
    <3>1. ExtraOf(LastLines) \subseteq ExtraWritten
      BY ExtraOfAll, ExtraOfFile DEF LastLines
    <3> QED BY <3>1 DEF ExtraLast
  <2> HIDE DEF all, named
  <2>3. /\ {PrimaryWritten} \cup ExtraLast \subseteq named
        /\ named \subseteq {PrimaryWritten} \cup ExtraOf(DOMAIN file) \cup ExtraDefaults
    BY <2>1, <2>2, ExtraOfFile
  <2> QED BY <2>1, <2>3, Zenon DEF DestinationsWritten, all, named
<1>2. DestinationsInv => DestinationsWritten
  BY <1>1 DEF DestinationsInv
<1> QED BY <1>2, DestinationsInvHolds, PTL
=============================================================================
