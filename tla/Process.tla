------------------------------ MODULE Process -------------------------------
(***************************************************************************)
(* The life of the server process (main and serve_v6 in src/src/main.rs):  *)
(* the configuration is read line by line, the IPv6 thread is spawned, the *)
(* main thread binds, loads and serves, and the process ends with its main *)
(* thread.  Nothing of it outlives the process, so a behaviour is one life *)
(* of it.  What the services do while they serve is in MyServer, Server    *)
(* and ServeV6.                                                            *)
(***************************************************************************)
EXTENDS Config

CONSTANT Files  \* what dhcp.conf may hold; None: it cannot be read

ASSUME FilesAssumption ==
  \A f \in Files \ {None} :
    DOMAIN f = 1 .. Len(f) /\ Len(f) \in Nat /\ \A i \in DOMAIN f : IsLine(f[i])

VARIABLES
  main,    \* "reading", "spawning", "binding", "loading", "serving" or "ended"
  v6,      \* the IPv6 thread: "off", "binding", "loading", "serving" or "ended"
  file,    \* dhcp.conf
  read,    \* how many of its lines have been applied
  cfg      \* parse's configuration, in the end the one in force

vars == <<main, v6, file, read, cfg>>

Init ==
  /\ main = "reading"
  /\ v6 = "off"
  /\ file \in Files
  /\ read = 0
  /\ cfg = Defaults

-----------------------------------------------------------------------------
(* Config::load *)

Readable == file # None
NextLine == file[read + 1]

ReadLine ==
  /\ main = "reading"
  /\ Readable
  /\ read < Len(file)
  /\ ~Refused(NextLine)
  /\ cfg' = Applied(cfg, NextLine)
  /\ read' = read + 1
  /\ UNCHANGED <<main, v6, file>>

\* The lines are all applied, and validate accepts the outcome.
Accept ==
  /\ main = "reading"
  /\ Readable
  /\ read = Len(file)
  /\ Valid(cfg)
  /\ main' = "spawning"
  /\ UNCHANGED <<v6, file, read, cfg>>

\* What load() reports as an Err.
LoadFails ==
  \/ ~Readable
  \/ Readable /\ read < Len(file) /\ Refused(NextLine)
  \/ Readable /\ read = Len(file) /\ ~Valid(cfg)

\* Faulty: what was applied before the error stays in force.
FaultyFallBack ==
  /\ main = "reading"
  /\ LoadFails
  /\ main' = "spawning"
  /\ UNCHANGED <<v6, file, read, cfg>>

\* After any error main goes on with the defaults.
FallBack ==
  /\ main = "reading"
  /\ LoadFails
  /\ main' = "spawning"
  /\ cfg' = Defaults
  /\ UNCHANGED <<v6, file, read>>

-----------------------------------------------------------------------------
(* The main thread *)

Spawn ==
  /\ main = "spawning"
  /\ main' = "binding"
  /\ v6' = IF cfg.field["enable_dhcpv6"] THEN "binding" ELSE "off"
  /\ UNCHANGED <<file, read, cfg>>

\* Faulty: the IPv6 thread is joined before the IPv4 socket is bound.
FaultyBind ==
  /\ main = "binding"
  /\ v6 \in {"off", "ended"}
  /\ main' = "loading"
  /\ UNCHANGED <<v6, file, read, cfg>>

Bind ==
  /\ main = "binding"
  /\ main' = "loading"
  /\ UNCHANGED <<v6, file, read, cfg>>

Load ==
  /\ main = "loading"
  /\ main' = "serving"
  /\ UNCHANGED <<v6, file, read, cfg>>

\* The main thread panics (unwrap() of a failed bind or of an address of the
\* leases file that does not parse, a panic in the handling of a packet) or
\* returns from serving (a receive error).  Either way the process is gone,
\* and the IPv6 thread with it.
End ==
  /\ main \in {"binding", "loading", "serving"}
  /\ main' = "ended"
  /\ v6' = "off"
  /\ UNCHANGED <<file, read, cfg>>

-----------------------------------------------------------------------------
(* The IPv6 thread *)

V6Bind ==
  /\ v6 = "binding"
  /\ v6' = "loading"
  /\ UNCHANGED <<main, file, read, cfg>>

V6Load ==
  /\ v6 = "loading"
  /\ v6' = "serving"
  /\ UNCHANGED <<main, file, read, cfg>>

\* A failed bind panics the thread, a receive error ends it; nobody looks.
V6End ==
  /\ v6 \in {"binding", "serving"}
  /\ v6' = "ended"
  /\ UNCHANGED <<main, file, read, cfg>>

-----------------------------------------------------------------------------

Main == ReadLine \/ Accept \/ FallBack \/ Spawn \/ Bind \/ Load
V6 == V6Bind \/ V6Load

Next == Main \/ V6 \/ End \/ V6End

\* Each thread is scheduled while it has something to do; a failure is never
\* owed.
Spec == Init /\ [][Next]_vars /\ WF_vars(Main) /\ WF_vars(V6)

-----------------------------------------------------------------------------
(* Properties *)

\* Every variable has its type.
TypeOK ==
  /\ main \in {"reading", "spawning", "binding", "loading", "serving", "ended"}
  /\ v6 \in {"off", "binding", "loading", "serving", "ended"}
  /\ file \in Files
  /\ read \in Nat
  /\ Readable => read \in 0 .. Len(file)
  /\ ~Readable => read = 0
  /\ IsConfig(cfg)

InForce == main # "reading"

At(key) == {i \in DOMAIN file : file[i].key = key}

\* The value that the lines of the file give a key: its last occurrence wins.
Written(key) ==
  IF \E i \in At(key) : \A j \in At(key) : j <= i
    THEN file[CHOOSE i \in At(key) : \A j \in At(key) : j <= i].value
    ELSE Defaults.field[key]

\* What makes a file good, whatever the order of its lines: each of them
\* parses, and the values that win fit together.
Good ==
  /\ Readable
  /\ \A i \in DOMAIN file : ~Refused(file[i])
  /\ LET f == [k \in Ranged |-> Written(k)]
     IN  FitsDuid(f) /\ FitsV4(f) /\ FitsV6(f)

\* The configuration in force is the whole file's, each scalar key by its last
\* occurrence, or none of it.  A value that would not fit and is corrected by
\* a later line does no harm, and no line before an error leaves a trace.
AsWritten ==
  InForce =>
    IF Good THEN \A k \in Scalar : cfg.field[k] = Written(k)
            ELSE cfg = Defaults

\* What the services take for granted of their pools (PoolAssumption) and the
\* log line of the last IPv4 address computes in u32, whichever file was read.
PoolsFit ==
  InForce => FitsV4(cfg.field) /\ FitsV6(cfg.field)

\* The extra destinations that these lines of a good file name: all of
\* extra_broadcast_ips and all but the first of broadcast_ip.
ExtraOf(lines) ==
  (UNION {{file[i].value[j] : j \in DOMAIN file[i].value} :
            i \in lines \cap At("extra_broadcast_ips")})
    \cup (UNION {{file[i].value[j] : j \in 2 .. Len(file[i].value)} :
                   i \in lines \cap At("broadcast_ip")})

ExtraDefaults == {Defaults.extra_broadcast_ips[i] : i \in DOMAIN Defaults.extra_broadcast_ips}

\* Lines whose key no later line has.
LastLines == {i \in DOMAIN file : \A j \in At(file[i].key) : j <= i}

\* The extra destinations that are left if of duplicate keys the last wins.
ExtraLast ==
  ExtraOf(LastLines) \cup (IF At("extra_broadcast_ips") = {} THEN ExtraDefaults ELSE {})

PrimaryWritten ==
  IF \E i \in At("broadcast_ip") : \A j \in At("broadcast_ip") : j <= i
    THEN Head(file[CHOOSE i \in At("broadcast_ip") : \A j \in At("broadcast_ip") : j <= i].value)
    ELSE Defaults.broadcast_ip

\* broadcasts(): the primary destination of the last broadcast_ip line first,
\* then others, each once: every one that the last line of either key names,
\* and none that no line names.  A primary that a later line replaced is no
\* destination any more.  In a file without duplicate keys these are exactly
\* the addresses written.
DestinationsWritten ==
  InForce /\ Good =>
    LET all == Broadcasts(cfg)
        named == {all[i] : i \in DOMAIN all}
    IN  /\ all[1] = PrimaryWritten
        /\ \A i, j \in DOMAIN all : i # j => all[i] # all[j]
        /\ {PrimaryWritten} \cup ExtraLast \subseteq named
        /\ named \subseteq {PrimaryWritten} \cup ExtraOf(DOMAIN file) \cup ExtraDefaults

\* Of duplicate keys the last occurrence wins (config.rs 16), also of the keys
\* that hold destinations: no address is one that only earlier lines name.
LastDuplicateWins ==
  InForce /\ Good =>
    LET all == Broadcasts(cfg)
    IN  {all[i] : i \in DOMAIN all} = {PrimaryWritten} \cup ExtraLast

\* However the file reads and whatever becomes of the IPv6 thread, a process
\* that is started comes to serve or ends; and IPv6 comes to serve if it is
\* enabled, unless it fails or the process ends first.
BothStart ==
  /\ main = "reading" ~> main \in {"serving", "ended"}
  /\ main = "binding" /\ cfg.field["enable_dhcpv6"] ~> v6 \in {"serving", "ended"} \/ main = "ended"
=============================================================================
