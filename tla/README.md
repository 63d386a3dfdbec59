# rusty-DHCP: a TLA+ model

rusty-DHCP is a small DHCP server: one process, a thread for DHCPv4 and an
optional one for DHCPv6, leases in memory, permanent reservations read from two
text files at start. This directory holds TLA+ modules translated from its
source, the TLC configurations that check them on small instances, and proofs
that TLAPS checks for every value of the constants.

## 1. The system

| Component | Source | State | Operations |
| --- | --- | --- | --- |
| Lease table | `src/main.rs` 240-790 | slot array of the pool, count of filled slots, overflow map, MAC -> address hint, host name in each lease | look up, is it available, current lease of a client, insert, remove, remember the host name |
| DHCPv4 service | `src/main.rs` 85-218, 321-606 | the table, the round-robin cursor | load the leases file, Discover (with Rapid Commit), Request, Release/Decline |
| DHCPv4 codec | `src/packet.rs`, `src/options.rs` | none | decode, encode |
| Receive loop, reply path | `src/server.rs` | peer of the packet being handled | receive, decode, dispatch; filter options, encode, route, send |
| IPv6 pool | `src/dhcpv6.rs` 540-875 | like the lease table, keyed by DUID, without names, with its own cursor | insert, discover, request, release |
| DHCPv6 service | `src/main.rs` 834-1168 | its pool and socket | load, Solicit (with Rapid Commit), Request/Renew/Rebind, Release/Decline |
| DHCPv6 codec | `src/dhcpv6.rs` 1-540 | none | decode, encode |
| Configuration | `src/config.rs` | the settings | apply one line, validate, broadcast destinations |
| Process | `src/main.rs` 20-90 | two threads | start, load the configuration, spawn the IPv6 thread, end |

**Interaction.** The receive loop owns the DHCPv4 service and calls
`handle_request` with one packet at a time; the handler answers through
`Server::reply` before it returns. So a handler is atomic with respect to other
packets, and concurrency lives between *packets*: those of several clients are
interleaved arbitrarily, and a client's Discover and Request are separated by
other clients' packets, by the passing of time, by a restart. The IPv6 thread
has the same shape over its own pool; the threads share no state after start.

**What is hard.** Storage is redundant (array + counter + map + hint) and kept
consistent by hand in several methods. Offers reserve nothing. Leases lapse by
the clock and are taken over in place. IPv6 Rapid Commit reads the clock twice.
Permanent reservations mean opposite things on the two sides. A restart forgets
every lease, and a client does not notice. Packets come late, twice or never,
and the server checks no transaction. Two storage layouts (up to and above 100 000 addresses) must behave
alike. `PROJECT.json` lists these as hazards, each with its line and the
properties that watch it.

**What makes each component correct.**

- Lease table / IPv6 pool: the counter agrees with the slots; hints never
  mislead; behaviour is that of one map from address to lease, in both layouts.
- Services: a lease that has not run out stays its client's; nobody is turned
  away while an address is available; a client has one leased address; a name
  stays with the client that announced it; discovering clients are spread.
- Reply path: what the client is told matches what the server recorded, and
  reaches it.
- Configuration: a file counts as a whole or not at all; what was validated is
  what the services assume.
- Process: one service's failure does not keep the other from starting.
- Codecs: what is decoded is what was sent, up to a point that can be told.
- The whole: a client that uses an address within its grant is the one the table
  names, and a client that wants an address gets one where there is one.

## 2. Modules

| Module | Models |
| --- | --- |
| `LeaseTable` | the IPv4 table: reads as operators, writes as actions on `slots`, `filled`, `overflow`, `by_mac` |
| `MyServer` | loader, `handle_request`, clock and restart over `LeaseTable`; its properties |
| `AbstractLeases` | what either service promises: one map, a clock, a reply per step; no storage, hint, counter or cursor |
| `V6Pool` | the IPv6 pool's reads and writes |
| `ServeV6` | the IPv6 service over `V6Pool`; its properties |
| `Config` | a line of `dhcp.conf`, `apply`, `validate`, `broadcasts` |
| `Process` | `main` and the IPv6 thread from the first line read to both ends |
| `DhcpExchange` | clients and a network around `MyServer` |
| `PacketCodec` | decoding of a DHCPv4 datagram, option by option |
| `Dhcpv6Codec`, `Dhcpv6Options` | encoding and decoding of a DHCPv6 message, and its options as the program holds them |
| `MyServerProofs`, `ServeV6Proofs` | theorems about the two services |
| `ProcessProofs`, `DhcpExchangeProofs` | theorems about the process and its configuration, and about clients |
| `PacketCodecProofs`, `Dhcpv6CodecProofs` | theorems about the two codecs |
| `SequenceFacts` | induction, and facts about concatenated and flattened sequences, for the three modules that need them; nothing of the program |
| `MCMyServer`, `MCServeV6` | instances for TLC: clients and leases files |
| `Server` | `Server::reply`: the option filter, encoding, routing and sending of one reply after another |
| `ServerProofs` | theorems about the reply path |
| `MCServer` | instances for TLC: addresses and request lists |
| `MCProcess`, `MCDhcpExchange` | instances for TLC: files; clients |
| `MCPacketCodec`, `MCDhcpv6Codec` | instances for TLC: the options of datagrams; DHCPv6 messages |

`MyServer` EXTENDS `LeaseTable`, `ServeV6` EXTENDS `V6Pool`; both INSTANCE
`AbstractLeases` under a refinement mapping. `Process` EXTENDS `Config`.
`DhcpExchange` EXTENDS `MyServer`: its server steps are `MyServer`'s actions, and
`ExchangeIsService` proves that it does nothing else. `Server` leaves open what the
handler answers, so it covers every answer `MyServer` can give.

Definitions whose name begins with `Faulty` are no part of the
system: each is the definition after it with one plausible mistake, kept to show
which property notices it. No specification uses them.

### How the modules read the code

- *Addresses* are the numbers `0 .. MaxAddr`, the `u32`/`u128` the code computes
  with; `IpStart`, `LeaseNum` place the pool among them and `Config::validate`
  is the assumption that it fits. `None` is `Option::None`, a missing map key,
  or the expiry of a permanent lease.
- *Both layouts.* `UseSlots` compares the pool with `MaxSlots` (100 000 in the
  code). With it, in-pool leases live in `slots`; without, everything is in
  `overflow` and `available_at` makes a range test of its own.
- *Handlers are actions.* The branches of a handler are actions of their own
  (`DiscoverExisting`, `DiscoverFresh`, `DiscoverExhausted`, ...), each with the
  conditions of its branch and everything it changes, the reply included
  (`out`). A Release and a Decline are one action, as they are one arm.
- *Choice.* A `HashMap` is walked in no particular order: `current_lease` for a
  client with several overflow entries and no usable hint may return any, so
  `CurrentLease` is a set. Every other method is deterministic.
- *Time* is a counter that any step may leave alone and `Tick` advances. IPv6
  Rapid Commit calls `discover()` and `request()`, which read the clock
  separately: `SolicitRapid` and `RapidCommit` are two actions between which only
  `Tick` (or a restart) happens.
- *Start.* `LoadLine` loads one line of the leases file; a line with a good MAC
  and an unparsable address panics the IPv4 loader (`phase = "down"`), and is
  skipped by the IPv6 one. `Restart` may happen at any time and forgets every
  lease.
- *Replies* are type, client and address. "Exhausted" stands for the branch that
  logs `no reply (pool exhausted)` and sends nothing. An IPv6 message also says
  what it answers (`answers`), as a Reply without an address means exhaustion to a
  Rapid Commit Solicit and a refusal to a Request.
- *The reply path* is cut into its loop iterations: `Place` is one wanted code of
  the filter, `WriteOption` one option encoded, `SendTo` one `send_to`, which
  succeeds or fails. An option is its code and its length, which is all that
  filtering and encoding look at. `MaxCached` (64 in the code) selects between the
  filter with cached codes and the one without, as `n > 64` does. The
  Parameter Request List is any member of `RequestList`, repeats and codes no
  reply has included.

- *Configuration.* A line is its key and its value, where a value is what its key's
  parser (`parse_bool`, `parse_ipv4_list`, `parse_duid_hex`, ...) makes of the text,
  or `Bad`. Keys whose field is only replaced differ in nothing the model can see
  and are all in `Plain`. `cfg` is `parse`'s local until the file is accepted.
- *Process.* One behaviour is one life of the process, as nothing of it survives.
  `End` stands for all the ways the main thread ends: a failed `bind`, the panic in
  the loader, a panic while serving, a receive error. It takes the IPv6 thread with
  it; `V6End` is seen by nobody.
- *Clients and network.* The clients are not in this repository. They are those of
  RFC 2131: discover, take an offer, request, use the address until the time that
  option 51 of the Ack tells, counted from the sending of what it answers, renew,
  release, be switched off. Packets are a set: any of them is delivered at any time,
  again or never. A transaction id is reduced to whether a packet is of its
  client's current transaction (`current`), which the client checks and the server
  does not. `granted` records what the table said when the Ack left, `disturbed` that
  a restart or an old Release came after the transaction began.
- *Codecs.* A DHCPv4 datagram is the wire form of the sender's options, `END`, and
  a cut; each option carries what it means to this decoder, written down by hand in
  `MCPacketCodec`, so that decoding is compared with something that is not decoding. A
  DHCPv6 message is written by `encode`, whose length field keeps 16 bits
  (`MaxPayload + 1` values), or, for an option with a raw payload, as another
  implementation would, again with its meaning (`MCDhcpv6Codec`); every header byte
  and both nested levels are there. Which byte strings are UTF-8 is a constant.

## 3. Runs and what they show

| Run | Shows |
| --- | --- |
| `server_slots` | IPv4, slot array, Rapid Commit on: all table invariants, the action properties, and `KeepsPromise`, the refinement of `AbstractLeases` |
| `v6_slots` | IPv6, slot array: the same with stale hints and the two-step Rapid Commit |
| `server_permanent` | *violated:* an in-pool reservation of the leases file is given to another client, first by a Rapid Commit, against the README's "always receive the same IP address" (its line 126 admits it) |
| `reply` | the reply path, a Nak filtered with cached codes, an Offer or Ack without, six DNS servers and one NTP server: the filter is exact, nothing is cut, replies go where the log says and nowhere else, and each reply ends |
| `reply_cut` | *violated:* with thirteen DNS servers, a client that asks for them first gets a reply without a server identifier |
| `process` | every file of up to three lines, both threads, every failure: a file counts as a whole or not at all, the pools in force fit, broadcasts go to every destination that the last lines name and to none that no line names, and both services come to serve or end |
| `process_duplicates` | *violated:* of two `broadcast_ip` lines the first one's extra addresses stay destinations, against "the last occurrence wins" of `config.rs` 16, `dhcp.conf` 6 and `README.md` 88 |
| `exchange` | two clients, one address, hash-only storage with a reservation outside the pool, packets late and repeated, one restart, release or abandoned transaction: whoever uses an address within its grant is the one the table names |
| `exchange_live` | two clients, two addresses: whoever wants an address comes to have one |
| `exchange_double` | *violated:* a renewal is acked with a full lifetime (option 51) although the table's expiry stays; two clients then use one address, each within the lifetime it was told |
| `packet_codec` | DHCPv4 datagrams of up to three options, cut at every length: what is decoded is what was sent, where the decoder stops, and where it panics |
| `dhcpv6_codec` | DHCPv6 messages of up to two options, cut at every length: decoded as a whole or not at all, and if they come whole, dropped or not sent only for a reason |

Some properties deserve a word. `KeepsPromise` is the strongest: every reply and
every change of the lease map must be one `AbstractLeases` allows, where a reply
to a client with a lease names an address it *holds*, a fresh address is an
*available* one, and exhaustion is said only when none is. A lost hint, a drifting
counter, a wrong scan or a forgotten name makes some step disallowed. The
README's claim that IPv6 leases "work like the IPv4 side, with one deliberate
difference" is exactly that both services refine the same specification, with
`ReservationsLapse` TRUE on one side and FALSE on the other.
`ProtectedKept` says who may end a lease: its holder, or a restart, never the
clock's edge (`now = expiry`) or another client. `RightfulHolder` is the same seen
by the clients: it relates what a client believes to what the table says, across
delays and repeats. It holds with the expiry the *table* had when the Ack left;
`NoDoubleUse`, which takes the lifetime the client was *told*, does not, and the
difference is the one finding of `exchange_double`. `ReadsWhatWasSent` is the IPv4
decoder's lenient contract and `AllOrNothing` the IPv6 decoder's strict one; the
wire cannot tell a DHCPv6 message cut between two options from a whole one, and
`AllOrNothing` says that this is all that can happen.

**Bounds.** Three clients, a pool of two addresses (1 and 2) among four: more
clients than addresses, so the pool is exhausted and leases are taken over; one
address below the pool (0.0.0.0) and one above, reserved only by the leases
file. `MaxSlots` selects the layout: it is 2, which gives the pool its slots, and 0 in
`exchange`, where pool leases and reservations share one map. The
other properties have no run of that layout (an address outside the pool is stored
in the same way in both); the theorems about `MyServer` and `ServeV6`,
refinements included, hold for both layouts. Rapid Commit is on in every run;
that it may be off is covered by the theorems. `LeaseDuration = 1` and
`MaxTime = 3` let a lease be granted, reach its expiry instant, lapse, be taken
over, and lapse again. The leases files hold several addresses of one client, an
address given twice, skipped lines, and a line that does not parse. Two of three
IPv4 clients share a host name. `now` is the only counter that had to be bounded
(`MaxTime`, in `Tick`). No symmetry is used (the leases files name clients).

For the reply path: request lists of up to three codes out of six, in every order
and with repeats - two the reply mandates anyway, NTP, one that only a Nak has, one
of every reply, one of none - so that codes are found, found already placed, found
twice and not found. Two broadcast addresses and a unicast copy, so that a failure
can come first, in between and last. Six DNS servers and one NTP server are the
most that always fit 300 bytes; `reply_cut` has thirteen. `MaxCached` is 4, below
an offer's seven options and above a Nak's three, so that one run takes both
filters (64 in the code and in `reply_cut`).

For configuration: every file of up to three lines out of nineteen kinds, on
address spaces of four and six addresses, so that a range can end with the last
address, behind it, and do so only until a later line; two keys of destinations,
with repeats and with one that does not parse.

For clients: one address, an empty leases file or one reservation outside the pool,
which after a restart may be the other client's (so that a client asks for an address
that is no longer its own),
one late packet (`MaxLate`) and one fault (`MaxFaults`: a restart, a release or an
abandoned transaction) are enough for an old Release to meet a new lease and for
a restart to give a used address away; two addresses and no fault for liveness.
Current packets are repeated without bound. The clock stops at `MaxTime`, as
everywhere: `GetsAddress` does not need it to go on. With the address free and all
clients in the pool's reach the clock can only make more addresses available.

For codecs: twelve DHCPv4 options (every way `decode_option` accepts or rejects
one, data that look like `END` and a message type) in lists of up to three, eighteen
DHCPv6 options (each kind, empty, nested, short by one, torn inside a sub-option, too
large for `MaxPayload`) in lists of up to two, every cut.

**Deadlock** is checked, but for `process`, `process_duplicates`, `packet_codec` and `dhcpv6_codec`, whose behaviours end: the
process when its main thread does, a decoding when it is done.

**Fairness.** The lease modules assume none and claim no liveness: a server that
answers each packet at once owes nothing later. `Server` assumes weak fairness of
`Work`, every step but the arrival of a request: the thread that handles a reply
is not blocked by anything (there is no lock, and `send_to` on a UDP socket does
not wait for the receiver), so it goes on taking steps. Nothing is assumed of
clients. Under it `ReplyEnds` holds. `Process` assumes that either thread is
scheduled while it can go on (`Main`, `V6`); failures are never owed. `DhcpExchange`
assumes that the loader goes on, that a client that waits goes on asking until a
packet of its current transaction is served (`ServerAnswers`: it retransmits, and
the loop serves what it receives) and takes a reply that is there (`ClientWaits`).
Late packets, renewals, expiry, the clock and faults are owed nothing.

## 4. What is proved

`MyServerProofs` and `ServeV6Proofs` prove, for every pool size, layout, number of
clients, leases file, lease duration and clock bound, from the named assumptions
of the modules only:

| Property | IPv4 | IPv6 |
| --- | --- | --- |
| types (`TypeOK`) | `TypeCorrect` | `TypeCorrect` |
| counter exact (`FilledExact`) | `FilledCorrect` | `FilledCorrect` |
| hints | `HintsCorrect` (never stale) | `StaleHintsAreHarmless` |
| one leased address per client (`DynamicIsSole`) | `DynamicLeasesAreSole` | `DynamicLeasesAreSole` |
| names (`NameFromHolder`) | `NamesBelongToHolders` | (no names) |
| unexpired leases kept (`ProtectedKept`) | `ProtectedLeasesKept` | `ProtectedLeasesKept` |
| exhaustion is real | `ExhaustionIsReal` | `ExhaustionIsReal` (of Advertise, and of Rapid Commit's Reply) |
| offers spread / Rapid Commit succeeds | `OffersAreSpread` | `RapidCommitsSucceed` |
| implements `AbstractLeases` | `Refinement` | `Refinement` |

`ServerProofs` proves of the reply path, for every set of addresses, list of
broadcasts, number of DNS and NTP servers, set of request lists, `MaxCached` and
buffer size above the 240 bytes of header:

| Property | Theorem |
| --- | --- |
| types (`TypeOK`) | `ReplyTypes` |
| the filter keeps exactly what is wanted, in order (`FilterExact`) | `FilterCorrect` |
| encoding stays in its buffer (`WireInBounds`) | `BufferRespected` |
| a configuration that fits is never cut (`NothingCut`) | `RepliesWhole`; with 300 bytes, `SevenServers` |
| its replies carry type and server identifier (`MandatoryOnWire`) | `MandatoryKept` |
| sender and log agree (`SentAsLogged`) | `RepliesGoAsLogged` |
| nothing is sent to 0.0.0.0 (`NeverToNowhere`) | `NoReplyToNowhere` |

`RepliesWhole` and `MandatoryKept` are the other side of the `reply_cut` run: they
hold under `BufferSuffices`, which says how many servers a configuration may name.

`ProcessProofs` proves, for every set of files, address space and default
configuration that is one, the types (`StartTypes`), that the configuration in force
is the whole file's, each scalar key by its last occurrence, or the defaults
(`WholeOrDefaults`), that its broadcast destinations are the primary one of the last
line first, every one that the last line of either key names, none that no line
names, and each once (`DestinationsAreWritten`), and that the pools fit (`ServicesGetPoolsThatFit`) - the
assumption the theorems of both services start from.

`DhcpExchangeProofs` proves, for any number of clients, delays, repeats and faults:
`ExchangeTypes`, `HoldersAreRightful` (`RightfulHolder`) and `ExchangeIsService`:
what the service does among its clients is a behaviour of `MyServer`, so that
every theorem about `MyServer` holds there.

`PacketCodecProofs` and `Dhcpv6CodecProofs` prove, for every list of options of any
length and content, cut anywhere:

| Property | Theorem |
| --- | --- |
| DHCPv4: types, no read behind the end (`TypeOK`) | `DecoderTypes` |
| what is decoded is what was sent (`ReadsWhatWasSent`) | `ReadingIsExact` |
| where the thread panics (`PanicsExactly`) | `PanicsAreExact` |
| DHCPv6: types, no read behind the end (`TypeOK`) | `Dhcpv6Types` |
| nothing torn is decoded (`AllOrNothing`) | `NothingTornIsDecoded` |
| what comes whole is decoded (`WholeIsDecoded`) | `WholeMessagesAreDecoded` |
| an option written is read back (`ReadsBack`) | `OptionRoundTrip` |
| both of messages of the program's own options | `OwnMessagesAreRead` |

`ReadingIsExact`, `PanicsAreExact`, `NothingTornIsDecoded` and
`WholeMessagesAreDecoded` compare what is decoded with what was *meant*, and so need
to know what the bytes of a single option mean: `MeaningsAgree` says that this is
what `decode_option` makes of these bytes, each option taken by itself. What they
prove is the rest - that options are found again at any offset and in any number, that
none is taken from the bytes of another, that a cut is noticed. The options of
both runs satisfy `MeaningsAgree`, with meanings written down by hand: were one
different, the message of that option alone would violate the run's property. For
DHCPv6 the program has both sides, and `OptionRoundTrip` proves the agreement instead
of assuming it: every option that `encode_into` can be given is one that
`decode_option` gives back, the addresses of an IA_NA, found among its
sub-options, included. The exception is an unrecognised option under a code that
*is* recognised, which `decode_option` never makes and the program never builds.
`OwnMessagesAreRead` needs nothing else.

**Assumptions.** The pool fits the address space (`PoolAssumption`; for IPv6 only
that its start does, and an end that overflows makes the range empty, as in the
code), `None` is none of the values it stands beside, the configuration and the
leases files have their types. TLC evaluates all of them on every run.

**Argument, leases.** Both inductive invariants have the same core, `LeasesInv`:

- `FilledExact`, because `is_empty` lets `current_lease` answer "none" at once.
  Were the counter wrong, a holder would look leaseless and get a second address.
- `NoHiddenLease`: an address with a slot has no overflow entry, so that
  `LeaseView` (slots and overflow as one map) shows every lease there is and the
  scan of both finds every lease of a client.
- `DynamicIsSole`, which needs `LoadedPermanent` (while the file is being loaded
  every lease is permanent): a client with several addresses has them from the
  file.
- IPv4: `HintSound` and `NameFromHolder`. IPv6: hints may be stale, so nothing is
  said of them; `NoStraySlot` covers a range whose end overflows, and
  `OfferStands` says that the address `discover()` found for a Rapid Commit is
  its client's current lease or is still available to it - which holds as time
  passes because a lapsed lease stays lapsed.

The lemmas ending in `View` say what each write does to the one map; those ending
in `Lease` that it keeps `LeasesInv`; then one step per action. The refinement
uses the same views: current leases are held addresses (`CurrentLeaseHeld`), no
current lease means none held (`HasNoLeaseHolds`), and a cursor that has gone
round has seen the whole pool (`CandidatesCoverPool`). Action properties and
`ExhaustedMeansFull` follow from the invariant and the shape of each action.

**Argument, reply path.** `FilterInv` says what the filter's loops keep: `opts` is
always a permutation of the reply's options, whose codes all differ (`Drawn`,
`CodesDiffer`); the cache agrees with it (`Cached`: what the lockstep is for, and
why the two implementations agree); the placed options are in front, in wanted
order, and no option wanted so far is behind them (`PlacedInFront`). A swap is an
involution of the positions (`SwapPermutes`), which carries all of it over.
Truncating then leaves what `FilterExact` says. `EncodeInv` counts: `length` is 240
plus the bytes of the codes on the wire, and as no code is there twice they are at
most the whole reply's, which is how `BufferSuffices` rules out a cut. `SendInv`
says that what was sent and what is left are the destinations in order.

**Argument, configuration.** `cfg` is at every point what the lines read so far
give (each scalar key by its last occurrence among them), all of which parse; when
the file ends this is `Written`, and `validate` looks at nothing else.

For the destinations, which accumulate, two things are kept (`DestinationsSoFar`):
`broadcast_ip` is the first address of the last line of its key so far, or the
default, and `extra_broadcast_ips` has exactly the defaults, the addresses of the
lines of its own key and the others of every `broadcast_ip` line. `Broadcasts`
then drops repeats, and what it leaves has the same addresses. `DestinationsWritten` says less of them than
these facts do (`Accumulated`): only what the documentation and the code agree on,
every destination of the last lines and none that is written nowhere.

**Argument, codecs.** A position in the bytes is the end of some number of
options: `EndOf(n)` is the length of the wire form of the first n, and
`HasRead(n)` - `pos` is there, and the decoded options are the first n, each
acceptable - is what both invariants are made of. That the decoder finds the next
option at `EndOf(n)`, with its own code, length and data and not a byte of
another, is where the cut and the framing come in (`FlattenAt`, `Offsets` in
`SequenceFacts`). `ReadInv` adds what each status knows of n: a decoder that closes
has `Stopped(n)`, the next option cut or not acceptable. `CodecInv` has the
message before it is sent, the header, and then `HasRead(n)`; a refused message has
`Stuck(n)`, the next option torn or malformed, and one that is decoded has
`pos = Len(input)`, so that the cut was at `EndOf(n)`. `Written` and `Wire` are
flattened sequences, a recursive function inside the library. Neither it nor
`Addresses` can be unfolded by the provers until some function is known to satisfy
the recursive equation, and the provers cannot be given the library's induction rule,
which has a predicate for a parameter. `SequenceFacts` states induction for a *set*
of numbers, from the well-foundedness of `<`; with it the function is shown to
exist for every length, and its values follow by the same rule.

**Argument, clients.** `RightfulHolder` needs to know of an Ack under way what it
will be to the client that takes it: `AcksBacked` says that an Ack in `down` whose
client is undisturbed is `Backed` by the table. A step of the server leaves every
protected lease of another client alone (`StepKeeps`, from `MyServerProofs`, the
lemma under `ProtectedKept` as well), and a step of the holder's own leaves its
expiry or is a Release, which disturbs it. `NothingForIdle` says that a client at
the start has no reply under way, so that nothing older than its transaction is
taken.

## 5. Only model-checked, or not modelled

- The four violated properties are runs only.
- `ReplyEnds`, `BothStart` and `GetsAddress` are liveness under fairness, which the
  prover cannot do.
  Every other property of a passing run is proved.
- What an option of *another* implementation means - sub-options of any kind in an
  IA_NA, trailing bytes, torn addresses - is compared with `decode_option` on the
  options of `MCPacketCodec` and `MCDhcpv6Codec` only (`MeaningsAgree` above).
- The codecs do not stand in front of the services: handlers start from a decoded
  packet.
- Of the DHCPv4 header only what refuses a datagram is modelled; its fields are
  copied. `decode` reads the broadcast flag from bit 7 of byte 11 and `encode` writes
  it into byte 10, where RFC 2131 has it; `tests/test_dhcp_rfc.rs` documents this, and
  `req.broadcast` is what `decode` makes of it.
- A client's own clock, several servers on one network, relays, and DHCPv6 clients
  are not modelled.
- Not modelled: the splitting of a configuration line into key, value and comment;
  log lines and timestamps (nothing reads them back); `client_iana`, `title` and
  `to_raw`, which the server does not call; `examples/bench.rs` (a load generator).

Differences between the code and its documentation that the models contain, but
no run is spent on:

- `README.md` 124 says that exhaustion gets a Reply with `NoAddrsAvail`; a Solicit gets
  an Advertise (`SolicitNone`).
- `README.md` 112 calls the entries of `leases6` permanent; a Release or Decline by
  their own client removes them until the next start (`Release` of `ServeV6`).
- `config.rs` 52-54 says that a broadcast-routed reply is sent to each address; a send
  that fails keeps it from those behind it (`SendTo`; `SentAsLogged` says that what
  was sent is a beginning of what the log names).

## 6. What could come next

What decides something in `src/` is, nearly all of it, in one of the modules. What would
add most: the service's decoded packet as the output of `PacketCodec`, so that a
list of options a client sends is followed to the handler's branch; `MyServer` and
`Server` in one process model, with the lease committed before a reply that fails to
leave; DHCPv6 clients as in `DhcpExchange`.
