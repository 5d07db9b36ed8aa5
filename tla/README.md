# Verification of ydn64

ydn64 is a Yggdrasil node without a TUN device that offers NAT64 (TCP, UDP and
ICMP echo) and DNS64 to the nodes of the overlay. Packets from Yggdrasil enter a
gVisor network stack inside the process; flows to an IPv4-embedded IPv6 address
are accepted there and relayed over ordinary IPv4 sockets.

This directory holds TLA+ models of the parts of ydn64 that keep state, the TLC
configurations that check them on small instances, and TLAPS proofs of the most
important properties for every size. Paths below are relative to the module root
(`src/nat64/udp.go`).

## The system

| Part | Code | State | Who runs it |
|---|---|---|---|
| NAT64 UDP | `nat64/udp.go`, `persource.go` | session table, Binding Information Base (BIB: one IPv4 socket per client socket), per-BIB flow table, global and per-source counts | NIC read loop (admission), one set-up/forward goroutine per flow, one reply loop per BIB, cleaner |
| NAT64 ICMP echo | `nat64/icmp.go` | queries by client, sessions by (destination, identifier), count, next identifier | NIC read loop, ICMP reply reader, cleaner |
| NAT64 TCP | `nat64/tcp.go` | slot semaphore, per-source counts, tracked connection pairs | a bounded number of handlers, one proxy goroutine and two copiers per connection, cleaner |
| NAT64 cleanup | `nat64/service.go` | ticker pass, settings swapped on reload, shutdown sweep, `Drain` | cleaner goroutine, signal handler |
| Reassembly | `nat64/reasm.go`, `ipv6chain.go` | partial datagrams, byte budget | NIC read loop |
| ICMP errors | `nat64/icmperr.go` | none (reads the session tables) | ICMP reply reader |
| DNS64 proxy and cache | `dns64/proxy.go`, `zones.go`, `cache.go` | zones and static names, swapped in pieces on reload; the answers | one goroutine per query, janitor, signal handler |
| DNS64 server | `dns64/server.go` | query semaphore, per-connection slots, locks and wait groups | UDP loop, accept loop, reader per connection, goroutine per query |
| DNS64 rate limiter | `dns64/ratelimit.go` | token bucket per source | every query |
| NAT64 prefixes | `config/pref64.go` | none | both services |
| Yggdrasil NIC | `netstack/yggdrasil.go`, `netstack.go` | reader's back-off and supervision, references on frames, scratch buffers, queue of control frames | read loop, flush loop, every goroutine that sends |
| Configuration | `config/config.go` | none (defaults, bounds and overrides as operators) | process |
| Process | `cmd/ydn64/main.go` | the running configuration and what each service has taken of it, signals, drain | main goroutine, signal goroutine |
| Packet tap, statistics, packet layout | `netstack/tap.go`, `nat64/stats.go`, `nat64/packet.go` | see "Not modelled" | |

How they interact: DNS64 embeds IPv4 addresses in a pool (`Embed`), clients send
to them, NAT64 takes them out again (`Extract`). The NIC loop hands UDP and TCP
flows to the forwarders and intercepts ICMPv6 before gVisor sees it. The cleaner
of `service.go` serves all three NAT64 protocols with one ticker. A SIGHUP swaps
settings under running goroutines; cancelling the context closes sockets and
makes the cleaner do a last sweep, after which `Drain` waits for what it counts.

What is hard: nearly all shared state is in `sync.Map`s and atomics that are
updated one after another without a lock, by goroutines that test, act and count
in separate steps. The list of hazards in `PROJECT.json` names the line where
each of these bites and the properties that would show it going wrong.

## Modules

One atomic operation of the code (a map operation, an atomic counter, a channel
send, a critical section, a blocking call) is one step; local computation joins
the step before or after it. Every action stands for its whole block of code,
early returns included.

- **Nat64Udp.** A flow names everything one forwarder request creates: endpoint,
  session, goroutine, and the BIB it may create. `HandleUDPForward`,
  `AdmitUDPSession` and `CreateEndpoint` are the NIC loop; `LoadBIB`/`StoreBIB`
  are `getOrCreateBIB`; `Register`, `Replace`, `CountSession`, `CountSource` and
  `StoreFlow` are the registration; `Delete*` is `deleteSession`, run by whoever
  calls it (the forward goroutine, or the NIC loop when it evicts);
  `ReplyLoopExit`, `Cleanup*`, `Range*`, `CloseIdle*`, `UnmapIdleBIB`, `Shutdown`
  and `Reload` are what their names say. The clock never moves so far that a
  session expires between its stamp and its forward loop: those are a few
  instructions, and configuration refuses timeouts below two minutes.
- **Nat64Icmp.** Echo requests, identifier allocation with wrap-around and retry,
  publication in two tables and a count, the reply path, expiry and shutdown.
- **Nat64Tcp.** Per-source test, semaphore, handshake, dial, tracking, two
  copiers with half-close, the deferred releases in their order, the idle reaper
  and the shutdown sweep. A peer may stop, close or die at any time.
- **Reassembly.** `fragmentIPv6Packet` as an operator, a network that loses,
  repeats and reorders, and `reasmTable.add` behind the fragment branch of
  `interceptICMPPacket`. Bytes are intervals of a datagram.
- **IcmpErrors.** Type, pointer and MTU translation, the quoted packet, its
  owner, and the size of what is injected, as operators.
- **DnsCache, Dns64.** The cache (`set` with eviction, `get` with aged TTLs, the
  janitor, `Reload` with its flush) and the query path over it: static names, zone
  match, AAAA from the cache, upstream or synthesis, A, ANY and pass-through, with
  a reload that swaps static names, zones and cache settings in separate steps.
  A record carries where it came from and, as an auxiliary field, whether the
  query that got it ran free of reloads (`calm`).
- **Dns64Server.** Listeners, query semaphore, pipelined connections with slots, a
  writer lock and a broken flag, the wait groups and `Drain`.
- **RateLimit.** `allow` in two steps (clock, then lock), the sweep, and `update`,
  beside an ideal limiter that never forgets a source. A caller whose clock reading
  is older than the bucket's takes tokens back, so a bucket may owe some; `Debt`
  bounds what, and the `ASSUME` says that five idle minutes pay for a burst and it.
- **Pref64.** Validation, embedding and extraction as operators on octets, with the
  refusal of IPv4-mapped addresses by `net.IP` in both directions.
- **NatMapping.** What a NAT promises its clients, with no tables: a client socket
  is bound to at most one external port at a time, replies pass a port only while
  it is bound, and a released port is not bound again. Nat64Udp implements it
  (`ImplementsNatMapping`): a binding is a BIB whose socket is open and whose reply
  loop runs; the rest of the two tables is detail.
- **Nic.** The read loop with its back-off, grace period and supervision; delivery
  to gVisor, during which the reader itself may send; `WritePackets` with the
  scratch buffers of `writePacket`, references on frames, the bounded queue of
  control frames, its flush loop and the rate-limited warning about drops.
- **Config.** `Validate` with the defaults it fills in, the key override and what
  each service's `Reload` accepts and takes.
- **Process.** Start-up with every way to fail that `Validate` leaves, environment overrides, SIGHUP
  with both reloads in the order of the code, shutdown and the drain deadline.

`MC<module>` gives small constants for TLC and `<module>Proofs` holds theorems
(IcmpNicProofs those of Nat64Icmp and Nic; ProcessRateProofs those of Config, Process
and RateLimit; Nat64TcpProofs also those of IcmpErrors; Dns64Proofs also those of
Pref64; Nat64UdpMappingProofs further ones of Nat64Udp).

The data is abstracted to what the properties distinguish. Names, addresses and
payloads are model values. Names in Dns64 are sequences of labels, because zones
match by suffix. TTLs are small numbers, because they are subtracted. Fragments
are intervals, because they are joined.

## Runs

| Run | What it checks | Shows |
|---|---|---|
| `MCNat64Udp_flows` | `EndpointIndependentMapping`, `FlowIsolation`, `CountNeverOver`, `ReplyReachesSession`, `ClosedSessionRemoved`, `IdleMappingReleased`, `ImplementsNatMapping` | Eviction by the NIC loop, replacement, expiry, a fatal socket error and shutdown may hit a session at any point of its set-up. A client socket still keeps one served external port, no flow entry leads to the session of another socket, replies reach the session that relays them, the count never refuses more than it should, closed sessions and idle mappings go away, and the tables implement NatMapping. |
| `MCNat64Udp_v_source` | `SourceCountNotOver` | *Violated*, see Findings. |
| `MCNat64Icmp_echo` | `QueryHasSlot`, `NoOrphanSlot`, `SessionsBounded`, `IdleRemoved` | Two tables and a count, updated in separate steps by three goroutines, agree; identifiers are exhausted, wrap and collide. |
| `MCNat64Tcp_conns` | `SlotsExact`, `SourcesExact`, `SourceOvershoot`, `HalfClosePreserved`, `IdleReleased`, `TrackedSwept` | No path leaks or doubles a slot; the per-source ceiling can be overshot, by at most the concurrent handlers less one; half-closed connections survive; idle ones, and at shutdown all tracked ones, are reclaimed whatever the peers do. |
| `MCDns64_policy` | `CacheBounded`, `PolicyAfterFlush`, `TTLHonoured`, `ExcludedNeverServed` | Two concurrent queries and reloads that reverse the zones: only what the configuration permits is served, no longer than upstream said (but for entries the cache does not time by their TTL, see below). |
| `MCDns64_v_reload` | `PolicyAfterReload` | *Violated*, see Findings. |
| `MCDns64Server_pipeline` | `QuerySemExact`, `NoWriteAfterFailure`, `ClosedConnReleased` | Shedding, failed writes, full pipelines and shutdown neither lose a slot nor hold up a closed connection. |
| `MCRateLimit_skew` | `RateBounded`, `EvictionInvisible` | Callers that enter out of order gain nothing, and forgetting idle sources cannot be noticed. |
| `MCReassembly_frag` | `ReassembledIntact`, `BufferExact`, `CompleteDelivered`, `Expires` | Whatever the network does, a handed-over datagram is whole, and the byte budget is exact and kept, as are the limits on entries and on the fragments of one. |
| `MCNic_frames` | `RefsExact`, `FramesIntact`, `GraceHonoured`, `DispatchReturns`, `DeafNodeStops` | Frames are released exactly once and sent unmixed; a stuck flusher holds nobody up, the reader least of all; a node that cannot read any more stops, and one that only stutters does not. |
| `MCProcess_reload` | `ServicesAgree`, `EnvSourcesKept`, `AnnouncedApplied`, `ShutdownCompletes` | Whatever files and signals come when, both services apply one access list, overrides of it survive reloads, the last SIGHUP takes effect, and termination is never held up by one. |
| `MCProcess_v_key` | `KeyOverrideKept` | *Violated*, see Findings. |

Every property of a passing run comes with a mutant of the model, a plausible
slip in the code, under which TLC finds the property violated (`PROJECT.json`).

### Bounds, and why they are enough

- *Nat64Udp:* two flows, two client sockets of one node and two destinations. The
  races are between two sessions (one being set up, one being removed or
  superseded) plus the NIC loop, the cleaner and a reply loop, which exist anyway.
  Behaviours start with a session limit of one or with none, and keep it. Under the
  limit two destinations of one socket, or two sockets with one destination, compete
  at one instant and one socket may fail (`MaxFatal`), which is enough to unmap a
  BIB under a session. Without it there is one socket with one destination, and time passes,
  settings are reloaded and the service stops. One clock step is longer than the
  timeout (`Stride` 2, timeout 1), so one step expires everything that is not
  refreshed. One eviction attempt stands for the code's eight: each is the same
  loop body, and the bound only decides when admission gives up.
- *Nat64Icmp:* three queries, two of them to one destination, identifiers 1 and 2
  (0 is skipped), two sessions, two attempts: allocation can fail, wrap round and
  meet an identifier still in use. Three session objects, reused once nothing
  refers to them.
- *Nat64Tcp:* capacity and ceiling one with two handlers and three connections
  reach "full", "over the ceiling" and the overshoot. The connections meet at one
  instant and the third only while the others have returned their slots and are
  still charged, which is when the overshoot happens. Time, reloads and shutdown
  meet one connection, because connections share only the counters.
- *Dns64:* three names (in a sub-zone, outside it, and the reserved
  `ipv4only.arpa`), two configurations that disagree on all of them, caches of two
  and one entries, two time steps so that an answer can age and expire.
- *Dns64Server:* one UDP query and one connection compete for one slot; three
  pipelined queries against two slots.
- *RateLimit:* two sources in a table of one, three callers, a skew of one tick and
  two updates among rates of zero, one and two: callers overtake each other before
  and after a reload, which is what leaves a debt. Nobody calls between the first
  two ticks and the idle time (`Quiet`), after which eviction happens and is
  followed by use.
- *Reassembly:* datagrams of three fragments (last one partial), of two (last one
  full), of five, and one that is not an Echo Request; each fragment arrives up to
  twice. The table has two entries, an entry three fragments, and the budget is 64
  bytes: three datagrams do not fit the table, the one of five does not fit an
  entry, and together with another it does not fit the budget. It meets that other
  one alone and without duplicates. Without any one of the three limits TLC finds
  `BufferExact` violated.

- *Nic:* four frames, three of them control frames, a queue of one place and calls
  of up to two frames: the queue is full, partly taken and empty while a call is
  under way. The reader, one other goroutine and the flusher are every kind of
  sender. A grace period of four units and back-offs of one and two give both a
  recovery and a surrender after several sleeps.
- *Process:* six contents of the file (as generated; other sources and prefix;
  without NAT64; without DNS64 and with a word its reload refuses; refused by
  `Validate`; not parsable), edited twice, so that a refused file can lie between
  two good ones. Every combination of overrides.

Deadlock is checked in every run but three. `MCDns64Server_pipeline` may stop,
because after shutdown everything is meant to. `MCReassembly_frag` and
`MCNic_frames` may stop, because the network has then delivered all there was, or
all frames are sent and the read loop has ended.

### Fairness

Weak fairness of goroutine steps that are not blocked: the Go scheduler is
preemptive and runs every runnable goroutine. A blocking call is fair only where
the code bounds it, by a deadline or because closing the socket wakes it. Weak
fairness of the ticker: `time.Ticker` keeps firing. In Dns64Server strong fairness
for taking the writer lock: `sync.Mutex` hands the lock over to a goroutine that
has waited for a millisecond. In Nic the reader and the writers are fair, a write
to the core being accepted or refused in the end; the flush loop is not, so that
`DispatchReturns` holds even if it hangs. In Process both goroutines are. Nothing is assumed of clients, servers, packets,
reloads, socket errors or when the process is asked to stop.

## Proofs

TLAPS proves the following for every value of the constants that meets the
modules' `ASSUME`s: types of the constants, finite sets, distinctness of the
placeholder values, in RateLimit an idle time that refills any bucket, in Reassembly
an MTU that leaves room for a fragment. TLC evaluates those assumptions in the runs.

- **Nat64UdpProofs**: `TypeCorrect`, `ServedMapped`, `MappingIndependent`,
  `FlowsIsolated`, `RepliesReach`, `RepliesReachSpared`. The inductive invariant `MapInv` adds what every
  label implies of a goroutine's BIB: before it has one its socket does not exist,
  afterwards BIB and flow are of one client; that the map leads to a BIB of the
  client asked for; and that the cleaner unmaps only what it has already closed.
  Without the last fact "served implies mapped" is not inductive, since the cleaner
  unmaps after it closes. The last two are about the demultiplexing of replies: `EntryInv` says
  that the entry of a tuple is that of its open, relaying session. It rests on
  `DemuxInv`, which holds in every behaviour: one open endpoint per tuple
  (`OpenOnce`), set-up too quick for the cleaner (`PaceInv`), only registered
  sessions in the table (`TabledInv`), and an evicted session closed before it is
  deleted (`VictimInv`). `EntryInv` itself is lost when a session is swept while it
  is being set up. `RepliesReach` excludes that as the run does: it speaks of states
  with no limit, in which the NIC loop evicts nothing (`LimitInv`), and has the
  hypothesis that no reload lifts a limit, since an eviction during set-up followed
  by such a reload does leave an entry that leads nowhere. `Validate` replaces a
  limit that is not set by its default, so the case with a limit is the usual one.
  `RepliesReachSpared` covers it, under the hypothesis `Spared`: evictions take no
  session from its set-up and the service is not shut down.
- **Nat64UdpMappingProofs**: `NatMappingImplemented`, `CountBounded`,
  `SourcesCounted`. The first is the
  refinement: the initial state maps to NatMapping's, and every step of every
  goroutine to one of its steps or to none. It needs, beyond `MapInv`, `BornInv`: only
  a BIB whose socket has been opened is referred to or has flow entries, so that a
  new port admits nobody. The second counts table entries and pending decrements as
  finite sets. The third says when the statement of finding 1 does hold: under
  `Spared` a session keeps its entry until it has been counted (`HoldInv`), so the
  count of a source is at most its counted entries and those who have yet to
  uncount one of its sessions (`SumInv`).
- **Nat64TcpProofs**: `TypeCorrect`, `SlotsAreExact`, `SourcesAreExact`,
  `CapacityRespected`, `OvershootBounded`, `NothingIsLeft`, `HalfCloses`. Both
  counters equal the cardinality of a set of labels, adjusted by one per step; the
  overshoot is bounded by those that have passed the test and not yet counted
  themselves, each of them in a handler of its own; `LegInv` says at which
  labels a leg can be open, and `HalfCloses` is an action property from it.
  About IcmpErrors, `MtuInRange`, `UnknownMtuConverges`, `ErrorsWellFormed`,
  `ErrorsReachOwner`; the last assumes that an external port belongs to one client,
  which is what one socket per BIB gives.
- **Dns64Proofs**: `CacheIsBounded`, `ExcludedNever`, `PolicyHolds`,
  `TTLAlwaysHonoured`. `CacheInv` joins the bound to the phase of the reload;
  `QueryInv` keeps what a query has read; `PolicyInv` says that between reloads all cached records obtained calmly
  fit the zone of their name, so that an answer from the cache does too. `TTLInv`
  keeps for every entry that it was stored when its records were obtained and
  expires no later than any of them, for which `minRRTTL` must be the minimum over
  the answer; ageing then subtracts the whole seconds that have passed. About
  Pref64, `EmbedExtract`, `EmbedInjective`, `ValidExtracts`, `PoolsDisjoint`, for every octet
  value and the six prefix lengths: what DNS64 hands out NAT64 takes back, and pools
  do not overlap. `EmbedExtract` excepts the pools `::/56` and `::/64` (see below).
- **Dns64ServerProofs**: `TypeCorrect`, `QuerySem`, `WorkIsAdmitted`,
  `NoWriteAfter`, `DrainIsComplete`. The semaphore and wait groups equal
  cardinalities; `ConnInv` ties the slots and wait group of a connection to its
  pipelined queries, the lock to its holder, and the broken flag to the closing.
- **ReassemblyProofs**: `BufferAlwaysExact`, `OldEntriesExpire`, `AlwaysIntact`,
  `CompleteIsDelivered`, for datagrams of any number and size and every limit. A sum
  over a table is the cardinality of a set of units, which makes it independent of
  the order in which the fold runs. `TableInv` says that an entry holds only genuine
  fragments of its datagram, counts their bytes, and is not complete. For such an
  entry the walk of `contiguousLen` reaches the end exactly when every fragment is
  there, and what is then put together is the datagram. `Track` adds that every
  fragment that arrived and was not shed is in the table.
- **IcmpNicProofs**: about Nat64Icmp, `TypeCorrect`, `QueriesHaveSlots`,
  `NoSlotLeaks`, `CountIsExact`, `Bounded`. `SlotInv` says of the registration and the
  deletion in progress exactly which half of the two tables they have done; `CountInv`
  that a registration past the test still has room, which holds because only the NIC
  loop registers. About Nic, `GraceAlwaysHonoured`, `WarningsSpaced`,
  `FramesAlwaysIntact`, `RefsAlwaysExact`. `ReadInv` says that a sleep is entered only if it ends within
  the grace period; `BufInv` that buffers in use are pairwise different, for which
  the pool must have a free one (fewer goroutines hold a buffer than there are
  goroutines); `RefInv` that a frame not yet sent is nowhere, so that sending it
  creates its first reference. Taking the head of the queue lowers the number of
  places a frame has in it by a bijection between the old and the new places.
- **ProcessRateProofs**: about Config and Process,
  `ServicesAlwaysAgree`, `EnvSourcesAlwaysKept`, `LimitsUntilDisabled`,
  `PoolFollowsKey`, `KeyUntilReload`, `ValidateIdempotent`, `ValidateStable`, for any
  set of files and overrides. `IInv` keeps, for every stage of start-up and reload, which configuration each service
  was built from; between the two halves of a reload the services disagree, so
  agreement is inductive only with that exception. `KeyInv` keeps the prefix of the
  key in the configuration from the override to the start of the services, and in
  NAT64 for good; DNS64 has it until the file is read again.
  About RateLimit, the limiter of the DNS64 server, `RateAlwaysBounded` and
  `EvictionNeverVisible`. The first keeps an account per source (`ChargedInv`): the
  bucket accounts for every admission since the last update and owes no more than the rate gives in the skew, or it was
  evicted, and then the rate has paid for the admissions in full. The second bounds
  what a bucket may owe by the rates it has lived under (`OwingInv`), from which the
  `ASSUME` gives that an evicted bucket is back at its burst at any rate, and keeps
  both limiters in agreement elsewhere (`IdealInv`).

Proved, and not repeated as a property of a run: `TypeOK` of four modules, and
`ServedBIBMapped`, `RepliesArrive`, `CountExact`, `ProxiedBounded`, `NothingLeft`,
`WorkAdmitted`, `DrainComplete`, `PoolKept` and `WarnSpaced`.

Only model-checked are the liveness properties (`ClosedSessionRemoved`,
`IdleMappingReleased`, `IdleRemoved`, `IdleReleased`, `TrackedSwept`,
`ClosedConnReleased`, `DispatchReturns`, `DeafNodeStops`, `AnnouncedApplied`,
`ShutdownCompletes`): liveness under fairness is beyond the prover used here. Every
safety property of a passing run has a theorem. Induction over data is beyond it
too, as a rule that takes a predicate for a parameter; where a fold, a walk or a
minimum needed it, the proof takes a minimal counterexample instead (a set of
natural numbers that is not empty has a least element).

## Findings

1. **A source can stay charged for a session that is gone** (`udp.go:529`, run
   `MCNat64Udp_v_source`). The set-up goroutine stores the session, counts it and
   then charges its source. The NIC loop may evict the session in between; `remove`
   finds nothing to take off, and the charge comes afterwards. `persource.go:11`
   calls the accounting race-free. `CountNeverOver` shows that the global count has
   no such leak, and `SourcesCounted` proves that sweeping a session during its
   set-up is the only way to this one.
2. **A query in flight during a reload caches an answer of the old zone after the
   flush** (`proxy.go:620`, run `MCDns64_v_reload`), the very thing the comment on
   `Reload` (`cache.go:59`) says the flush prevents. `PolicyAfterFlush` shows, and
   `PolicyHolds` proves, that this is the only way.
3. **A reload forgets `YDN64_PRIVATE_KEY`** (`main.go:416`, run `MCProcess_v_key`).
   `reloadConfig` re-applies only `YDN64_ALLOWED_SOURCES`, so DNS64 takes the zones
   of the file while the NAT64 service beside it keeps the pool derived from the key. `config.go:142` says
   that the override keeps the addressing of both consistent; `KeyUntilReload` proves
   that it does until the first reload, and `PoolFollowsKey` that NAT64 stays with
   the key after it.

Read in the code and in the models, but without a run of their own:

- A TCP connection that is dialling when the service stops is tracked after the
  sweep has run, and nobody closes it (`tcp.go:284`, against `service.go:112`);
  Drain's deadline ends the wait. `TrackedSwept` speaks of tracked connections.
- A UDP session evicted between its registration and `bib.flows.Store`
  (`udp.go:533`) leaves a flow entry that leads nowhere; `ReplyReachesSession`
  excludes eviction during set-up for this reason (`NeverSwept`), and `RepliesReach`
  a reload that lifts the limit afterwards. `RepliesReachSpared` proves that there is
  no other way.
- The read loop is started before `SuperviseReadLoop` is called
  (`yggdrasil.go:160`): reads that fail in between meet a grace period of zero, the
  loop ends and there is no context to cancel. `DeafNodeStops` speaks of loops that
  still run when they come under supervision.
- A reload of a file that disables a service that runs (`config.go:280`) leaves its
  unset limits at zero, which is no limit, and its zones unvalidated, against
  `config.go:58` ("every limit is deliberately bounded by default").
  `LimitsUntilDisabled` proves that nothing else takes a limit away.
- `udpSessions` may fall below the number of entries, which `service.go:67` denies:
  the stale entry that `LoadOrStore` finds may be removed and uncounted before
  `Store` puts the new one there, which is not counted (`udp.go:526`). More sessions
  than the limit are then admitted; `CountNeverOver` is about the other direction.
- In the pools `::/56` and `::/64` some embedded addresses are IPv4-mapped (those of
  0.0.255.255 in one and of 0.255.255.0/24 in the other). `net.IPNet.Contains` takes
  them for IPv4, so NAT64 does not translate what DNS64 synthesised
  (`pref64.go:148`).
- An echo session refreshed between the cleaner's test and its deletion is deleted
  (`service.go:411`): the reply to that request is lost.
- An answer with a TTL of zero is stored for the default expiration
  (`cache.go:86`), and one stored while the default expiration is zero is kept for
  ever; `TTLHonoured` leaves out answers from such entries (`Timed`).
- A fatal read error ends a reply loop and unmaps its BIB, but the flows using the
  socket keep it until they expire (`udp.go:605`); `EndpointIndependentMapping`
  speaks of sockets that are read.
- The rate limiter's table may exceed `maxRateBuckets`, when a sweep finds no idle
  source to forget.
- `drainWG` does not count the UDP relay goroutines, and the DNS UDP socket is
  closed as soon as the context is cancelled, so answers under way are not sent.

## Not modelled

- *UDP:* the choice of a local address and of a port of the client's parity
  (`listenBIBSocket`), which either gives a socket or fails; injection of unsolicited datagrams under endpoint-independent filtering
  and the ICMP errors for refused flows; both send packets and change no state.
- *ICMP errors:* the token bucket in front of injection. The module assumes pools
  of length 96 where the code does (`icmp.go:114`).
- *Reassembly:* the walk over extension headers; senders that put a final fragment
  before the end of the datagram.
- *DNS64:* rewriting of PTR queries, 0x20 randomisation, EDNS and truncation, the
  choice of forwarder; AAAA records in an answer to an A query. The cache's `Reload` sets
  expiry and bound in one step.
- *NIC:* the counter of dropped frames, and the routes and addresses of the stack.
- *Configuration:* parsing of the file and of single values, which either succeeds
  or fails in the model; `generate.go`, which writes the text of a new file.
- *Process:* what work is left at shutdown and how long it takes. A drain may time
  out at any moment, so `ShutdownCompletes` says that no step of `main` waits for
  a reload, a signal or a service for ever, not how long it waits. `NewService`'s
  refusal of the pool, which `Validate` has parsed before; flags, logging, `YDN64_PEERS` and the commands that print and exit.
- *Packets, statistics, tap:* byte layout, formatting and debugging output.

Worth adding next: the PTR and 0x20 paths of Dns64, filtering and injection in
Nat64Udp, and the budget of injected errors in IcmpErrors.
