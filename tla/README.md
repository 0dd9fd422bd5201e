# Verification of the eBPF gateway

TLA+ specifications of the gateway in this repository, the TLC runs that
model-check them on small instances, and theorems about them whose proofs TLAPS
checks. Everything is written from the source; line numbers below and in
`PROJECT.json` refer to the files of the repository. `PROJECT.json` lists the
components, the runs, the lines each definition models, the hazards and which
property guards against which, and for every property a faulty variant of the
code that it must catch.

## 1. The system

| component | source | state | operations | talks to |
|---|---|---|---|---|
| XDP firewall | `bpf/xdp_firewall.c` | kernel maps: `blocklist_map`, `rate_limit_config`, `rate_limit_state` (LRU), `packet_counters` (per CPU), ring buffer `drop_events` | one run per packet, in parallel on all CPUs | maps shared with user space |
| Map manager | `internal/ebpf/maps.go` | none of its own | block, unblock, list, configure; read counters; reader goroutine | kernel maps; a channel to the collector |
| Control API | `internal/ratelimit/ratelimit.go` | the start-up routes | five HTTP handlers | map manager |
| eBPF loader | `internal/ebpf/loader.go` | loaded objects, links | load, attach, close | kernel |
| TC metrics | `bpf/tc_metrics.c` | port, protocol and flag maps | never attached (`loader.go:85-91`) | - |
| Collector | `internal/metrics/collector.go` | previous counters, drop events since the last poll, listeners | `poll` each second, `consumeEvents`, `Subscribe` | reader (channel of 1024), aggregator (channel of 64) |
| Aggregator | `internal/metrics/aggregator.go` | totals, three circular buffers, counts by source | `process`, `Snapshot` | `main`'s ticker reads it |
| SSE broker | `internal/metrics/broadcaster.go` | registered client channels | hub goroutine, `ServeHTTP` per client, kick goroutines, `Stop` | ticker (channel of 64), dashboards |
| Upstream pool | `internal/proxy/upstream.go` | ticket counter; `Alive`, `Failures`, `Successes` per backend | `GetNext`, `RoundTrip`, `ReportFailure`, `checkBackend` | backends |
| Router | `internal/proxy/router.go` | route table under a lock | `ServeHTTP`, `build`, `watchSIGHUP` | upstream pools, configuration |
| Enforcer | `internal/auth/zero_trust.go` | routes and validators of start-up | `Middleware` | API key and JWT validators, router |
| JWT validator | `internal/auth/jwt.go` | JWKS cache and its age under a lock | `Validate`, `getPublicKey`, `fetchJWKS` | key server |
| API key validator | `internal/auth/apikey.go` | key table (constant) | `Validate`, on `X-API-Key` or `Authorization` | enforcer |
| Middleware, reverse proxy, server | `internal/proxy/middleware.go`, `proxy.go` | the HTTP server | chain, `Start`, `Stop` | router |
| Configuration | `internal/config/config.go` | none | `Load`, `validate` | file |
| Main | `cmd/gateway/main.go` | two HTTP servers, the signal it waits for | wiring, ticker, serving, shutdown | all |
| Dashboard | `dashboard/src` | React state | stream, control panel, charts | SSE broker, control API |

What is hard here is concurrency without locks: CPUs that race on limiter
entries which the kernel may recycle; goroutines that update three atomic fields
of a backend one after the other; pipelines of goroutines whose channels drop
what does not fit; a broker that closes channels others may use; a reload while
requests are in flight. `PROJECT.json` lists each hazard at its line.

What makes each component correct:

- firewall: a verdict that the maps justify; no drop for the rate before the
  source has used up its threshold in the window; a bound on what the limiter lets through;
  events and counters that agree as far as they can;
- control API: what is acknowledged is what is listed, and what is enforced;
- pool: no error while a backend is up; even spread; a health state that follows
  the backend;
- metrics: nothing counted twice, nothing lost but where the code drops on
  purpose, rates over the right window;
- broker: no panic, no silent gap in a stream, nobody kept for ever;
- router and enforcer: the longest match of one configuration, the policy of the
  route that serves, a reload that takes effect;
- key cache: no key is used long after it was withdrawn, none is refused that was
  there all along, no older answer overwrites a newer one, every token is judged;
- main: a shutdown that ends, whatever streams are open.

## 2. The modules

| module | models | state and actions |
|---|---|---|
| `XdpFirewall` | XDP program on several CPUs, control API, event reader | `cpu[c]` is the program counter and the locals of the packet on CPU `c`; each access to a shared map is one action (`CheckBlocklist`, `ReadConfig`, `Lookup`, `Insert`, ..., `emit_drop_event`). `count++` is `LoadCount` and `StoreCount`. `HandleBlockIP`, `HandleUnblockIP`, `HandleUpdateRateLimit` are the API's map updates; implements `KernelView` |
| `KernelView` | abstract: what user space sees of the program | two counters and a ring: count a drop, then report it, once and under its source; no CPUs, limiter or blocklist |
| `RateWindow` | the same program on one CPU with a fixed configuration | adds the times of the packets let through; implements `FixedWindow` |
| `FixedWindow` | abstract: a limiter that decides a packet in one step | `entry[a]` says when the source's window began and how many packets came since |
| `UpstreamPool` | pool, round trips, health checks | one worker per request and per running check; each atomic operation is one action |
| `SSEBroker` | hub, handlers, kicks, stop | `hub` and `handler[c]` are control points; a channel is the number of snapshots in it; implements `EventStreams` |
| `EventStreams` | abstract: a stream of snapshots for each dashboard | `stream[c]` is live, broken once a snapshot was withheld, or ended; no hub, handlers or kicks |
| `CircularBuffer` | the aggregator's buffer as a value | `Push`, `Contents` |
| `MetricsPipeline` | reader, collector, aggregator, ticker | channels are sequences; `poll` is four actions, since other goroutines run between its reads, its lock and its send. The kernel's actions are those of `KernelView`; implements `TotalsFeed` |
| `TotalsFeed` | abstract: the totals as absolute readings | readings of the two counters, less what was lost, travel through a queue (`feed`) and are shown; no deltas, no failing polls |
| `Gateway` | CORS, enforcer with the API key validator, router, SIGHUP reload | `request[q]` moves from the chain to the route that serves; `watchSIGHUP` is four actions: ask for the signal, take one, read the file, build |
| `GatewayMain` | the process around `Gateway`: start, serving, shutdown, end | EXTENDS `Gateway`; `main` is the control point of the goroutine `main`, `call` a request to the API server; closing the proxy or ending the process ends every request of `Gateway` |
| `JWKSCache` | token validation with the cache of the issuer's keys | `request[r]` moves through `getPublicKey` and `fetchJWKS`; `fetcher` holds the write lock; the issuer publishes key sets, time passes with `Tick` |

`MC*` modules give the constants of the runs. `*_proofs` modules hold theorems, and
`DataFacts` what several of them need of numbers and of sums. `XdpFirewall` is extended by
`RateWindow` and `Gateway` by `GatewayMain`; `XdpFirewall` and `MetricsPipeline` compose
through `KernelView`, which the one implements and whose actions are the other's
environment; the other modules meet at what is named the same in both: the snapshots of
`MetricsPipeline` enter `SSEBroker`, a route of `Gateway` leads to an `UpstreamPool`, and the verdict on
a token, any one in `Gateway`, is what `JWKSCache` is about.
Some modules contain, marked as faulty variants, definitions that nothing uses:
each is a plausible error in the definition after it, and replacing that
definition by it must break a property.

Design decisions worth knowing:

- **Addresses** are tuples of octets in network order. `Key` and `ListedIP`
  (`maps.go:22-38`) and `ipToString` (`collector.go:141-144`) are modelled by what
  they do to the octets, which is how the byte-order findings come about.
- **The LRU hash** is a set of slots. An insertion takes any slot, free or in
  use, or fails; a pointer from a lookup stays valid for the slot, not for the
  source, which is what the kernel guarantees.
- **Windows of a slot**: the history `counted` says how many packets of its source a
  slot has counted since its window's start was last stored, `torn` which slots hold a count
  that is not of that window, and `charge` what the packet on a CPU was counted on. A
  count is stale when it was read from a torn slot or another CPU restarted the window
  before it was stored, and it tears the slot it is stored into.
- **The end of `xdp_firewall.c`**: the file in the repository stops inside the
  last nested `if`. The model lets packets that no branch drops be counted and
  passed, as the first branch does (lines 139-142).
- **Frames that cannot be parsed** pass in one step (`PassUnparsed`) and have no source.
  `parse_packet` has read the address before it finds a TCP or UDP header cut short
  (lines 86-103), so such a packet of a listed source passes, outside `VerdictFollowsMaps`.
- **Transport errors**: `RoundTrip` fails for a backend that is not up, and `ClientAborts`
  for any, since the client's going away cancels the request and `upstream.go:164-168`
  reports every error.
- **Sums over CPUs** (`maps.go:94-105`) read one counter after the other.
  Counters only grow, by one, so the sum was the true sum at some moment of the
  read; one action per sum loses nothing.
- **Credentials** are the record of two headers, `X-API-Key` and `Authorization`
  (scheme and value). Which header wins, that a key may come as a bearer token, that
  a token is only looked at when no key is valid, and that the last entry of a
  duplicate key stays are in the model; keys and tokens themselves are compared only.
- **Ages, not clocks**, in `JWKSCache`: the time since the cache was filled, since a key
  was last published, since a fetch began. Each stops where nothing tells larger
  values apart, so the state space is finite and no behaviour is cut off.
- **The signal handlers** are installed by goroutines: a SIGHUP before `Watch`, or a
  SIGTERM before `Notify`, ends the process (`EarlySIGHUP`, `EndEarly`).
- **`FixedWindow`'s entries** are those of the LRU map that `RateWindow`'s slots hold,
  a source without a slot having none. A step of the program that decides a packet
  maps to one abstract step and every other one to a stutter.
- **`EventStreams`' state of a stream** is where the handler is, whether the channel is
  in the hub's map and whether a snapshot was withheld; that a goroutine waits to
  unregister a client has no counterpart. A stalled or slow `Write` is a stutter.
- **`TotalsFeed`'s queue** holds, for each snapshot in the aggregator's channel, the
  totals there will be after it. A poll whose second lookup fails is a stutter, and a
  reading that no listener takes (`Lose`) is missing from all later totals.
- **History variables** (marked so) serve the properties and no guard reads them.

## 3. The runs

| run | bounds | result |
|---|---|---|
| `xdp_firewall` | 2 CPUs, 2 sources, 2 slots, thresholds 0 and 2, 3 packets, 1 clock tick, blocklist and ring of 1 | `TypeOK`, `NoPrematureRateDrop`, `VerdictFollowsMaps`, `EventsNeverOutrunDrops`, `ListingMatchesRequests`, `ImplementsKernelView` hold (498 thousand states) |
| `xdp_endian` | same | `BlockedAddressIsDropped` fails: see findings |
| `rate_window` | 1 CPU, 2 sources, threshold 2, window 2, 5 packets, times 0-3 | `TwiceThresholdPerWindow`, `DropsOnlyAfterFullQuota`, `ImplementsFixedWindow` hold (302 thousand states) |
| `rate_sliding` | same | `SlidingWindow` fails |
| `rate_torn` | 2 CPUs, 1 source, threshold 2, window 1, 4 packets, times 0-1 | `DropsOnlyOverThreshold` fails |
| `upstream_pool` | 2 backends, 2 requests, 1 check per backend, thresholds 1 | `TypeOK`, `NoUpstreamMeansAllDown`, `EvenSpread` hold (1.45 million states) |
| `upstream_health` | 1 backend, 1 request, 2 overlapping checks, thresholds 2 | `UpComesBack`, `UpIsFound`, `DownIsFound` hold (232 thousand states) |
| `upstream_wrap` | 3 backends, ticket counter modulo 4 | `NoUpstreamMeansAllDown` fails |
| `sse_broker` | 2 clients, channels of 1, 1 waiting kick per client | `TypeOK`, `NoPanic`, `GapMeansKick`, `ImplementsEventStreams`, `GoneIsForgotten`, `SlowIsKicked`, `StopEndsStreams` hold (25 thousand states) |
| `metrics_pipeline` | 2 sources, 2 packets, every channel and list of 1, window of 2 | `TypeOK`, `CountsConserved`, `EventsConserved`, `WindowIsRecent`, `ImplementsTotalsFeed`, `TotalsReachDashboard` hold (118 thousand states) |
| `gateway` | 1 request at a time, 3 paths, 4 header combinations, 4 configurations, 2 edits, 1 call to the API | `TypeOK`, `LongestMatchServes`, `ServedIsEntitled`, `ReloadTakesEffect`, `ShutdownTerminates` hold (241 thousand states) |
| `jwks_cache` | 2 requests, 2 key ids, 2 keys, lifetime and timeout of 1 | `TypeOK`, `CacheIsNewestAnswer`, `StaleKeyBound`, `NoFalseDenial`, `EveryTokenIsJudged` hold (89 thousand states) |

Why the bounds are enough to be interesting. Two CPUs and three packets reach
every race on an entry: a lost increment, a torn restart, an eviction under a
held pointer, a source counted on both CPUs; `rate_torn` has one more packet, which
is what an early drop takes. In `xdp_firewall` a threshold of 2 takes all three
packets to exceed, or a client that sets it to 0 under a packet; a second
blocked address meets a full blocklist and a second event a full ring. The
window instance lets a window end, start anew and fill again. Channels of
capacity 1 are full as soon as one consumer pauses; the code's 16, 64 and 1024
change when, not what. Two backends and thresholds of 1 let every backend be
marked down and up between two looks of a scan; `upstream_health` has thresholds
of 2, so that counters can be reset half-way. A counter modulo 4 stands for 2^32:
both leave 1 modulo 3. One request suffices in `gateway`, as requests only read
what they share; its configurations drop a protected route, cannot be read, or name
an upstream that cannot be parsed, and two edits let a SIGHUP come before, between
and after them. The header combinations are a token alone, a token beside a valid
key, a key in `Authorization`, and the same beside a wrong `X-API-Key`. In `jwks_cache` two requests are
enough for one to wait for the other's fetch and to fetch again, and the publications
withdraw a key, add one and give an id to another key; with durations of 1 an answer
can be stored as late as a fetch allows and the cache can still expire. In
`rate_window` a ring of length 0 leaves the events out, which no guard of the
limiter reads; the time lets a window end, start anew and fill.
With symmetry where it is used (`xdp_firewall`, `rate_window`,
`upstream_pool`), only CPUs, slots or requests are exchanged, and only safety or
a refinement without fairness is checked. `MaxTime`, `MaxPackets`, `MaxKicks`, `CounterMax`, `MaxEdits` bound what
the code does not; `CounterMax` and `MaxKicks` saturate rather than stop.

Deadlock is checked except in `rate_window`, `rate_sliding` and `rate_torn`, where traffic
ends with the bounds, in `sse_broker`, where everything may have stopped, and in
`gateway`, where the process exits.

### Fairness

- `UpstreamPool`: weak fairness for each request and each check - goroutines are
  scheduled, the ticker ticks, a request or a check ends. New requests need not come,
  clients need not go away but may again and again, and backends may change at any
  time. `UpComesBack` holds however often clients go away, because a backend that is
  marked down gets no new requests to be charged with; that it stays up takes
  the assumption of `UpIsFound` that in the end none goes away any more.
- `SSEBroker`: weak fairness for the hub; strong fairness for a handler or a
  kick that waits to unregister and for a handler whose context is done, because
  Go serves blocked senders in turn and picks among ready `select` cases at
  random. A `Write` is only fair once the peer is gone: a stalled peer may block
  it for ever.
- `MetricsPipeline`: weak fairness for each goroutine; strong fairness for the two
  counter lookups, which may fail again and again but not for ever. None for
  the kernel: packets may stop at any time, which is when totals must settle.
- `GatewayMain`: weak fairness for the watcher's goroutine and for `main` once it is on
  its way: goroutines are scheduled and the ten seconds of the shutdown's context
  pass. None for requests, calls, dashboards, edits and signals, so
  `ShutdownTerminates` holds although a stream is never closed from outside.
  `ReloadTakesEffect` says "or the process has ended", which a signal may cause at
  any time.
- `JWKSCache`: weak fairness for each step of a fetch - the HTTP client's timeout ends
  it, reading of the body included - and strong fairness for taking the lock: an
  `RWMutex` lets readers that waited for a writer go before the next one, and writers
  take their turns. None for the issuer or for the arrival of tokens.

### Findings

1. **Byte order of the blocklist** (`xdp_endian`, `maps.go:31`). README.md:103
   promises that `POST /api/block` adds the address to the blocklist. On a
   little-endian host the key that is stored has its octets reversed, so packets
   of the address pass. `GET /api/blocked` reverses it again, so that the
   listing looks right (`ListingMatchesRequests` holds, and is proved).
2. **Fixed, not sliding, window** (`rate_sliding`, `xdp_firewall.c:165`).
   README.md:51 says "sliding window". Up to twice the threshold passes in a
   stretch as long as the window; `TwiceThresholdPerWindow` shows not more,
   and `ImplementsFixedWindow` says exactly what it is instead.
3. **Wrap-around of the ticket counter** (`upstream_wrap`, `upstream.go:137`). With
   a number of backends that does not divide 2^32, the scan that straddles the
   wrap looks at one backend twice and may fail a request although a backend is
   up. Once in 2^32 requests.
4. **A restart is torn** (`rate_torn`, `xdp_firewall.c:166`). README.md:204 calls the
   threshold the "max requests per window". Between the store of the new start
   and the store of the new count another CPU adds to the old count and drops the second
   packet of the new window under a threshold of two. `NoPrematureRateDrop` holds, and is
   proved: only such stale counts drop early.

Further disagreements are visible in the models without a run of their own:

- Drop events are decoded as little-endian and printed from the highest octet
  (`maps.go:162`, `collector.go:142`), so the list of README.md:93, "Top-10 blocked IPs
  horizontal bar chart", shows addresses reversed. `ipToString` of `MetricsPipeline`
  reverses them; `EventsConserved` shows that each source still has one name.
- README.md:64 calls the passive tracking a "5xx circuit breaker". Every error of the
  transport is reported (`upstream.go:164-168`), so clients that go away (`ClientAborts`)
  take a healthy backend out; with `interval_s` of 0 nothing brings it back.
- README.md:67 promises draining of requests in flight, of the reverse proxy;
  `gateway.Stop` is `server.Close` (`proxy.go:49`), which ends them where they are
  (`StopGateway`). Only the API server is shut down gracefully.
- README.md:66 says "Hot-reload of routes via SIGHUP"; the enforcer goes on with the routes
  of start-up (`zero_trust.go:36`), so a path whose protected route was taken out of the
  file is still answered 401.

## 4. The proofs

`XdpFirewall_proofs` - for any CPUs, addresses, slots, bounds and byte order,
from the assumptions of `XdpFirewall` (finitely many CPUs, addresses closed under reversal,
`NoSlot` is no slot, the clock stays below the modulus):

- `TypeCorrect`: `Spec => []TypeOK`, one step per action. The conjunct that a CPU
  between lookup and last store holds a real slot is what the other proofs need.
- `RateDropsJustified`: `NoPrematureRateDrop` is not inductive: it speaks of packets
  already dropped. The strengthening says that the count of a slot that is not torn is at
  most what its source has had counted in the current window, and that what a CPU has
  loaded, incremented or compared is at most that as well, unless it is stale. Lost
  increments only make the stored count smaller, an eviction starts again at 1, and a
  restart makes every count that is loaded and not yet stored a stale one.
- `VerdictsJustified`: what a packet's history says of its source is related to
  the maps at each of its steps.
- `ListingExact`: the keys of the blocklist are the keys of the acknowledged
  addresses, and reversing twice is the identity.
- `EventsFollowCounters`, on a finite number of CPUs: the records in the ring, those
  read and the CPUs about to submit one are at most the drops counted (`OutrunInv`; a
  full ring makes them fewer). A step moves one
  CPU into or out of the set of those about to submit, which changes its cardinality
  by one.
- `UserSpaceSeesKernelView`: every behaviour is one of `KernelView`, for any finite number of
  CPUs. All the steps of the limiter and of the control API are stutters; the drops to be
  reported are the CPUs at that step, by source. What `MetricsPipeline_proofs` shows of the
  metrics therefore holds with this firewall under them.

`SSEBroker_proofs` - for any clients and channel sizes:

- `TypeCorrect`, `BrokerNeverPanics` (the invariant: a registered channel is open,
  and the clients a fan-out has still to serve are registered, since only the
  hub changes the map) and `NoSilentGap` (every kick that starts is counted, and
  one that is taken removes the client).
- `BrokerKeepsStreams`: every behaviour of the broker is one of `EventStreams` under the
  mapping of `SSEBroker`. The invariant (`StreamInv`) says that only a client from which
  a snapshot was withheld has a kick waiting, that a handler of a registered client
  has returned only after its dashboard hung up, and that a stopped hub has closed all
  the channels. So the hub's one `case` for `unregister` is a
  `Kick`, a `Forget` or a stutter, whoever sent and in whatever order; a duplicate is
  the stutter.

`RateWindow_proofs` - for one CPU and any sources, slots, threshold and window:

- `LimiterIsFixedWindow`: every behaviour of the program is one of `FixedWindow`
  under the mapping of `RateWindow`. The invariant (`WindowInv`) says that a source has at most one
  live entry, that the pointer a packet holds leads to its own source's entry, that
  the branch it took fits the age of the window, and that what it has loaded is
  still in the entry. Each of these fails with a second CPU, which is why the
  theorem assumes a single one; `RateDropsJustified` is what remains then.
- `DropsAreDue`: a drop for rate comes after a full quota. The invariant (`Quota`)
  says that the last `min(count, Threshold)` packets let through came since the
  entry's window started; the steps of `FixedWindow` keep it, and `DropOK` ties the
  packet about to be dropped to the entry it was judged by.
- `AtMostTwice`: at most twice the threshold in any stretch as long as the window, for
  sources that were not evicted. The invariant (`Spaced`) says that the packets before
  the current window are older than its start, all but `Threshold` of them by a whole
  window, and that the first and the last of 2 * `Threshold` + 1 packets in a row are
  at least a window apart.

`UpstreamPool_proofs` - for any numbers of backends, requests and overlapping checks
and any thresholds:

- `TypeCorrect`, and `NoUpstreamJustified`: if the number of backends divides the
  modulus of the ticket counter, a scan that reports no upstream has found every
  backend down at some moment of the scan. The invariant (`ScanInv`) says that the
  backends seen so far are those at the tickets looked at; consecutive tickets of a
  full round hit every backend by the uniqueness of quotient and remainder
  (`DataFacts`), unless the counter wraps inside it. The assumption is needed:
  `upstream_wrap` is the counterexample without it.
- `PicksAreEven`: `EvenSpread` compares histories of picks, and what makes them even is
  the counter. The invariant (`SpreadInv`) says that while no backend has been marked
  down every scan ends at its first look, so that the backends' shares, picks under
  way included, are equal but for those served in the current round, which the
  counter modulo the number of backends tells. Wrapping round keeps this only if
  that number divides 2^32.

`JWKSCache_proofs` - for any requests, keys, publications and durations, a time to live of
0 included:

- `TypeCorrect`, with the conjunct that a request that fetches holds the lock, on which
  the others rest; `NewestAnswerWins`; `StaleKeysExpire` (the cache's age and the age of its
  oldest possible answer are related by the age of the fetch that stored it); and
  `NewKeysAreFound` (a key that was published ever since the request came is in the
  answer to its own fetch).

`Gateway_proofs` - for any paths, headers, keys, configurations, requests and edits,
over the whole life of the process:

- `TypeCorrect`; `LongestMatch`: the first entry of a sorted table whose path is a
  prefix is a longest match, and a request remembers a table in force since it
  arrived (the invariant `GatewayInv`);
- `OnlyTheEntitledAreServed`, if no two routes of the start-up configuration share a
  path: two separately sorted tables hold the same routes, two prefixes of one path of
  the same length are equal, and so the enforcer and the router choose the same
  route. With a shared path the sort, which is not stable, may choose differently.

`MetricsPipeline_proofs` - for any finite set of sources, which are sequences of octets,
and any sizes of the ring, the channels, the list and the window:

- `WindowKeepsTheLast`: `Push` on a circular buffer is `Append` to a queue
  that keeps the last `n` entries (`PushIsAppend`), from which `WindowIsRecent` follows,
  however often the index has gone round.
- `TypeCorrect`: no delta is negative, since (`AheadInv`) what the poll has read and what
  the poll before read are never ahead of the counters, nor the one read behind
  the other.
- `CountsAreConserved` and `EventsAreConserved`: the laws themselves are kept by every
  step once the shape of the state is known (`CountsInv`, `EventsInv`); what each
  step moves is a matter of how sums and numbers of occurrences change with `Append`,
  `Tail`, a split of a sequence and `EXCEPT`. That a name stands for one source is
  that reversing twice is the identity.
- `TotalsAreReadings`: every behaviour is one of `TotalsFeed`. The totals in the queue
  are sums over prefixes of the channel (`TotalsAppend`, `TotalsTail`), and
  `CountsConserved` says that the newest of them, with what was lost and what is in hand,
  is the last reading; that is why `Send` appends a reading and not just a sum.

Sums are folds, and a fold is a recursive function over a choice of elements, about
which an induction would be needed. `DataFacts` gets the two equations of a sum (of the
empty set, and of a set with one element more) from smallest counterexamples instead:
a set of numbers that is not empty has a least element (`LeastNatural`), a set of finite
sets has a smallest member (`SmallestSet`), and the step from one below the counterexample
to it is a plain leaf.

Assumptions are the named `ASSUME`s of the modules and nothing else; TLC evaluates
them in the runs.

Those that earn their place in a proof: finitely many CPUs (`CPUsAssumption`), requests
(`WorkersAssumption`) and sources (`SourcesAssumption`), since a cardinality or a sum over
infinitely many means nothing; and the number of backends dividing the modulus of the
ticket counter, in `NoUpstreamJustified` and `PicksAreEven`.

Only model-checked: liveness, which is beyond the prover - `UpComesBack`, `UpIsFound`, `DownIsFound`,
`GoneIsForgotten`, `SlowIsKicked`, `StopEndsStreams`, `TotalsReachDashboard`,
`ReloadTakesEffect`, `ShutdownTerminates`, `EveryTokenIsJudged`. Every other property of a
passing run is a theorem.

## 5. Not modelled

- The eBPF loader: load, attach and close happen once, in `main`, before anything else
  runs and after it; `log.Fatalf` on the way leaves nothing to model. Without loaded
  maps (`maps.go:41`) every operation is a no-op.
- The TC program, which is never attached, and the per-port and per-protocol reads of
  maps that only it would fill.
- The sums over CPUs stop at `runtime.NumCPU` (`maps.go:94`), the CPUs of the process's
  affinity mask: the model takes the process to be allowed on all of them.
- The stop of the collector and of the aggregator: they are told just before the
  process ends, and nobody waits for them.
- HS256, which keeps no state, and the validators' own middleware, which `main` does not use.
  Cryptography and token parsing are a library: `JWKSCache` compares keys.
- Audit and access logs, request ids, header rewriting, CORS headers, the 502 of the
  reverse proxy's error handler.
- Several reloads' pools side by side: `UpstreamPool` is one pool. Pools of replaced
  tables go on checking their backends for ever; there is no bound to state.
- After a reload the enforcer and `GET /api/routes` still use the routes of
  start-up; `ServedIsEntitled` is stated up to the first reload for that
  reason and says nothing of routes that a reload protects.
- With `interval_s` of 0 nothing sets `Alive` again; the pool's safety is proved for
  that case (`Overlap = 0`), and `UpComesBack` and `UpIsFound` are only checked with checks.
- What no property forbids although the models show it: a drop under a threshold that the
  control API has just set to 0 (`xdp_firewall.c:170`), an answer without keys that empties the
  key cache (`jwt.go:135`, an exception in `NoFalseDenial` and the newest answer to
  `CacheIsNewestAnswer`), a scan that finds every backend down at some moment though never
  all at once, and a handler of the broker that waits for a hub that has stopped
  (`broadcaster.go:102`). No document says otherwise of any of them.
- The dashboard: its stream is a client of `SSEBroker` and the call in flight of
  `GatewayMain`; the list that its control panel shows and the race of its answers are
  React state in the browser.
- Floating-point rates, sorting of the top ten, charts.

## 6. Plan

Done: `XdpFirewall`, `RateWindow` with `FixedWindow`, `UpstreamPool`, `SSEBroker`,
`MetricsPipeline` with `CircularBuffer`, `Gateway` with `GatewayMain`, `JWKSCache`, the
abstract specifications `FixedWindow`, `KernelView`, `EventStreams` and `TotalsFeed`, and the theorems of
section 4. What would add most from here:

1. `Gateway` as a sequence of tables in force, each request served by one of them, as an
   abstract specification it implements.
2. The pool as an abstract balancer: what a scan promises without tickets and wrap-around.
3. `ControlPanel`: the dashboard's list beside the server's.
4. A second set of CPUs in `XdpFirewall` for the affinity mask.

## 7. Running

    tlc -workers 2 -config MCXdpFirewall.cfg MCXdpFirewall
    tlapm XdpFirewall_proofs.tla

Each run of `PROJECT.json` names its module and its configuration.
