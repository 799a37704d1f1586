# CACC-Secure: specification and verification

This directory holds TLA+ specifications of the CACC-Secure extension of ns-3 / ndnSIM
(`src/src/cacc-secure`), the TLC configurations that check them and the TLAPS proofs about them.
Every definition is written from the C++ code; where the code and a comment disagree the
specification follows the code, and the disagreement is a run of its own (see *Findings*).

Paths below are relative to `src/src/cacc-secure/` unless they start with `src/`.

## 1. The system

CACC-Secure adds a header of four fields (PH, RHC, SEQN, HMAC) to NDN data packets. The
producer, or a router that answers from its content store, fills it in; every router on the
path puts the packet through a pipeline that checks it, decides whether to cache it and updates what
the router thinks of its neighbour. Everything runs inside the ns-3 event loop: each handler runs
to completion, no component starts a thread or locks anything. What is hard is therefore not thread
interleaving but the order of *calls*: long sequences of packets of several names and neighbours,
duplicated, reordered or lost by the network, and components that share the router's state.

### Inventory

| Component | State | Operations | Talks to | What is hard, and what makes it correct |
|---|---|---|---|---|
| SEQN cache, `model/seq-cache.*` | `m_seqTable` (name to last SEQN), `m_lruTracker` (list of names), `m_lruMap` (name to list iterator), capacity | `validateSequence`, `evictOldest`, `clear` | called by the pipeline | three structures must describe one another after any mix of touches, evictions and clears, or `erase` uses a dead iterator; 8-bit circular order; capacity limit and capacity 0; a rejected packet must not refresh its name |
| Rate limiter, `model/rate-limiter.*` | per name a deque of timestamps and the last PH | `checkAndUpdate`, `clear` | pipeline; two clocks | lazy purge, strict `>` at the window's edge, 64-bit wrap of `now - stamp`, a wall clock until simulated time moves, the clamp's choice of PH |
| Reputation table, `model/reputation.*` | neighbour to score | `getTrustScore`, `update` | pipeline | exponential average stays in [0,1]; first score of a new neighbour |
| CACC core, `model/cacc-core.*` | last probability, last sample | `probability`, `decide` | pipeline | Equation (1) stays a probability for every header, RHC beyond H_max included |
| Security engine, `model/security-engine.*` | shared key | `computeHmac`, `verify` | pipeline, producer, cache response | a tag binds name and header; the failing HMAC call |
| Router pipeline, `model/router-pipeline.*` | all of the above, counters | `process`, `parse`, `serialize`, `resetStats`, accessors | called by the forwarding strategy | order of the checks and what an early return must leave alone; counters; reputation feedback |
| Producer, `model/producer.*` | `m_globalSeqn`, last number per name | `createHeader`, `nextSeqn`, `currentSeqn`, `reset` | security engine | the numbers wrap; after a reset routers still remember the old ones |
| Cache response, `model/cache-response.*` | key | `updateHeader` | security engine | the number is taken from the cached packet, so repeated hits repeat a number |
| TLV header, `model/cacc-header.*` | fields, cached wire block | constructor, setters, `wireEncode`, `wireDecode` | a packet's TLV form | cached wire against fields, a decode that fails half way |
| Helper, `helper/cacc-secure-helper.*` | attributes by name, pipeline per node | `SetAttribute`, `Install`, `InstallAll`, `GetPipeline` | creates pipelines | one variable shared by three attributes, truncation to 32 bits, second installation |
| Experiment scripts, `src/scripts/*.cc` | counters, a history of pairs per name | set up nodes, hooks that alter packets before `process`, rates at the end | helper, producer, pipeline | six differently written hooks that must count each packet once; unsigned subtraction; rates that are percentages |
| Scenario and test simulation, `src/scenarios`, `src/tests` | none of the protocol | configure ndnSIM objects | | not modelled |

Interactions. The helper creates one `RouterPipeline` per node. Data goes from the producer
(`createHeader`) or a cache (`updateHeader`) over links to `RouterPipeline::process(name, hdr,
prevHop)`. `process` calls, in this order, `SecurityEngine::verify`, `SeqCache::validateSequence`,
`RateLimiter::checkAndUpdate`, `ReputationTable::getTrustScore`, `CaccCore::decide` and
`ReputationTable::update`, and may return after the first or the second. `seqCache()` and
`rateLimiter()` hand the components out by reference, so their `clear` may come between any two
packets; that a caller also validates packets or updates scores behind the pipeline's back is left
out, since nothing in the repository does.

`PROJECT.json` lists the hazards at the lines where they bite and the properties that cover them.

### Remarks on the repository as a whole

Met while reading; most are not properties of a running system, so no run is about them, unless one
is named.

* `src/scripts` and `src/scenarios` call `setPreForwardHook` and `SetParameter`, which neither the
  pipeline nor the helper has; `src/tests` calls `validateFrequency` and a two-argument `RateLimiter`
  constructor that do not exist. `Experiments` models the hooks as the scripts intend them: called in
  place of `process`, which they call themselves.
* The limiter can clamp with fewer than the threshold of packets in the window: a name stamped by the
  wall clock before simulated time began keeps its expired stamps while simulated time passes that
  value (`rate-limiter.cpp:63`), which line 49 ("count_in_last_60s") does not foresee. It needs a
  wall clock that starts near 0. `SlidingWindow` states the exception.
* `PipelineDecision` has a value `DROP_RATE` that `process` never returns.
* The header is 7 bytes with a 4-byte tag for `RouterPipeline::serialize` and 6 bytes with a 3-byte
  tag for the TLV class; nothing converts one into the other.
* `CaccHeader` is defined twice in namespace `ns3::ndn` (a struct in `router-pipeline.hpp`, a class
  in `cacc-header.hpp`); the two are not used together in one translation unit.
* `CaccHeader::wireDecode` calls `Block::parse()`, which reads the value as a sequence of TLV
  elements, on a value that is six raw bytes; whether it throws depends on those bytes.
* The limiter counts packets, not increments (`rate-limiter.cpp:81`): each packet below the threshold
  pushes a timestamp whatever its PH, so a name of constant PH is clamped as well, while
  `rate-limiter.hpp:5-7` speaks of "the number of PH increments observed in the last 60 seconds".
* In S1 and S2 the branch that would compute the tag again (`attack-s1-ph-tampering.cc:56`) is empty,
  so `--attackersKey` changes only a column of the CSV file. Every packet whose PH or RHC a hook
  changes therefore fails the tag (`WholeHeadersPass`), and what the heads of the scripts say comes
  after the tag never does: the limiter in S1 with the key and in S4 (`inflation_clamped`; S4 reports
  a detection rate of 0, not 85-90 %), the check of RHC against H_max and the reputation in S2 with
  the key (`attack-s2-rhc-tampering.cc:10`; no code makes that check), the reputation in S5
  (`attack-s5-byzantine.cc:10`; it only adds to what the tag has dropped).
* The hooks of S1 are to be on all nodes "except producers", but node 0, the producer, is hooked.
* S3 decides by a second random draw, not by what happened to the packet, whether a dropped packet
  was detected, and divides by the number of replayed packets; the rate can exceed 100 %. Its
  history of 256 pairs spans the whole circle of numbers, so that an old pair may lie ahead of the
  last number, pass the tag on a packet of the PH it was recorded at, and be forwarded, although
  `attack-s3-replay.cc:9` says that true replays are dropped. No property forbids it:
  `NewerIffAccepted` speaks only of numbers within half a circle. On a packet of another PH, as content
  stores make them, the pair fails the tag and counts as tampering, never as a replay.
* In the three standard scripts `OnDataReceived` is connected to no trace source. The number of Data
  stays 0, the unsigned difference in `geant-23-nodes.cc:187` wraps, and the reported cache hit
  ratios are always the fallbacks 81.0, 79.2 and 77.9.
* `attack-s1-ph-tampering.cc:155` comments a `Frequency` of 100.0 as requests per minute, but the value
  is per second, as the standard scripts know, which divide by 60. `data_extractor.py` calls a value computed per interval "cumulative rolling".

## 2. Modules

```
 SlidingWindow        ReplayFilter                     what the two components promise
      ^ implemented by     ^ implemented by
 RateLimiter          SeqCache   Reputation   CaccCore   SecurityEngine
      ^                    ^          ^            ^            ^
      +--------------------+---- RouterPipeline ---+------------+      one router
                                      ^      ^
                                      |      +-- RouterHistory         and what its parts were asked
 CaccSecureHelper, Producer <--- Experiments           the experiment scripts around it

 Producer + SeqCache over a bad link, with a content store:  SerialNumbers
 Producer + SeqCache over a good link, with resets:          Recovery
 CaccHeaderCodec                                             the TLV form of a header

 MCRateLimiter  MCSeqCache  MCRouterPipeline  MCSerialNumbers     instances for TLC
 MCRecovery  MCExperiments  MCHelper  MCHeaderCodec

 SeqCacheProofs     RateLimiterProofs                  theorems and proofs
      ^ used by       ^ used by
      +--- RouterPipelineProofs ---+ <- ExperimentsProofs
 RecoveryProofs  SerialNumbersProofs
 CaccSecureHelperProofs  CaccHeaderCodecProofs
```

Modules named after a class model that class; variables keep the members' names, and operators the
methods' where a method is one operator. One call of a method is one step. A method with several
outcomes has one action per outcome, and its guard is the conjunction of the tests on that path.

**SeqCache.** The `std::list` is modelled by its nodes: `m_lruTracker` is the sequence of node
addresses from front to back, each with the name stored in it, and `m_lruMap` maps a name to the
address its iterator points at. `AcceptTracked` is the path of `validateSequence` for a known name
(erase through the iterator, push to the front, renew the iterator), `AcceptNew` the path that
inserts below capacity, `AcceptEvicting` the path that calls `evictOldest` first and then inserts,
`DropUnfresh` the rejection, `Clear` is `clear()`. A new node may get any address not in use, among
them one just freed, as an allocator may return it. The modulus 256 is `Modulus == 2 * HalfWin`
with `HalfWin` a constant (128 in the code).

**ReplayFilter** is the promise: a map from each remembered name to its last accepted number and to
the set of other names accepted since; a name is forgotten when that set reaches the capacity. There
is no list, no iterator, no eviction. `SeqCache!ImplementsFilter`
states that each step of the cache is a step of the filter with the same reply.

**RateLimiter.** `m_windows` maps a name to its deque and `lastPh`. The purge, the test at the
threshold, the push and the write of `lastPh` are one step: `Clamp` (returns true, PH overwritten)
or `Record` (returns false). `NowMs` reads the wall clock while simulated time is 0, as `nowMs()`
does; the two clocks are advanced by actions of their own. The subtraction is taken modulo `Word`
(2^64 in the code).

**SlidingWindow** is its promise: the whole history of accepted packets is kept and the answer is
computed from those that are not older than the window; nothing is ever purged. A packet is let
through only below the threshold, without exception. A clamp has one: once simulated time runs, its
reading may lie less than a window after a stamp of the wall clock. The purge takes such a stamp for a
recent one and stops there, and everything queued behind it is counted, expired packets included
(`Misread`, `CountSinceMisread`).

**Reputation**, **CaccCore** are operators over one or two variables, instantiated by the pipeline.
Doubles are fixed-point numbers, `One` units making 1.0, rounded down. `Reputation!StartScore`
follows the order of the code: `operator[]` inserts the neighbour before the test for its absence.

**SecurityEngine.** HMAC-SHA256 is external. A tag is the tuple of the fields it covers, so a tag
fits exactly the fields it was computed from; `computeHmac` may also fail and then return the tag 0,
as the code does. Collisions of the 32-bit truncated tag are left out.

**RouterPipeline** composes them over one set of variables. `DropTampering`, `DropReplay` and
`Forward` are the three paths of `process`; `Forward` splits on the limiter's answer and, in
`Conclude`, on the caching decision. The counters, the reputation update and the return value are
part of the same step. `ResetStats`, `ClearSeqCache`, `ClearRateLimiter` are the other calls that
change state. Packets come with any number, PH and RHC of the constants' sets and a tag that fits;
the zeroed header that `parse()` returns when there is no header; and a header whose tag fits
nothing, which stands for all of these because `process` looks at no other field before it drops it.

**RouterHistory** adds to the router the record that `SeqCache` and `RateLimiter` keep of themselves
when they run alone: the last question to the cache and its answer, the packets the limiter let
through, its last answer. `HistoryNext` is `Next` of the router with these variables set alongside; they
guide nothing. With them one can say of the router what is said of the components: it instantiates
both with its own variables, and their abstract specifications with them.

**Producer** is `m_globalSeqn` with `CreateHeader` and `Reset`. A header is told apart by its number,
since PH and RHC are always 0 and the tag fits.

**SerialNumbers** puts producer, content store, link and the SEQN cache of a router in a row. Next to
its 8-bit number every packet has a ghost number that never wraps. `Publish` is `createHeader`,
`Respond` is `CacheResponse::updateHeader` on the stored packet (which stays as it is, the argument
being a const reference), `Deliver` is `validateSequence`. The link and the content store belong to
ndnSIM and are external; four constants say whether there is a store and whether the link may
reorder, duplicate or lose. A reset of the producer is a jump of the ghost number to the next
multiple of 256, which is how a router sees it: as the loss of the rest of a circle.

**Recovery** is producer and SEQN cache over a link that keeps the order and loses nothing, so that
publishing and validating is one step. It has no ghost numbers and its state space is finite.

**CaccHeaderCodec** is one object of the TLV header class: its fields, the cached block `m_wire` and
what the last `wireEncode()` returned. Setters drop the cached block; `wireDecode` has one action per
outcome, the three that throw included, and stores the block before the tests that may throw, as the
code does. A block is its type and the sequence of its bytes; `Block::parse()` is external and throws
for the values of the constant `Unparsable`.

**CaccSecureHelper** maps names to attribute values and nodes to the settings of their pipelines.
`CreatePipeline` follows the one variable `tmp` through its three uses (`tmp1`, `tmp2`, `tmp3`);
`readUint` leaves it alone when the attribute is absent or of another type, and cuts it to 32 bits.
`InstallAll` skips nodes that have a pipeline; `Install` of one node is a special case.

**Experiments** extends `RouterPipeline`, which is the one hooked router it follows. `ExperimentInit`
is `main()` up to `Simulator::Run()`: topology, attributes, installation (with the operators of
`CaccSecureHelper`), hooked nodes, consumers, `--attackersKey`. `made` holds, per name, every header
that was ever made for it, by the producer (`Publish`, which is `createHeader`) or by a content store on
the way (`Respond`, which is `CacheResponse::updateHeader` on a packet made before: PH and SEQN raised,
RHC 0, a new tag). A packet that comes to the hook is any of these: late, overtaken, again or
never, since links and content stores belong to ndnSIM. There is an action for each of the six hooks,
which alters the header, calls `process` and counts; the code after the run is one `Report` action per
script. Counters that play the same part in several scripts have one name. Random draws are choices.
Routes, mobility and time are left out: all packets of a run fall into one window of the limiter.

## 3. What TLC checks

| Run | Question | Result |
|---|---|---|
| `seqcache` | Do table, list and iterator map always agree (`TypeOK`), is every iterator live and on its own name (`IteratorsValid`), is the capacity respected (`SizeBound`), and is every answer the filter's (`ImplementsFilter`)? | holds |
| `ratelimiter` | Are there ever more packets let through in one window than the threshold (`BurstBound`), and is every answer, and every PH handed on, that of the sliding window (`ImplementsWindow`)? | holds |
| `pipeline` | Do the counters account for every packet (`StatsAddUp`), does a dropped packet leave SEQN cache, limiter and core untouched (`DroppedLeavesNoTrace`), does trust move only for the delivering hop and in the direction of the verdict (`TrustFollowsVerdict`)? Behind and before the other checks, is every verdict of the cache still the filter's (`RouterFiltersReplays`) and every PH handed on that of a sliding window over the forwarded packets (`RouterLimitsForwarded`)? | holds |
| `serial` | Does the router take a packet up to half a circle newer than the last one it took, and drop one that is the same or less than half a circle older (`NewerIffAccepted`), whatever the link did? Do 8-bit and ghost numbers agree (`TypeOK`)? | holds |
| `recovery` | After a reset of the producer, are at most half a circle of packets rejected in a row (`RejectionBound`), and is every name eventually accepted for good (`Recovers`)? | holds |
| `experiments` | Do the nine scripts run every node with the same settings (`SameConfiguration`), give each packet exactly one class (`Accounted`), report rates between 0 and 100 % (`RatesInRange`), and does the tag pass exactly the headers that were made as a whole (`WholeHeadersPass`)? | holds, two rates of S3 excepted |
| `responses_fresh` | `cache-response.hpp:28`: is the number of a cache response fresh? | violated |
| `clamp_inflates` | `rate-limiter.cpp:50`: does the clamp prevent inflation? | violated |
| `inflation_clamped` | `attack-s4-ph-inflation.cc:8`, `attack-s1-ph-tampering.cc:9-10`: does the limiter clamp a PH that a hook raises more often than the threshold allows? | violated |
| `cold_start` | `router-pipeline.cpp:248-249`: is an accepted packet's neighbour reinforced? | violated |
| `unset_attribute` | `cacc-secure-helper.cpp:75,81`: is a setting whose attribute was not set at its default? | violated |
| `malformed_block` | `cacc-header.cpp:66`: does an encoded header occupy six bytes? | violated |

Each property of a passing run has a mutant in `PROJECT.json`: a plausible slip in the code
(eviction one entry late, the old iterator kept, the check order swapped, the clamp to [0,1]
forgotten, ...), written next to the definition it replaces, which makes the property fail.

### Bounds

* `MCSeqCache`: 4 names, 5 addresses, half window 3 (numbers 0..5), capacities 0..3. Names outnumber
  every capacity, so evictions and reinsertions of an evicted name happen; addresses outnumber list
  nodes by at least one, so that freed addresses are both reused and not; with a half window of 3
  the distances 0, 1, half the circle minus one, exactly half and beyond half are all distinct.
  The state space is finite and explored in full.
* `MCRateLimiter`: 2 names, PH 0 or 2, thresholds 0, 2 and 4, window 1 ms, 2 ns per ms (so that rounding
  down occurs), simulated time up to 6 ns, wall clock up to 4 ms starting at 1 (simulated time can
  overtake its stamps) or at 3 (simulated time starts behind them, so `now - stamp` wraps), at most 5
  packets let through. The bounds are in `Bounded`, applied to the next state. Five packets fill the
  largest window and let one of it expire; with threshold 4 they are also the least that show the
  exception of `SlidingWindow`: without it the run fails. The expected violation uses threshold 2.
* `MCRouterPipeline`, with the record of `RouterHistory`: 2 names competing for a cache of one entry,
  2 neighbours, half window 2 (numbers 0..3), threshold 1, PH 0 or 3, one RHC beyond H_max, samples 0
  and 0.99, up to 3 packets with clears, resets and clock ticks anywhere between them. Three packets
  are enough for: accept, evict, accept again; accept, clamp; accept, drop, accept in a later window;
  first, second and third score of a neighbour. Longer histories of the components are covered by
  their own runs.

* `MCSerialNumbers`: 2 names on one cache entry, half window 3, at most 2 packets on the link and
  numbers up to 8 in total over both names (a reset rounds up beyond it, to 12): a name gets past
  one circle and a third, so that a late packet can be more than half a circle old and take the same
  8-bit number as a new one. Two packets on the link are enough to overtake, and a kept copy can be
  delivered any number of times.
* `MCRecovery`: 2 names, capacities 1 and 2, half window 4, up to 3 resets at any moment. Every
  distance between the router's memory and the restarted producer occurs, and resets during a
  recovery. The state space is finite and explored in full.

* `MCExperiments`: all nine scripts, the six with hooks on the GEANT topology and the standard ones on
  their own; one name and one neighbour at the hooked router, the default number of five attackers.
  Half window 2; three different headers of the name, made by producer or content stores, so PHs 0 to
  2 occur, and two headers may share a number; three packets at the hook; a history of 2 pairs. That is
  enough to record a pair at one PH and replay it on a packet of the same or of another, to push a pair
  out of the history, and for packets to come late or again. The topology of an attack script only
  matters to `SameConfiguration`, proved for all three. Three Interests are enough for the
  rates of the standard scripts, which depend on their number only through being above 0. The
  thresholds of the configuration only have to include those that the helper can produce: the
  initial state takes the one of the installed pipeline.
* `MCExperimentsInflation`: S1 and S4, only packets of the producer, each at the hook before the next
  is made (`InOrder`), half window 8: nothing but the tag can be why a packet is dropped. The threshold
  is that of Table 2, so eleven packets are the least that should be clamped, and the run stops there.
* `MCHelper`: 2 nodes; 0, a number every setting takes, one that is no `uint8_t`, and one that is
  0 once truncated. `MCHeaderCodec`: two byte values; blocks of a foreign type, too short, too long,
  of six bytes, and of six bytes that do not parse. Both state spaces are finite; their runs stop
  at the violation.

Names, addresses and neighbours are symmetric: no definition orders them, and no property tells
them apart. Runs with a symmetry set check invariants, action properties and refinements of
specifications without fairness, which TLC checks step by step.

Deadlock is checked in every run but `experiments` and `inflation_clamped`: a script stops after its
report.

### Fairness

Every call returns before the next, so within a router nothing waits for anything and nothing is
assumed. `Recovery` alone assumes fairness: `WF_vars(Send(n))` for every name, because the consumers of
the scripts are constant-rate (`ndn::ConsumerCbr`) and the producer answers every request. Resets and
`clear` carry no fairness. Without the assumption the producer may stop while the router still
rejects it.

### Findings

* **A clamp can inflate** (`rate-limiter.cpp:73`). The clamped PH is the PH last let through,
  whatever the packet carried: after PH 2 a packet with PH 0 leaves the limiter with PH 2.
* **Responses repeat numbers** (`cache-response.cpp:45`). The response to a request is numbered one
  past the cached packet. If the producer has published again, or the same copy has answered before,
  a router downstream has accepted that number already and drops the response as a duplicate.
* **Cold start of trust** (`reputation.cpp:50-51`). A neighbour never seen has trust 0.5 as long as
  it is only read, but `update` starts from the 0.0 that `operator[]` has just inserted. Its first
  accepted packet moves it from 0.5 to 0.1, while the comment says the neighbour is reinforced.
  `TrustFollowsVerdict` is therefore stated for neighbours that have a score.
* **Unset attributes** (`cacc-secure-helper.cpp:101`). `CreatePipeline` reads three attributes into one
  variable, which `readUint` leaves alone when there is nothing to read. With `MaxTrackedEntries` set
  to 1000 and nothing else the rate threshold becomes 1000, not 10. The scripts set all of the
  attributes or none, so their figures are not affected (`SameConfiguration`).
* **Malformed blocks are returned** (`cacc-header.cpp:59`). `wireDecode` stores the block before it checks
  it. After it has thrown, `wireEncode` answers with that block, not with the fields.
* **Inflated packets never reach the limiter** (`attack-s4-ph-inflation.cc:42`). The hook of S4, and that
  of S1 with the key, leave the HMAC as it was when they raise the PH, so the tag drops every packet and
  the limiter, which the comments say clamps and detects them, is never called.

## 4. What is proved

All theorems hold for every value of the constants that the named assumptions allow, and the code's
constants satisfy them. Assumptions that a module declares are evaluated by TLC in its runs.

| Module | Theorems | Assumption |
|---|---|---|
| `SeqCacheProofs` | `SpecTypeOK`, `SpecIteratorsValid`, `SpecSizeBound`, `SpecConsistent`, `SpecImplementsFilter` | `SeqCacheAssumption` |
| `RateLimiterProofs` | `SpecTypeOK`, `SpecBurstBound`, `SpecImplementsWindow` | `RateLimiterAssumption`; `[]ClocksFit` for the last |
| `RouterPipelineProofs` | `SpecTypeOK`, `SpecStatsAddUp`, `SpecDroppedLeavesNoTrace`, `SpecTrustFollowsVerdict`, `LessTrustCachesLess` | `RouterPipelineAssumption` |
| | of the router with its record: `SpecRouterFiltersReplays`, `SpecRouterLimitsForwarded`, `RouterCacheSound`, `RouterBurstBound` | `RouterPipelineAssumption`; `[]ClocksFit` for `SpecRouterLimitsForwarded` |
| `ExperimentsProofs` | `SpecSameConfiguration`, `SpecAccounted`, `SpecWholeHeadersPass`, `SpecRatesInRange` | `RouterPipelineAssumption`, `ExperimentsAssumption` |
| `SerialNumbersProofs` | `SpecTypeOK`, `SpecNewerIffAccepted` | `SerialNumbersAssumption` |
| `RecoveryProofs` | `SpecRejectionBound` | `RecoveryAssumption` |
| `CaccSecureHelperProofs` | `SpecConfigsUsable`, `SpecPipelinesKept`, `SpecSetIsHonoured` | in each theorem: `Word32` positive, `Numbers` natural |
| `CaccHeaderCodecProofs` | `SpecCacheCoherent`, `SpecEncodedFieldsDecode` | `BlocksOK`: a block is a type and bytes |

**SEQN cache.** `SizeBound` is not inductive: `AcceptEvicting` makes room only if the name in the
oldest list element is a name of the table, which is a fact about the links between list and table.
`IteratorsValid` states those links but needs the types of the three containers. `Consistent` puts
them together: `TypeOK`, `Linked` (names of the table and elements of the list are in one-to-one
correspondence through the iterators, and addresses are distinct), finiteness of the table (`Names`
may be infinite, and cardinalities mean nothing otherwise) and `SizeBound`. `Linked` is a relation
between any table, list and iterator map, because the proof needs it for the state *inside* a call,
after the erase or eviction and before the insertion. It is preserved because every change of the
list is the removal of one position (`RemoveAtFacts`, `FrontFacts`, `LinkedErase`) or a push to the
front with an address not in the list (`PushFrontFacts`, `LinkedPush`); the tail that all accepting
paths share is `InsertLinks`, and there is one lemma per action on top of these.

**SEQN cache implements the replay filter.** Under `Consistent`, each step maps to a step of
`ReplayFilter` with the same reply. `FreshIffInside` translates the subtraction modulo 256 into "one to
half a circle ahead". `InFrontFacts` follows the names in front of each list element through an
insertion. What takes thought is that the list evicts exactly the name the filter forgets: all other
names are in front of the oldest (`EvictingKept`), while in front of any other at least the name itself
and the oldest are missing (`FewNames`, `TrackedKept`, `NewKept`).

**Rate limiter.** `BurstBound` speaks of the whole log, the code only keeps a window. The invariant
says per name how they relate: the kept stamps are the last ones of the log, and those of the current
clock that are no longer kept have expired (`Fits`); the log lies in the past of its clocks (`Past`),
and the bound itself (`Spread`). A call that lets a packet through has fewer stamps than the threshold
left, so the packet a threshold back has been purged. The proof covers the wrap of `now - stamp`: the
remainder is never larger than the difference, so a wrap can only keep a stamp longer.

**The rate limiter implements the sliding window**, while no clock comes within a window of the end of
the word (`ClocksFit`; 2^64 ms in the code, and 1000 in the run, which never gets near). Beyond that
`now - stamp` is taken for less than it is. `RInv` adds to the invariant that a log is `Ordered`: the
stamps of each clock grow, and simulated time follows wall-clock time. Below the threshold the packets
of the window are among the stamps kept, so there are too few (`BelowImplements`). At the threshold
look at the oldest stamp kept. It is not in the future, for the wrapped difference would have expired
it (`FutureExpires`), so it is less than a window old. If the clock now in use set it, all stamps after
it lie in the window, by the order of the log; if the other clock did, it is the misread stamp of the
exception (`LimitImplements`).

**Router pipeline.** The types of all five components are one inductive invariant (`SpecTypeOK`), with
two facts that are not about types alone: a score stays in [0, 1], and so does the probability of
Equation (1), whatever PH, RHC and hop bound a header brings (`ProbabilityBounds`). The counters add up by induction together with their types (`StatsInv`). The
same types tell a packet from `resetStats`, from which `DroppedLeavesNoTrace` follows action by action.
`TrustFollowsVerdict` needs the scores to stay in [0, 1] (`TrustInv`): only then is decay followed by
the increment not below the old score (`DecayedBounds`).

**The router keeps its components' promises.** Every step of the router is one step of `SeqCache` or none
(`CacheSteps`), and one of `RateLimiter` or none (`LimiterSteps`): `process` makes the calls with names,
numbers and PHs that the component expects, the record is set exactly when the call is made, and no
other path touches the component's variables. So a behaviour of the router is a behaviour of each
component (`RouterRunsCache`, `RouterRunsLimiter`), and the theorems proved about a component alone,
instantiated with the router's variables (`CacheThms`, `LimiterThms`), hold inside it: the replay filter,
the sliding window, valid iterators, the capacity, the bound on bursts. One case needs care: when
the HMAC call fails, the zeroed header passes the tag check, so the limiter is instantiated with PH 0
added to the PHs that packets carry (`HeaderRanges`). Run the checks in another order and the record no
longer fits; the mutants of the two properties do that.

**Trust and caching.** `LessTrustCachesLess`: of two packets, the one with no larger PH and RHC, from a
hop with no larger score, is cached with no larger probability. What takes the steps is that Equation
(1) is computed with divisions that round down, in the numerator of one and the divisor of another
(`QuotientGrows`, `QuotientShrinks`, `PopularityGrows`, `ProbabilityGrows`).

**Experiment scripts.** `Accounted` relates the counters of a script to those of its router, so it is
inductive with the router's own accounting (`StatsInv`) and the types of the counters (`CountsOK`):
`Outcome` says what `process` does to the router's counters, `TallyFacts` what a hook does to the script's,
and there is one lemma for the four scripts that classify every packet, one for S3 and one for S4.
`RatesInRange` follows from it by arithmetic: a rate is a quotient of counts of which one is part of the
other; that `uint64_t` wraps in the GEANT script does not matter, because the range test after it
catches every wrapped value. `WholeHeadersPass` is not inductive, for a replayed pair comes from
the history, and headers may be made after the verdict. `MadeOK` says that every header made has the tag of
its own fields, `HistoryOK` that every recorded pair is that of a header made, whatever a hook had
made of the packet it was recorded from. So every header handed on carries SEQN and tag of one
header made (`PairOfMade`, `HookHands`), and fits its tag if and only if it is that header
(`WholeVerifies`). `JudgedByTag` keeps the verdict as one about the tag, to which later headers make no
difference (`MadeGrows`). `SameConfiguration`
evaluates `CreatePipeline` for the three attribute lists of the scripts (`Table2InForce`);
`ExperimentsAssumption` says that the router has the alpha and hop bound of Table 2, that settings fit
the word they pass through, and which topologies there are.

**Serial numbers.** The type invariant of the module, that 8-bit and ghost numbers agree at the
producer, on the link and at the router, becomes inductive with the agreement in the content store
added. Half a circle is then enough to recover the ghost distance from the 8-bit one (`DistanceOfGhosts`).

**Recovery.** `RejectionBound` is not inductive. The invariant says where on the circle the producer
stands after r rejections in a row: exactly at the remembered number, or at least r places into the
half behind it (`Behind`); each rejection moves it one place towards the half that is accepted.

**Helper and header.** That settings are usable and set attributes honoured needs the types of the
attributes. `CacheCoherent` (the cached block is absent, is the encoding of the fields, or is one that
decoding refuses) is inductive with the types of the fields; it is what remains true next to the
finding `malformed_block`. No run checks these five properties, because a passing run would repeat
what is proved for all constants.

## 5. What is only model-checked, and what is not modelled

Only checked on the instances above:

* `Recovers`: liveness under fairness is out of the prover's reach.

Every other property of a passing run is stated by a theorem of section 4. The properties of the
expected violations are false.

Out of the prover's reach, and left to TLC: liveness under fairness and `ENABLED`; statements that
need induction over data (what a recursive definition computes for every input); modules that
declare `RECURSIVE` operators. No module here declares one.

Abstracted: the bytes of names, keys and tags; logging; the value of doubles below 1/100 (rounding
down may turn a strict change of a score into none, so properties on scores use `<=`); the random
variables, which take any of their values; collisions of the 32-bit tag.

Not modelled, with the reasons also under `components` in `PROJECT.json`:

* the byte layout of `RouterPipeline::parse` and `serialize`, two pure functions without a branch except
  the null pointer, whose zeroed header is an input of the pipeline;
* that a caller reaches through `reputation()`, `seqCache()` and the other accessors to feed a component
  directly; `clear` is modelled, the rest is done nowhere in the repository;
* of the scripts: topology files, Wi-Fi and mobility set-up, routes, tracers, latency, CSV output;
* `src/scenarios`, the simulation in `src/tests`, plots, `data_extractor.py` and build files, which hold
  no state of the protocol.

## 6. Plan

Done: the core of a router; the numbers across the network; the header codec; the helper; the
experiment scripts; the proofs of section 4.

Left, in this order:

1. **`CaccNetwork`**: the full pipeline of two routers in a row behind a producer and a content store;
   what becomes of the trust in an honest neighbour that delivers late or repeated packets. Today the
   numbers (`SerialNumbers`) and the trust (`RouterPipeline`) are checked apart.
2. The same composition for the experiment scripts: that the hooked router, fed with altered headers,
   runs its SEQN cache and limiter as specified.

## 7. Running

    tlc -config MCSeqCache.cfg MCSeqCache
    tlc -config MCRateLimiter.cfg MCRateLimiter
    tlc -config MCRateLimiterInflation.cfg MCRateLimiter      (expected violation)
    tlc -config MCRouterPipeline.cfg MCRouterPipeline
    tlc -config MCRouterPipelineColdStart.cfg MCRouterPipeline (expected violation)
    tlc -config MCSerialNumbers.cfg MCSerialNumbers
    tlc -config MCResponsesFresh.cfg MCSerialNumbers          (expected violation)
    tlc -config MCRecovery.cfg MCRecovery
    tlc -config MCExperiments.cfg MCExperiments
    tlc -config MCExperimentsInflation.cfg MCExperiments      (expected violation)
    tlc -config MCHelper.cfg MCHelper                         (expected violation)
    tlc -config MCHeaderCodec.cfg MCHeaderCodec               (expected violation)
    tlapm SeqCacheProofs.tla
    tlapm RateLimiterProofs.tla
    tlapm RouterPipelineProofs.tla
    tlapm SerialNumbersProofs.tla
    tlapm RecoveryProofs.tla
    tlapm CaccSecureHelperProofs.tla
    tlapm CaccHeaderCodecProofs.tla
    tlapm ExperimentsProofs.tla
