# DT-Go in TLA+

DT-Go is a Go framework for services built on domain-driven design: it gives a
service per-request dependency injection with pooled objects, domain events
with a transactional outbox, a redis lock, a cache, message queue and HTTP
clients, Thrift calls over a connection pool, and rate limiting (a copy of
Sentinel). This directory holds TLA+ modules of the parts whose correctness
depends on how goroutines, pods, redis, the database, the network and the clock
interleave, the TLC configurations that check them, and TLAPS proofs about them.

Run everything from this directory: `tlc -config X.cfg M`, `tlapm MProofs.tla`.
Sections: 1 inventory, 2 modules, 3 runs, 4 findings, 5 proofs, 6 what is not
modelled, and what comes next.

## 1. Inventory

Paths are relative to the repository; `core` is `infra/rate/sentinel/core`.

| Part | State | Operations | Works with | What is hard | What makes it correct |
|---|---|---|---|---|---|
| **Applications** `internal/{app,infra_pool,event_bus,infra,other}.go` | the public and the private application, single components, routes of events, shutdown hooks | `Run`, prepares, booting, `ListenEvent`, `RegisterShutdown` | iris, database, redis | two goroutines boot with the same components; a component looks for its database in the application it was told last | what serves has been bound and booted; an event that is listened to has a route |
| **Request pools** `internal/{worker,service_pool,infra_pool,service,app}.go` | `sync.Pool` per service and component; per request a worker and the objects it got | `get`, `beginRequest`, `CallService`, `DeferRecycle`, three free handlers | iris handlers, goroutines of a handler | objects go back while a goroutine still uses them; the flag is a plain field | an object serves one request, deferred objects stay |
| **Domain events** `infra/domainevent/{manager,publish,subscribe,transaction}.go`, `infra/transaction`, `infra/uniqueid` | tables `domain_event_publish` and `domain_event_subscribe`, the worker's list of saved events | `Execute`, `Save`, push goroutines, retry loops, `NextID` | MySQL, message queue, other pods on the same tables | crash between commit and publication, SQL errors nobody looks at, push and retry on one row, identities that clash | nothing rolled back is published, nothing committed is lost, a failed push is tried again |
| **Redis lock** `infra/dlm/distributed_lock.go` | one key with a value and a time to live; per client a watchdog goroutine and a context | `Lock`, `TryLock`, `SpinLock`, `Unlock`, `SetContext`, the watchdog | redis, other clients | expiry while the owner works, lost answers, crashes, watchdogs nobody can cancel | mutual exclusion |
| **Cache** `infra/store/cacher.go` | redis key, store of the worker, singleflight group | `Get`, `Delete`, the write-back | redis, database | a read shared by many is given up by one; the write-back races update and `Delete` | reads are shared; what is out of date does not stay |
| **Message queue** `infra/mq` | partition, offsets, consumer | `Pub`, `Sub` | kafka, nsq | which offset is committed, and when; no acknowledgements, restarts | what the broker took reaches a handler |
| **Thrift connection pool** `infra/rpc/thrift_{pool,agent}.go` | `idle` list, atomic `count` and `status`, a client pointer all share | `Get`, `Put`, `Reconnect`, `CheckTimeout`, `Release`, `Recover`, `Do` | callers' goroutines; sockets | `count` changes outside the lock in eight places; Release, expiry and Put race | one owner per connection, no leaked slot, a closed pool drains and `Do` returns, but for a dial or a call that never ends |
| **Thrift server** `infra/rpc/thrift/{simple_server,server_socket}.go` | listener, `closed`, `mu`, `stopChan`, two goroutines a connection | `Serve`, `Stop` | its clients | a connection accepted while Stop runs; Stop waits with the mutex held | no request after Stop, what is accepted is served, Stop returns |
| **Thrift transports and client** `infra/rpc/thrift/{client,framed_transport,buffered_transport,header_transport,header_protocol}.go` | buffers, frame position, headers, sequence id | `Call`, `Read`, `Write`, `Flush` | the connection | read timeouts inside a frame, aborted messages, late replies, a server that adapts to its client | a reply answers its own call; the server serves what was sent |
| **Thrift protocols** `infra/rpc/thrift/*_protocol.go`, `serializer.go`, `deserializer.go` | per protocol object a field id, a pending bool, a stack | read and write of values, `Skip`, `Reset` | pools of serializers | state that stays from one use to the next, also after errors | what is read is what was written; JSON protocols write JSON |
| **Slot chain** `sentinel/api`, `core/base`, `core/{stat,isolation,system,hotspot,flow,circuitbreaker}/*slot*.go` | pooled contexts, node gauges | `Entry`, `Exit`, `TraceError`, hooks | every slot | check before count, panics of a slot, an entry used after its exit | the gauge counts who is inside, thresholds hold, a context has one entry, a half-open breaker does not stay so |
| **Circuit breaker** `core/circuitbreaker/circuit_breaker.go` | `state`, retry time stamp, probe counter, window counters: all atomics | `TryPass`, hook of a blocked probe, `OnRequestComplete` | slot chain, sliding windows | the state and its companions are updated one by one; completions of old requests | the three-state machine, one probe per half-open period, no early retry |
| **Throttling** `core/flow/tc_throttling.go` | atomic `lastPassedTime` | `DoCheck` | flow slot (sleeps the wait it returns) | load, compare-and-swap, add and take-back interleave | requests are spaced |
| **Warm-up** `core/flow/tc_warm_up.go`, `tc_default.go` | atomic `storedTokens` and `lastFilledTime` | `CalculateAllowedTokens`, `DoCheck` | flow slot, sliding window | tokens and time change one after the other, once a second, without a lock | under traffic a cold rule becomes warm |
| **Hot spot** `core/hotspot` | LRU caches of times, tokens and concurrency counters by argument | `PerformChecking`, statistics slot | slot chain | counters are used after they were evicted; two caches change one after the other; a loop | the rate and the concurrency of an argument; calls end |
| **Sliding windows** `core/stat` | buckets (start, counters), `updateLock` | `AddCount`, `AddRt`, `UpdateConcurrency`, sums, bucket reset | every slot that counts | buckets are reset while others record and read | nothing is lost or counted twice outside known windows |
| **Metric log** `core/log/metric` | files, index files, writer, cached position of the searcher | aggregate, write, roll, remove, search | file system, sliding windows | index and items are written apart; files roll and go while a search reads | a search finds what is there |
| **Rule managers** `core/{flow,circuitbreaker,hotspot,isolation}/rule_manager.go`, `infra/rate/rate.go` | `currentRules`, the controllers in force | `LoadRules`, `LoadRulesOfResource`, `ClearRules`, `AddRule` | their slots, which read what is in force | controllers and statistics are taken over; a load may panic half way | what is in force is what was loaded; no statistic is lost or shared; every load returns |
| **System protection** `core/system`, `core/system_metric` | rules by metric, sampled load and CPU | `LoadRules`, `Check`, collectors | slot chain | sampled values | only its verdict is modelled |
| **The rest** HTTP client, requests, pager, configuration, errors, utilities, middleware, message bus, repositories, entities, logs, exporters, data sources | settings read once | conversions, forwarding | libraries | little | not modelled |

How they interact: `Application` boots the components and serves requests; a
request takes a worker, services and components from the pools, and its
handlers use the lock, the cache, the outbox and Thrift calls; the outbox hands
events to the message queue after its transaction; a rate limiting middleware
sends a request through the slot chain, whose slots ask the rules in force
(rule managers) and count in the sliding windows, which the metric log saves
once a second.

The hazards these parts are exposed to, each at its line with the properties
that would catch it, are in `PROJECT.json`.

## 2. Modules

| Module | Models | Checked by | Proofs |
|---|---|---|---|
| `Application` | both applications from `Run` to the last shutdown hook | `MCDistributedLock`, `MCApplication` | `DistributedLockProofs` |
| `RequestPools` | recycling of services and components | `MCRequestPools` | `RequestPoolsProofs` |
| `DomainEvents` | the outbox, and the events received | `MCRequestPools`, `MCDomainEvents` | `RequestPoolsProofs` |
| `DistributedLock` | the redis lock, one key | `MCDistributedLock` | `DistributedLockProofs` |
| `Cache` | one key in worker, redis and database | `MCDistributedLock` | `DistributedLockProofs` |
| `MQ` | publisher, consumer and one partition | `MCDistributedLock` | |
| `ThriftPool` | the connection pool and its agent | `MCThriftPool` | `ThriftPoolProofs` |
| `ThriftServer` | the simple server and its clients | `MCThriftPool` | `ThriftPoolProofs` |
| `ThriftTransport` | framed, buffered and header transports between two ends | `MCThriftWire` | `ThriftTransportProofs` |
| `ThriftWriters`, `ThriftReaders` | what the four protocols write, and how they read | `MCThriftWire` | |
| `ThriftWire` | protocol objects in use, in pools and on a connection | `MCThriftWire` | |
| `SlotChain` | entries of one resource in the default slot chain | `MCEntry` | `SlotChainProofs` |
| `CircuitBreaker` | one breaker of any strategy | `MCEntry` | `CircuitBreakerProofs` |
| `BreakerStates` | the three-state machine as it is drawn; `CircuitBreaker` implements it | `MCEntry` | `CircuitBreakerProofs` |
| `Throttling` | the throttling checker | `MCFlowControl` | `ControllersProofs` |
| `WarmUp` | the warm-up calculator with the reject checker | `MCFlowControl` | |
| `HotSpot` | the hot spot controllers over their LRU caches | `MCFlowControl` | `ControllersProofs` |
| `LeapArray` | the sliding window, its writers and readers | `MCFlowControl` | `ControllersProofs` |
| `MetricLog` | the metric log, its writer and its searcher | `MCFlowControl`, `MCMetricLog` | |
| `RuleManager` | the four rule managers and `AddRule` | `MCRuleManager` | `RuleManagerProofs` |

Five modules put side by side what is checked and proved together, and say of
each part what they promise of it:

| Module | Extends | Instantiates | Extended by |
|---|---|---|---|
| `Infrastructure` | `DistributedLock` | `Cache`, `Application` | `MCDistributedLock`, `DistributedLockProofs` |
| `RequestOutbox` | `RequestPools` | `DomainEvents` | `MCRequestPools`, `RequestPoolsProofs` |
| `ThriftCalls` | `ThriftPool` | `ThriftServer` | `MCThriftPool`, `ThriftPoolProofs` |
| `SentinelEntry` | `CircuitBreaker` | `SlotChain` | `MCEntry`, `SlotChainProofs` |
| `Controllers` | `Throttling` | `HotSpot`, `LeapArray` | `MCFlowControl`, `ControllersProofs` |

A theorem and a run therefore speak of the same formula: `GaugeExact` in `MCEntry.cfg`
is the `GaugeExact` of `GaugeAlwaysExact`.

In every module the unit of atomicity is the code's: a section under a mutex,
one atomic operation, one command of redis, one SQL statement (or COMMIT), one
transfer over a connection is a step, and everything between two of them may be
interleaved with anybody else. Definitions whose comment says *mutation* or
*mutant* are deliberately wrong variants of a definition below them; they are
used to check that a property can fail and are in no specification.

### Application

`at` is the step of `Run` each application has come to, in the order of
`Steps`; `singlemap`, `marked`, `booted`, `hooks`, `eventsPath`, `listened` are
the fields of the infrastructure pools and of the event buses. `client` is what
`Redis()` returns, which stays nil until the goroutine of `installDB` ends.
`withDB` are the applications whose `Database.Install` was set before `Run`, any of
them or none; an application is in `db` when it has its database.
`ListenEvent` keeps its two arguments in the order `addEvent` is called with,
which is the other way round (finding); a panic of a hook is not recovered, for
`recover` is not called by a deferred function, and `Shutdown` is then skipped.

### RequestPools

`stage` is where the three nested middlewares of a request are, `held` the
objects in `worker.services` and `worker.coms`, `freeing` what the running free
handler has still to put back, `called` the service of a `CallService` under
way, `async` a goroutine the handler left behind. `pool` is the content of the
`sync.Pool`s, which may drop anything at any time; `serves` is the worker an
object was given by `beginRequest`. A handler that panics skips the three
handlers.

### DomainEvents

`side` is the table: events published or events received, which go the same way
with another table and another act after the transaction. `row` is the row of an
event (`tx`: inserted in an open transaction, `pending`: status 0, `failed`:
status 1), `id` what `NextID` returned, `saved` the list in `worker.Store()`,
`tx` where a pod's request is, `pusher` the goroutine of `push` for an event,
`retry`/`todo`/`current`/`failed` where the retry loop of a pod is. `fate` and
`published` are history. Every statement and COMMIT may be refused
(`MayRefuse`), for the code looks at none of their results. `NextID` builds a
new generator on each call, so its identity is only the clock (10 ms) and the
pod: two events of a pod may share one, and every statement that names an id
then works on what the id stands for (`DeleteRow`, `MarkRow`). The statement
that marks a row binds its assignments as one string (manager.go:369), and the
one that fetches marked rows scans six columns into three variables
(manager.go:304): with `StatusWorks = FALSE` both fail, as they do; with `TRUE`
they may also do what they are meant to, so that the safety properties hold of
the retry loop once it is repaired as well.

### DistributedLock, Cache, MQ

*DistributedLock.* Time advances in thirds of the expiration, which is how often
a watchdog renews. `holder` and `ttl` are the key, `dog` is the watchdog
`cancelFunc` stops, `leaked` those that only the context stops: `TryLock` starts
one whenever redis answered, won or lost, and overwrites `cancelFunc`. `due` and
`missed` say what a client's watchdogs owe. `Tick` waits until no renewal is due:
a watchdog that runs reaches redis once in each unit, except that up to
`MaxMissed` renewals in a row may fail. An error of redis may have taken effect.

*Cache.* Values are versions of the database. `group` and `flight` are the two
flights of a key in the singleflight group, `cache:` and `call:`; a request that
gives up forgets the flight of its key. The write to redis after `Get` is a step
of the same request, which is what it is to everybody else, in line or in a
goroutine.

*MQ.* A partition is the sequence of its messages. The writer of `Pub` asks for no
acknowledgement (`RequiredAcks` is not set, which is `RequireNone`), so a message
may be in the partition or not both when `Pub` returns nil and when it tries again.
The reader of kafka-go (external) commits `toCommit` within a second, unless the
consumer restarts before.

### Thrift

*ThriftPool.* `idle`, `count`, `status` are the fields of `ThriftPool`; `open` is
what `Transport.IsOpen` answers. A caller's `pc` follows `Do`: `acquire`/`wait`
(the loop of `Get`), `dial`, `check`, `use` (the user's function), `reconnect`,
`redial`, `recheck`, `retry`, `put`, `putcheck`, `push` (the three parts of
`Put`) and `close`. `ReapTake`, `ReapClose`, `ReapCount` are the steps of
`CheckTimeout`, `ReleaseStop` to `ReleaseClose` those of `Release`, `PeerCloses`
the network. Time is abstracted: an idle connection may have expired and a wait
may have reached its deadline at any moment. A dial or a call may never end.

*ThriftServer.* The accepting goroutine, one that serves and one that closes each
connection, `Stop` with its mutex and its timeout, and callers that write, read
and hang up.

*ThriftTransport.* A unit on the wire is the size of a frame, the head of a
THeader frame or a part of a message. `end` holds the buffers, the frame position
and the headers of each end; a read that times out leaves what it has read, an
aborted message stays in the write buffer, and a server over a header transport
answers in what it has found the client to speak.

*ThriftWriters, ThriftReaders, ThriftWire.* A value is a tree of records; what a
protocol writes is a sequence of units, one for each read: a byte, an integer, a
group of a varint, a string, a JSON token. Containers of 15 and more elements,
field ids that rise by more than 15, nested and boolean fields each take the
path the code has for them. `ThriftWire` uses protocol objects again and again,
in pools of serializers and deserializers and on a connection, with errors and
the duplicating and debugging protocols between.

### SlotChain, CircuitBreaker, BreakerStates

*SlotChain.* An entry takes a context, is checked by the rule slots in their
order (`CheckSlots`), counted by the statistics slots node by node, runs its exit
hooks and gives its context back. A verdict is exact where it depends on what
entries share (isolation, the breaker, the inbound concurrency) and open where it
depends on clocks and samples. `probeNum` is the `ProbeNum` of the breaker's rule
and `probed` its `curProbeNumber`: with a ProbeNum a half-open breaker lets
everybody in, and closes once so many have completed without an error, requests
from before among them. `prober` (history) is the entry that made it half-open,
until a panic keeps that entry from the breaker. A panic of a rule slot leaves an entry that is in
without having been counted; one of a statistics slot on the way out skips those
after it.

*CircuitBreaker.* The three Go types share their control; `Tripped` is where they
differ. `wait` is the time left to `nextRetryTimestampMs`. A request goes from
`out` (TryPass) through `probe` (it has seen the timeout over and is about to swap
Open for HalfOpen), `checks` (later breakers and slots: `Admit` or `Blocked`,
which runs the hook), `run`, and then `OnRequestComplete` one atomic access at a
time. `BreakerStates` is the drawing at circuit_breaker.go:28-43 with each arrow
taken at once and the probes named. The refinement maps `state` to itself and
`probes` to `probing`, the requests the half-open period has let in.

### Throttling, WarmUp, HotSpot

*Throttling.* One step per access to `lastPassedTime`: `Load`, `CompareAndSwap`,
`Estimate`, `Add`, `Subtract`. `passes` is the history of when requests pass;
`slipped` is set by the two steps after which `lastPassedTime` may be older than a
pass that was granted.

*WarmUp.* One step per access to `storedTokens` and `lastFilledTime`, from
`Begin`, which reads the clock and the passes of the second before, to `DoCheck`
and, after the other slots, `Record`. Times are kept as ages, so that a behaviour
need not end. The limit is compared without division.

*HotSpot.* `times`, `tokens` and `concurrency` are the LRU caches, `heap` the
counters they hold pointers to: a request goes on with a counter that has been
thrown out since. One step per call of a cache and per atomic access; `slips`
counts, for each argument, the steps in which two requests change its counters at
once, or one changes them on what it had read before the other.

### LeapArray, MetricLog

*LeapArray.* `start` and `bucket` are the buckets; the search of a bucket is
`CompareEqual`, `CompareGreater`, `CompareLess`, `TryLock`, and a reset is two
stores, `ResetStart` and `ResetValue`. Writers add events, response times (compare,
then store) and the concurrency; readers go through the array bucket by bucket
(`Scan`) and then through the MetricBuckets (`Take`), as a whole or through the
windows that rules and the metric log use.

*MetricLog.* A line of a file stands for an item `<<second, resource>>`, an index
entry for `<<second, offset>>`. `Tick` lets resources have traffic, `doAggregate`
takes the finished seconds, `WriteTask` is one write with its roll and removals,
which a fault may stop after its index; `findOffsetToStart` and `ReadFile` are the
steps of a search between which the writer goes on.

### RuleManager

The four managers are written to one plan; `kind` says which one a behaviour is
of, and the guards say where they differ (isolation keeps rules and no
controllers; circuitbreaker keeps `breakerRules` besides and, in a load of one
resource, builds from the rules as they came). A rule is a record of what the
code compares: `key` for `isStatReusable`, `limit` for the rest of `isEqualsTo`,
`other` for what neither looks at (the ID, ProbeNum); `valid` and `supported` are what
`IsValidRule` and the generator make of it. A controller is a rule and the name
of its statistic. `Call` is the code before `updateRuleMux.Lock()`; then a load
is `Ignore`, or `ClearRules` and `ClearControllers`, or `StartUpdate` (valid
rules, copy of the controllers), one `Build` step per rule, `Swap` under the
second mutex and `Record` of `currentRules`. `left` are the positions of the copy
not taken over yet (the code shortens a slice). `Panics` is the dereference of a
nil rule, recovered by the deferred function. Readers see `inForce` in any state.
`made` and `fresh` are history.

### The MC modules

Parts that share no state with each other but belong to one subject are checked
in one run: the MC module, with the module of section 2 it extends, has each of them
over variables of its own, `kind` (or `layer`) says which of them runs, and it never changes, so every
behaviour is a behaviour of one part. The fairness of each part is conjoined with
its `kind`. `MCEntry` holds the breaker by itself and the chain in which it is a
slot; the chain needs only the three states, which `BreakerStates` justifies.

## 3. Runs

| Run | Parts and instance | Shows |
|---|---|---|
| `infrastructure` | lock: 3 clients, 1 missed renewal in a row, 1 failed call; cache: 2 requests, 2 updates, 1 read given up; queue: 2 messages, 2 restarts; applications: 2 single components, each application with or without a database, a panic of a hook | `MutualExclusion`, `ReadsShared`, `StaleExpires`, `TakenIsTried`, `ServedFromBooted` |
| `request_pools` | pools: 2 requests, 2 services, 1 component; outbox: both tables, 2 events, 2 pods, 1 crash | `HandlerOwnsObjects`, `DeferredObjectsStay`, `RolledBackNeverPublished`, `CommittedNotLost`, `PushAndRetryDisjoint` |
| `thrift_pool` | pool: 2 callers, 4 connection names, limit 1, 1 Release; server: 2 callers, 2 connections, 1 failing Accept, 1 Stop with a timeout | `OneOwner`, `CountExact`, `StoppedPoolDrains`, `DoReturns`, `NothingAfterStop`, `AcceptedIsServed`, `StopReturns` |
| `thrift_wire` | protocols: 4, values of each shape, 2 uses; transports: 3 by 2 protocols, 3 calls, 2 faults | `RoundTrip`, `WritesJSON`, `OwnReply`, `ServesWhatWasSent`, `CallAnswered` |
| `sentinel_entry` | breaker: 2 requests, 3 rules (one with ProbeNum 2), timeout 2; chain: 3 entries (the second may be outbound), 2 contexts, ProbeNum 0 and 2, 1 panic, 1 traced error | `OneProbe`, `NoEarlyProbe`, `ImplementsStates`, `GaugeExact`, `IsolationHolds`, `ContextOwned`, `ProbeComesBack` |
| `flow_control` | throttling: 3 requests, batches of 1 and 2; hot spot: 2 requests, 2 arguments, caches of 1; window: 2 goroutines, 2 buckets; metric log: 2 resources, 2 days, 1 crash, 1 fault, 2 searches; warm-up: 2 requests, threshold 2, 2 seconds, cold factor 2 | `SpacedUnlessSlip`, `RateHeld`, `ConcurrencyHeld`, `StatisticsExact`, `ColdSearchFinds`, `CallsEnd`, `WarmsUp` |
| `rule_manager` | each manager, 2 loaders, 2 resources, 10 names; 2 lists for `LoadRules`, 3 for one resource, 1 for `AddRules` | `RulesInForce`, `OwnStatistics`, `StatisticsCarried`, `LoadsReturn` |
| `domain_events_commit` | 2 events, 1 pod, no crash | violates `PublishedOnlyCommitted` (finding 1) |
| `failed_push` | 2 events, 1 pod, the database refuses nothing it could accept | violates `FailedPushRetried` (finding 2) |
| `duplicate_reads` | as `thrift_wire` | violates `CopyOfReadsIsJSON` (finding 3) |
| `metric_search` | the metric log of `flow_control` | violates `WarmSearchFinds` (finding 4) |
| `event_routes` | 1 single component, no panic | violates `EventsRouted` (finding 5) |

Why these bounds are enough for the cases that matter:

- *Lock.* Three clients: an owner, a client that lost and left a watchdog, and one
  that waits. `MaxMissed = 1` is the most that `MaxMissed + 1 < Periods` allows.
- *Cache.* Two requests share a flight, and one of them may give it up; a third
  flight begins while both are still in the air. Two updates put one between the
  read of the source and the write to redis, and one after it.
- *Queue.* Two messages: one whose handler fails, whose commit covers the other.
- *Applications.* There are two, always, and any of them may have a database; two
  components let one be marked private and the other not. Of the two listens one is
  of a handler of POST, which gets a route, and one of a handler of GET, which gets none. One panic skips what
  comes after it.
- *Request pools.* Two requests are enough for one to take what the other puts
  back; two services for one that a request holds and one that it calls.
- *Outbox.* Two events in the same reading of the clock clash, in two readings
  they do not; two pods give push against retry and retry against retry; one
  crash can fall between any two steps. `MaxPublished = 1` only stops counting.
- *Thrift pool.* With a limit of one, the second caller waits, takes what the
  first puts back, or dials after a failure; with Release in between, each part
  of `Put` meets each part of Release. Four names let one connection be idle, one
  doomed, one being expired and one dialled at once.
- *Thrift server.* Two connections: one being served and one being accepted when
  Stop comes; two calls, so that one may come after it.
- *Thrift wire.* `NumBits = 6` and `GroupBits = 3` make a varint of two groups the
  longest, as five groups are of 32 bits; `MaxSize = 16` and lists of 14, 15 and 17
  elements lie on both sides of the short header's 15 and of the limit of a size;
  `MaxDepth = 4` is passed by one value. Two uses of an object show what the first
  left to the second. Three calls with two faults: a late reply may meet the call
  after the next.
- *Breaker.* Two requests give a probe and an older request that completes beside
  it, or a stamper and a request that looks at the time stamp.
- *Chain.* Three entries over two contexts: one context is used again, by an entry
  another has left, while a third is inside. `Outbound` bounds the entries that may
  be outbound to one. The breaker of the chain is open at first, and gets to each of
  its states from there; ProbeNum 2 is the least with which one success is not enough.
- *Throttling.* Three requests are needed for a second one to build on an
  interval that a third takes back.
- *Hot spot.* Caches of one cell with two arguments evict all the time. Three
  calls and four readings of the clock let two refills meet.
- *Window.* Times 2 to 6 with two buckets of length 1 are two full cycles and a
  half, so each bucket is reset twice, a goroutine may be a cycle late and meet
  every state of a reset. One event and one reader keep it small; `MaxRt = 2` has a
  lower and a higher response time.
- *Metric log.* Files of two lines and days of two seconds roll by size and by day;
  with two files kept the third removes the first while a search may be in it.
- *Warm-up.* `warningToken` is 4 and `maxToken` 6; a run begins with any number of
  tokens. `MaxSlow = 1` lets one second end within calls, once: a request that is
  late stores a time of the past. Ages above `MaxAge` fill the tokens anyway.
- *Rule managers.* The lists hold a rule that changes its limit and one that
  changes place with another (equal, similar and new controllers in one load),
  an invalid rule, one without a generator, one of another resource and a nil
  rule; `AddRules` adds a rule without a statistic, one that uses the resource's
  and a similar one. Two loaders let one read the rules while the other swaps.
  `MaxRules` stops `AddRules` at four rules of a resource; ten names are more
  than the controllers in force, copied and new can use at once.

`CHECK_DEADLOCK FALSE` is set where a part may really stop, or its bounds end it:
clients that die, entries and calls that have all been made, a process that is
dead, a clock at its last reading. `request_pools`, `rule_manager`, `failed_push`
and `domain_events_commit` are checked for deadlock. Symmetry is used only in
`request_pools`, which has no liveness property.

### Fairness

- *Cache, queue*: the time to live of a key runs down; the consumer's loop goes on.
- *Thrift pool*: goroutines run, but only the wait in `Get` has a deadline.
  `thriftDial` makes its socket with `NewTSocket`, whose timeouts are 0
  (thrift_agent.go:27, socket.go:48), `ConnTimeout` is not used, and `SocketTimeout`
  is commented out (thrift_pool.go:66); so a dial or a call of the user's function is
  not assumed to end, and `DoReturns` and `StoppedPoolDrains` leave out who is in one
  (`Dialling`, `Calling`). `ClearConn` is a ticker that eventually finds an idle
  connection expired, and a Release once begun is finished by its goroutine. Nothing
  forces new calls, Release, Recover, or a peer to close.
- *Thrift server*: goroutines are scheduled, handlers return, and a mutex that is
  free is taken in the end. Nobody has to call, to hang up, or to call Stop.
- *Thrift transport*: both ends run. Every step of either reads or writes what is
  there, or times out.
- *Breaker*: an entry that was let in goes on and is exited. No new request is
  assumed to come; the machine it implements is fair in deciding a probe.
- *Chain*: goroutines run, and whoever got an entry calls `Exit`.
- *Hot spot*: goroutines run and the clock goes on to its bound.
- *Warm-up*: calls end, time goes by, and callers keep coming for all they may
  pass: the property is about a rule under traffic.
- *Rule managers*: a load that holds `updateRuleMux` runs on (weak fairness), and
  one that waits for it gets it (strong fairness: a `sync.Mutex` goes into
  starvation mode after a millisecond). No call is assumed to come.
- *Domain events* (`failed_push` only): the retry loop is a loop over a timer and
  goes on; a database that refuses nothing and a queue that takes a message again
  and again will take it once.

## 4. Findings

Five runs check what a comment or a document of the repository promises and find
that the code does not keep it.

1. `PublishedOnlyCommitted`: `execute` drops the error of `Commit()`; the events
   of a transaction that did not commit are pushed.
2. `FailedPushRetried`: the statement that marks the row of a failed push never
   marks anything, so its retry loop finds nothing; nor could it read what it found.
3. `CopyOfReadsIsJSON`: a `TSimpleJSONProtocol` that duplicates what is read is
   given the stop field as a field, and its copy ends in a key without a value.
4. `WarmSearchFinds`: a search that starts from the cached position skips the
   cached file and applies its offset to others, and misses items that a search
   from the first file finds.
5. `EventsRouted`: `ListenEvent` hands its parameters on in the other order, so an
   event that is listened to as they are named has no route.

Behaviour a reader should also know, which no document contradicts:

*Applications.* `Redis()` is nil until a goroutine of `installDB` ends. Prepares run
for each application, so single components are bound and booted twice, and one
that was once marked private looks for its database in the private application for
both. A private application that is not given `InstallDB` serves without a database,
and its event manager with it (app.go:413): `ServedFromBooted` says that a component
has the database exactly when its application was given one. A panicking shutdown hook is not recovered (app.go:380-386). Hooks run
while the application still serves. A callback registered after the signal is
never called. `RetryPubEvent` sleeps five seconds inside `Run`.

*Domain events.* A row committed while the pod dies before `push` ends stays with
status 0, which no loop fetches: `CommittedNotLost` says that it is there, nobody
publishes it. The received side has the two errors of finding 2 as well. Events
saved outside `Execute` stay in the worker's store (manager.go:164). Several pods
may retry the same row at once.

*Lock.* A client that lost `TryLock` renews the key of whoever holds it
(distributed_lock.go:134), a crashed holder included, for as long as its context
lives: no property says that the key of a crashed holder expires.

*Cache.* `SetPrefix` is never applied; `BeginRequest` resets neither source nor
prefix. Reads that overlap are shared; a request that misses after a read has ended,
but before anything is written back, reads again. The context of a flight's leader ends the flight for everybody. A `Get`
after one's own `Delete` may join a flight that read before the update. An
expiration of 0 never expires, and `StaleExpires` is about others. A read that is
given up may forget a newer flight than its own, which `ReadsShared` allows for.

*Queue.* `Pub` returns nil for a message that no broker took: its writer asks for no
acknowledgement (kafka.go:80-88), so `TakenIsTried` begins with what is in the
partition. A message that was handled is never committed by itself; a fetch error
loops at once; the retry of `Pub` may duplicate a message.

*Thrift pool and server.* All `IdleClient`s share one client pointer, so a caller's
`RawClient` is the one dialled last (thrift_agent.go:42). After a Release, `count`
may fall below zero, and a connection put back into a stopped pool is closed without
being counted down, so that after `Recover` it may stay too high: `CountExact` is
stated until the first Release. Without a timeout on the socket a server that does
not answer holds its caller, and the caller's place in the pool, for ever. A retry that
failed leaves `err` nil, and its connection goes back to the pool. A connection
accepted while Stop runs may be neither served nor closed: `AcceptedIsServed`
allows the one. The first error of `Accept` ends `Serve` with nil while the
listener stays open. The default `ServerStopTimeout` of 0 waits for the clients.

*Thrift wire.* A message that was aborted stays in the write buffer and precedes
the next; response headers are never cleared; a header `Flush` reports the end of
its context after the bytes have gone; BAD_SEQUENCE_ID leaves the body unread; a
timeout in mid-frame leaves the rest of the frame. The compact protocol has no
`Reset`, and after a depth limit at a bool field the bool stays. Simple JSON reads
STOP for every field, and its `Flush` does not flush the transport. `Skip` ignores
the errors of `ReadFieldEnd`. The framed `Flush` of a message without writes
dereferences a nil buffer.

*Entry.* A panic of a rule slot makes `Entry` return nil, which counts as a pass, and
the entry leaves the gauge one too low. `TraceError`, `SetError` and
`Exit(WithError)` after the exit write into a context that may be another entry's by
then. Isolation and inbound thresholds may be passed by entries checked together. A
panic of the hot spot's statistics slot skips the breaker's: if the entry was the
probe of a rule without ProbeNum, the breaker stays half-open and blocks everything,
and nothing brings it back. `ProbeComesBack` names this case, and that of a breaker
that waits for more requests of its ProbeNum than come.

*Breaker.* `NoEarlyProbe` names the two windows of an early probe: between the swap
to Open and the store of the time stamp, and after the hook took it back to Open.
If the clock went back, `currentCounter` fails and the completion of a probe is not
seen; this is not modelled.

*Throttling.* Two requests may pass less than the interval apart by either of the two
races that `slipped` names; `SpacedUnlessSlip` is what holds.

*Warm-up.* With a threshold below the cold factor (3 unless set) the limit of a cold
resource is below one: it lets nothing pass, and so never becomes warm. `WarmsUp` is
checked for a threshold that is not. Where twice the period times the threshold is
less than one plus the cold factor, `maxToken` is `warningToken`, the slope
(tc_warm_up.go:53) is infinite and the limit at the line is not a number: nothing is
refused. With exactly `warningToken` tokens nothing is filled, however long the
pause. Two requests of one second may refill twice, and one that is late may store
an older time; below the line a negative difference takes tokens away, above it an
unsigned one wraps and fills up.

*Hot spot.* `RateHeld` says what a rule on the rate promises of an argument until it
is thrown out of a cache or two requests change its counters at once; after either,
more may pass. The first request for an argument adds its time
before its tokens: a second one that refills in between leaves nothing for the first
to fill, which passes uncounted (a slip of `FillTokens`). What a throttled request is
put off by is rounded down to whole milliseconds, so that a threshold above 1000 a
second puts a batch of one off by nothing; `Even` says that the division has no rest. Times and tokens are evicted apart: an argument whose time alone is gone
passes as a new one, one whose tokens alone are gone waits in a busy loop. A counter
of concurrency that was evicted is no longer counted down.

*Window.* `StatisticsExact` names how an event may be lost: a goroutine that compared
the start before somebody else's reset resets the bucket again, or holds a
MetricBucket loaded before a reset. The compare-then-store of the least response time
and the highest concurrency may lose one of two.

*Metric log.* The second in which a writer starts has no index entry; the first second
of a day is indexed in the old file; one failed creation of an index file leaves the
writer with closed files until a restart (writer.go:249-253); a missing index file
ends the removal of old files. `searcher.mux` is never locked.

*Rule managers.* `onResourceRuleUpdate` of circuitbreaker builds breakers from the
list with the invalid rules still in it (rule_manager.go:308), after the log has said
"Ignoring invalid circuitBreaker rule" (rule_manager.go:296). A breaker whose new
rule differs in `ProbeNum` or `Id` only keeps its old rule and is reported with the
new one, though the comments say that a load replaces the old rules
(rule_manager.go:129,157). `RulesInForce` names both in its own terms
(`SameButOther`, and the rules that were loaded, valid or not), and says of what is
reported that it is exactly the valid rules. A rule earlier in a new
list may take over the statistic of an equal rule later in it: `StatisticsCarried`
counts what lives on, not who has it. Of two `AddRule` at once one may be lost. A
list loaded again after `SetTrafficShapingGenerator` is ignored.

## 5. Proofs

Theorems have the form `Spec => []Inv`, `Spec => [][A]_vars` or `Spec => Abstract`,
for every value of the constants that satisfies the named assumptions (and for
unbounded counters where the bound of the model is itself a constant).

- **`DistributedLockProofs`**. `TypeCorrect`; `MutualExclusionHolds`. Mutual
  exclusion is not inductive: it depends on time. The invariant `OwnersHold`
  says of every client in its critical section whose context lasts that it is
  `Held`: the key has its value, its watchdog runs, and the time left, plus one
  per missed renewal, plus one if a renewal is due, is at least the expiration.
  Two owners then have the same key. Assumption: `MaxMissed + 1 < Periods`.
  The same module proves about two more components, instantiated in it.
  `ReadsAlwaysShared`, for the cache: of the reads of the source under way all but
  the one others may join were forgotten by a request that gave up, and `timeouts`
  counts those, so there is at most one more than it says (`CacheInv`). Assumption:
  finitely many flights, and `None` is none of them. `ServedWhenBooted`, for the
  applications: `AppInv` says what has been done at each step of `Run`, and that
  what was ever bound to the private application is what is marked, so that a
  component taken over by the other application looks for its database in one that
  was given it, if any was.
- **`CircuitBreakerProofs`**. `TypeCorrect`; `NoEarlyProbeHolds` from
  `WaitIsRest` (an Open breaker with nobody about to stamp it, not rolled back
  by the hook, has `openFor + wait >= RetryTimeout`); `OneProbeHolds` from
  `ProbeOfPeriod` (a half-open breaker without ProbeNum has one probe, which is
  in one of the places a probe can be and still carries the hook while it is
  being checked; otherwise there is none); `StatesImplemented`: every step of
  the breaker is a step of `BreakerStates` or leaves its state alone.
- **`ThriftPoolProofs`**. `TypeCorrect` with `Places` (a caller has a connection
  exactly between the step that gives it one and the step that gives it up);
  `OneOwnerAlways`; `CountExactAlways` (of what happens until the first Release) and, with `Limited` (until the first
  Release the pool is open and `count <= MaxConn`), `NeverOverMaxConn`, which
  needs `OpenAccounted`: every open connection is idle, being expired, or in
  the hands of a caller that `count` counts. Then the server the connections lead
  to: `ServerTypeCorrect`; `StoppedForGood` and `AcceptedServed` from `ServerInv`.
  `NothingAfterStop` alone is not inductive: a second caller of `Stop` returns as
  soon as it finds `closed` and has the mutex, so `StopInv` says that when the
  server is closed and the mutex free no goroutine of a connection is left, and
  nobody is within `Stop` but its holder. `LinksOK` ties the state of a connection
  to its two goroutines, `AcceptInv` the connection accepted last to the accepting
  goroutine, and `QueueInv` says that who waits to be accepted waits once, so that
  `Accept` never starts goroutines for a connection that has some. Assumptions:
  finitely many connections, 0 is none of them, "free" is not a caller of `Stop`.
- **`ControllersProofs`**. `TypeCorrect`; `SpacedUntilSlip` from `LastIsLast`:
  until a slip nobody passes later than `lastPassedTime`, and a request that may
  swap it has loaded a value at least its interval before its own time.
  Then the hot spot rules on concurrency: `ConcurrencyAlwaysHeld` from `HotPart`.
  `CountersApart` says that no two arguments of the cache, and no two requests of
  different arguments, have the same counter; `Counted` of an argument never thrown
  out that its counter in the cache is what is inside, that a request that has looked
  the counter up has that one, that an argument without a counter has nobody past
  `check`, and that whoever is about to be counted has room unless a slip was noted.
  A counter is dropped with the argument evicted, which is why an eviction ends what
  is known of it. Assumptions (`HotBounds`): `Capacity` is positive (`NewLRU`),
  `Requests` finite, and `Cells` infinite without 0 (one can always allocate; the run
  needs no more than a cache and its requests can hold).
  The hot spot rules on the rate: `RateAlwaysHeld` from `RateInv`. `RateHeld` alone is
  not inductive: it says nothing of the tokens that are left, nor of a request that
  has taken its own and not passed yet. `Asks` says what a request carries at each of
  its steps, `RateApart` that no counter is that of two arguments, or of both a time
  and tokens, and, of an argument with no eviction and no slip, `Holding` that its
  requests hold the counters the caches have. For Reject, `Rejecting`: what has
  passed, is about to pass (its tokens stored, its time not yet stamped) and is left
  is no more than a full counter and what was added until the last refill. For
  Throttling, `Throttled`: what has passed and is about to pass (its time swapped,
  not yet stored) takes its time, times `Duration` so that nothing is divided. At
  most one request at once is about to pass, or a slip was noted. The sums over
  times are those of `PassedUntil` (`SumTo`, `PassRecorded`). Assumptions
  (`RateBounds`): `HotBounds`, batches are a finite set of numbers and not empty,
  `Duration` is positive, burst, queueing time and clock are not negative. Thresholds
  are any integers: nothing passes for one that is not positive.
  The sliding window: `StatisticsAlwaysExact` from `WindowInv`. `BucketsInv` says that
  a bucket has nothing in it from before its start; `ExactInv` that, unless an event
  slipped, it has all that was recorded for its start, nothing while its start is new,
  and that nothing was recorded for a later start. Of a goroutine, `ResetterOK` says
  that who resets holds the lock and has stored the start; `WriterOK` that who records
  found a bucket that has begun, and one it no longer owns has a later start;
  `ReaderOK` that the buckets a reader is still to take are in its window (`Ahead`),
  and that what it took was recorded in the window, unless it was torn (`Behind`).
  Totals over sets of events are compared by `SetInduction`. Assumption
  (`WindowAssumption`): buckets and lengths are positive, finitely many goroutines,
  and values are not negative.
- **`RequestPoolsProofs`**. `TypeCorrect` with `StageInv` (what a stage says of
  what a worker holds and frees); `HandlerOwns`, `DeferredStay`, `PutOnceOnly`
  from `OwnerInv`: an object a request owns, or is calling, serves that request,
  is in no pool, and is not both. A request owns what it holds while its handler
  runs, or while a goroutine it deferred for in time does, and what its free
  handlers have still to put back.
  Then the outbox, for either side and whether or not the statements about marked
  rows work. `OutboxTypeCorrect`; `RolledBackNever` from `SavedInv` (an event is
  in the list of one worker, of the fate its transaction has come to) and
  `SentInv` (whatever has a row outside a transaction, a goroutine of push or a
  place in a retry loop was sent by a transaction that did not roll back);
  `CommittedStays` with `DoneInv` (a row is deleted only after its event was
  handled) and `NamedInv`; `Disjoint` from `Aside` (the row of an event whose push
  is ahead or under way is neither marked nor fetched, unless the event shares its
  identity). `PushAndRetryDisjoint` alone is not inductive: a marked row whose push
  is still to start would be fetched. Assumption: `NoEvent` is not an event.
- **`RuleManagerProofs`**. `TypeCorrect` (and `ControllersTyped`, its part without
  rules); `OwnStatisticsAlways` from
  `StatisticsInv`: within what is in force, the copy, and what is built, no two
  positions have one statistic of their own; between the lists, what is built
  shares only with positions already taken, never with those left. `Locked`
  says who holds the mutex, and that the copy is what is in force while controllers
  are built. `StatisticsAlwaysCarried`, an action property, from `CarryInv`: what was
  taken from the copy goes on in what is built, and of each kind of statistic either
  nothing is left in the copy or nothing has been made besides.
  `RulesAlwaysInForce` from `ForceInv`, where `Fulfils` is the property for one
  resource and any list of rules, which it compares by `SameButOther`; of a breaker it
  says too that what is reported is exactly the valid rules. It holds of every resource while nobody loads;
  while controllers are built, it still holds of the old rules, and what was made and
  what is still to do are together, rule by rule, what the new list calls for
  (`Counted`); after the swap it holds of the new rules, not noted yet; during a
  clearing, of every other resource. The lemmas count the positions of a list
  (`CountAppend`, `CountTail`) and say what picking rules from a list leaves
  (`PickedCounts`, by induction). Besides the assumptions on constants that name
  types, `EqualsAssumption`: rules that are equal to `isEqualsTo` are valid and
  supported together. The code compares every field that `IsValidRule` and the choice
  of a generator read; only thresholds less than 1e-8 apart, on two sides of 0 or of 1,
  would be equal and not valid together.
- **`SlotChainProofs`**. `TypeInv` is `TypeOK` without the upper ranges of what is
  counted, which are consequences: `CountInv` says that `passes` and `completes`
  are the cardinalities of the entries a node has counted in and out, so
  `TypeCorrect` and `GaugeAlwaysExact` need `PlaceInv` (where an entry is tells
  what has counted it). `IsolationAlwaysHolds` from `RoomInv`: an entry that the
  isolation slot let in finds room for as long as `others`, its count of those
  counted since, is zero; when it is counted later it adds to `overlaps`.
  The breaker may have any ProbeNum (`CircuitType`). `ContextAlwaysOwned` from
  `ContextInv`: who is active is alone in its context,
  and what is in the pool has been reset. Assumptions: finitely many entries, and
  0 is neither an entry nor a context.
- **`ThriftTransportProofs`**. `OwnReplyAlways` from `TalkInv`, which speaks of the
  stream of an end: the rest of its frame, then the wire. `Framing` and `Flushing`
  say that frames are whole: a size is followed by its frame, which ends with a
  body, or is the last on the wire, between the two parts of a flush or before the
  close. `Replies` says that in what comes for the client, and in the buffer of the
  server, the begin of a reply to the call under way, or to one to come, has its
  body behind it, so that only a reply of an earlier call can be without one; and
  that while the client waits for the body, it is the next unit. That alone is not
  inductive: a request served twice, or out of order, would be answered when its
  call is over. `Asking` says that calls come to the server in rising order, each
  later than the request it has. `ServesWhatWasSentAlways` from `ServeInv`, which
  adds four things to `TalkInv`. `InTurn`: requests are served in rising order of
  their calls. `Plain`: without a header transport at the client there is no head of
  a THeader frame on the wire, so no headers are read. And, until a message is
  aborted, `Requests`: a buffer holds the message under way alone, and in what comes
  for the server every begin has its body behind it, the awaited body first;
  `AsSent`: the request has the headers of its call; and, between two ends that
  speak THeader, `Chained`: the units on the wire follow one another as size, head,
  begin, body, each head with the headers of the call behind it. Only the client can
  have lost a size, to a timeout, and fails then until its connection is closed.
  Assumptions: `MaxCalls` is a number, and a client has one of the three transports.

Only model-checked: liveness, the fairness of `ImplementsStates` included (fairness
and ENABLED are out of the prover's reach, as is what `RECURSIVE` operators compute:
`RoundTrip` and `WritesJSON`, about the recursive protocols of `ThriftWriters` and
`ThriftReaders`); and, not out of reach but not done, `ColdSearchFinds`, which rests on
the order `SetToSortSeq` gives the files of the log.
The library's induction theorems take an operator as a parameter, which no prover
here can instantiate; `SetInduction`, of `RuleManagerProofs` and of
`ControllersProofs`, is induction for a set instead, from the well-foundedness of <,
and enough for what a recursive function (never a RECURSIVE operator) computes.

## 6. Not modelled, and what comes next

Not modelled for good: text logs, exporters, data sources, HTTP, configuration,
conversions (input and output), the injection by reflection, the Thrift transports
over HTTP, files, TLS and zlib. Left out of modelled components, with the reason, in
`PROJECT.json` under each component: changing generators of controllers, the system
rule manager, nsq, the text of the metric log.

Next:

1. The lock as an abstract key with at most one live owner, and the connection pool
   as `MaxConn` permits, with refinement mappings.
2. Memory-adaptive flow control over the collectors of `system_metric`.
3. Components that a service is injected with from the same pools it lives in, in
   `RequestPools`.
