# A TLA+ development of the Pole Rust client

The repository is a Rust client of a service governance control plane: service
discovery, routing, load balancing, rate limiting, circuit breaking,
configuration and workload identity (`src/src`, crate `pole_rust`). Nearly all
of its difficulty is in state that several tasks share: tables behind mutexes,
gRPC streams whose answers carry no request id, futures that a caller may drop
at any await, tasks that are aborted, and a cache that learns of changes from
three sides. This project models those parts in TLA+, checks them with TLC on
small instances and proves the central ones for all instances with TLAPS.

Paths below are relative to `src/src` of the repository.

## 1. Inventory

### Rate limiting (`traffic/ratelimit`, `plugins/ratelimit`)

| part | state | operations |
|---|---|---|
| `LocalQuotaCounter` (default.rs) | under one mutex: windows by counter key (start, generation, committed, reserved), occupancy by key, open leases, recently completed leases | reserve (QPS, token, occupancy), update, finish or abandon; each sweeps expired leases first |
| `QuotaSession` (distributed.rs) | health flag, request channel of 128, one `pending` oneshot, the request lock, the reader task | `round_trip` of Init, Reserve, Update and Settle; `mark_failed` |
| `QuotaLease` (api.rs) with `CompositeLeaseBackend` (default.rs) and `DistributedLeaseBackend` (distributed.rs) | last confirmed totals and sequence, finished flag, under an async mutex; the backends in order | reserve with failover and rollback, update, finish, the settlement spawned by drop |
| `DistributedQuotaManager` (distributed.rs) | sessions by endpoint, initialised windows, endpoint bindings | open a session, initialise a window, remove stale windows |
| rules and requests (default.rs, req.rs) | none | choice of the triggers that apply to a request, the keys and labels of their counters |

A reservation asks the server through the session, then the local counter for
each resource it counts itself, and builds one lease out of the answers. The
server is outside the repository. Hard here: a window that restarts under live
leases; leases that expire lazily; repeated operations after lost answers; one
backend of several failing; dropped futures; late responses on a shared stream.
Correct means: what a window counts is what its leases account for, limits are
never exceeded, a lease is charged once and with what was confirmed, nothing
stays reserved that nobody can settle, answers reach their own calls, and every
operation returns.

### Circuit breaking and fault detection (`plugins/circuitbreaker/composite`, `traffic/circuitbreaker`, `traffic/faultdetect`)

`CompositeCircuitBreaker` keeps one list of rules under one mutex and the state
machines of every resource (one per applicable rule) under another. The API and
`InvokeHandler` load the rules of their callee from the resource cache, put
them in force, and then check or report. Callers run concurrently between those
steps. Correct means: state machines follow what was reported and the published
thresholds, they belong to the rules in force, and an unchanged rule never loses
its statistics. `DefaultFaultDetectAPI` keeps plans, instances and the handles
of probe tasks under separate locks and rebuilds the probes on every access.

### Resource cache, connector, failover (`core/model/cache.rs`, `plugins/cache/memory`, `plugins/connector/grpc`)

`MemoryCache` has a map of items per kind of resource, each with an initialised
flag, a revision and a value. The first load of an item submits a watch to
`GrpcConnector`, which keeps the watch table with its own revision for each
watch, sends discover requests at once and every two seconds over one of two
streams (naming, configuration), and passes the answers of both, in one dispatch
loop, to the handlers. The receive task of the cache replaces the item, writes
it to its file (`DiskCacheFailover`) and tells the listeners. A load that waited
in vain reads the file and applies it by itself. Correct means: the revision the
connector asks with is the one the cache has, nothing goes back in time,
listeners are in step, loads return, and the cache catches up with the control
plane.

### Workload identity (`core/identity.rs`, `identity`)

`IdentityRuntime` receives identity descriptors through a watch channel; its
worker asks for a credential, renews it in time, retries with a backoff, and
withdraws it when it turns to a new descriptor; dropping the runtime marks it
stopped, aborts the worker and clears the credential. Correct means: no change
of the descriptor is missed, a valid credential comes in the end, and none but
one that was already on its way is stored after the drop. Trust bundles come as
events of the cache; `WorkloadIdentity` puts the credential into requests and
verifies, against the bundle it holds, the one a request carries: nothing
revoked is accepted again, in whatever order bundles arrive.

### Load balancing and routing (`plugins/loadbalance`, `plugins/router`, `traffic/router`, `traffic/policy`, `traffic/matcher.rs`)

The weighted round robin keeps a record per instance (current weight, weight,
last use) behind two locks; the ring hash keeps rings by service and revision;
the random balancer keeps nothing. Routers (rule, lane, metadata, nearby,
health) are filters in a chain over the instances of a service; the policies
(security, mock, mirror) evaluate a snapshot of rules, and mirrored requests are
copied to shadow instances. Correct means for the balancers: turns are neither
lost nor made up, shares follow the weights, calls return, the same key gives
the same node; for the routers: the instance a call gets fits the rules that
governed the call, which may be of several versions, and no policy is passed by.

### Discovery and configuration (`discovery`, `config`, `plugins/filter`)

The consumer composes cache, routers and balancer. The provider registers and
deregisters instances and keeps a heartbeat task for each; lossless online and
offline delay the registration and serve readiness and offline endpoints. The
config APIs get and publish files; they and the consumer keep watchers of files,
groups and instances, which one listener of the cache per API calls. All go
through the connector. Correct means: heartbeats go on exactly as long as the
instance is wanted, readiness follows the last action, racing publications
succeed, and watchers hear of the version in force.

### The rest

Engine, context and plugin loading happen once, before any call; location,
logger and observability keep no state that outlives a call.
`PROJECT.json` lists every component with what is modelled of it, and under
"hazards" the places of the code where what is hard to test may go wrong.

## 2. Modules

| module | models | composed with |
|---|---|---|
| `LocalQuotaCounter` | the in-process counter, whole | implements `QuotaBucket`, an abstract bucket, once per limit |
| `QuotaBucket` | what one limit promises | |
| `QuotaSession` | one stream and the calls that share it | |
| `QuotaManager` | `reserve_many`: bindings, sessions, windows, the clock, their locks | `QuotaSession`, reduced to a round trip that is answered, fails or is dropped and leaves its answer behind |
| `QuotaLease` | one lease over a distributed and several local backends, from reserve to drop | the session with the other leases on it, and the counter, reduced to what one lease sees of them |
| `CircuitBreaker` | plugin, API and concurrent callers | |
| `FaultDetect` | plans, instances, reloads and probe loops | the resource cache, reduced to versions |
| `ResourceCache` | cache item, connector, file and listeners of one governance rule | |
| `ResourceKinds` | all kinds of resource next to each other in cache, connector and failover | |
| `ConfigCenter` | watchers of files, groups and instances, publishers of files | extends `ResourceKinds` |
| `Identity` | descriptor watch, credential worker and shutdown | |
| `TrustBundle` | trust bundles and the verification of tokens | |
| `WorkloadIdentity` | both ends of an identity | extends `Identity`, instantiates `TrustBundle` |
| `Provider` | registration, heartbeats, lossless online and offline | |
| `TrafficMatch` | matching of values, arguments, labels and APIs, the API index (pure) | |
| `TrafficPolicy` | security, mirror, mock, the choice of rate limit triggers (pure) | extends `TrafficMatch` |
| `Routing` | a consumer's call through policies, routers and balancer, under changing rules; mirror copies; ring hash, weighted random | extends `TrafficPolicy` |
| `RoundRobin` | weighted round robin under concurrent calls | |
| `*_proof` | theorems about the module of that name; `QuotaManager_proof` is also about `QuotaSession`, `ControlPlane_proof` about `WorkloadIdentity`, `ResourceKinds` and `ConfigCenter`, `Discovery_proof` about `Provider`, `Routing`, `RoundRobin` and the keys of `TrafficMatch` and `TrafficPolicy` | |
| `MC*` | constants of the instances TLC checks | |

Definitions with a suffix after an underscore whose comment begins with "Mutant"
are plausible mistakes: each stands for one property that fails when it takes
the place of the definition it is named after.

**LocalQuotaCounter.** `windows`, `concurrency`, `leases` and `completed` are
the four maps of the struct; a map is a function on the keys present. Each
public operation takes the mutex once, so it is one action, the sweep of the
expired leases included: `ReserveConsumable`, `RejectConsumable` (which restarts
the windows it visited before it met the full one), `ReserveOccupancy`,
`RefuseReserve`, `UpdateLease`, `FinishLease` (first settlement and replay) and
`RefuseOperation`. A quantity is the cardinality of a set of units, which says
what the saturating sums of the code compute without an order and lets the
provers reason about them. `settled` is a history variable: leases as they were
when they gave back their quota. A `u32` has the width `U32Max`; the `u64`
generations do not wrap. The assumption on the constants keeps limits within
the width; that a limit equal to the width is not checked against is listed as
a hazard.

**QuotaSession.** A call of `round_trip` goes through `Start`, `Admit` (it has
the request lock), `Register` (its sender is in `pending`), `Send`, and one of
`Accept`, `OutOfOrder`, `ReceiveError`, `Timeout`; `Refuse` and `SendFails` end
it early, and `Drop` may end it at any await when it is in `Droppable`.
`mark_failed` is in two steps, as in the code: the flag, then the pending
sender. `Deliver`, `StreamEnds` and `ReaderStops` are the reader task; `Answer`
and `TransportCloses` are the server and the transport. `Send` waits for room in
the request channel with the lock held and outside any timeout: that is the one
place where a call can stay for ever, and no other module repeats it.

**QuotaManager.** A caller binds its affinity to a server, finds or opens the
session (`FindSession`, then `LockConnect` with the second look, `Connect` or
`ConnectFails`), removes windows of other revisions, and for each limit finds
the window, takes its lock, and announces it unless it was announced on this
session; then it adjusts the clock and reserves. A window is an object that
outlives its removal from the map as long as a caller holds it, as the `Arc` of
the code does. A call may be dropped wherever it waits: `DropUnsent` before it
has sent anything, `DropSent` with its request under way. The answer to that is a
`stray` of the session, which the next call takes (`First`) unless it comes while
nobody waits (`Discard`). An Init carries the target and the totals of a limit
and not the revision of its rule (`Asks`), so that is what the server knows a
counter by; `announced` is what it was told on each session. `crossed` is history:
the sessions on which an Init has taken a stray. `Lose` ends a stream at any time.

**QuotaLease.** Reservation (`AskServer`, `AskFails`, `ReserveLocal`,
`RollBack`, `Open`), operations that walk the backends in order (`BeginUpdate`,
`BeginFinish`, `LocalUpdate`, `LocalFinish`, `LocalRefuses`, `RemoteCall`,
`RemoteUnavailable`, `Confirm`, `Cancel`, `CancelUnsent`), the end (`DropLease`,
`SettlerCall`, `SettlerUnavailable`), the stream (`OtherCall`, `Deliver`,
`Timeout`, `StreamBreaks`) and what happens elsewhere (`Serve`, `ServerExpires`,
`LocalExpires`, `LocalForgets`). What an operation has still to do is a set,
walked in the order of `Precedes`, because a request names each resource once
(`check_valid`, req.rs:87). Whether a counter grants is open here,
`LocalQuotaCounter` says when. The session is shared: a call of another lease
(`OtherCall`) takes the stream, may be dropped, and its answer (`Foreign`, which
can say anything) goes to whoever waits, because the code looks at the command,
the totals and the sequence of an answer and never at its lease (`Accepts`,
`Matches`). A reservation that takes such an answer has the lease id of another
(`leaseId`), and what it sends from then on is about that. `crossed` is history:
a call of this lease has accepted an answer to another's.

**CircuitBreaker.** A caller's job is a check or a report on one or two
resources, with the refresh its API makes: load from the cache, replace the
list, clear the states, and then check, or take the snapshot and record. Each
lock is a step. `trail` (what was reported since the last clear) and `installed`
are history.

**FaultDetect.** A worker is a call of the engine that accesses a service, or
the task that hands events to the listeners. Both put plans and instances into
the shared maps (`InsertPlans`, `InsertInstances`, `TakeRules`, `Removal`) and
then reload: `CopyPlans`, `CopyInstances`, `StopOld`, `StartNew`, one lock each.
`running` is the set of loops that run, one for each plan and instance, also where
instances have one host. What a probe reports is the function `Report`. `past`,
`lone` and `stopped` are history: the maps since the last reloads began, whether
one of these was alone, and whether the application has stopped the loops.

**ResourceCache.** A value is its version. A loader goes through waiting,
recovering from the file, and the same replace, save and notify as the receive
task; the connector has the watch, its revision, the requests and answers of the
stream and the channel of events; both streams may end, and with one of them
the dispatch loop. Saving empties the file first; the write lands later, and
writers that overlap may leave a mixture. `raced` records that a recovery and
an event of the stream overlapped, which is what the properties exclude. The
start is with any file an earlier client may have left.

**ResourceKinds** has thirteen kinds. The request, the watch key, the answer's
type, the entry and the file of a kind are operators with the cases of the code;
an execution uses one of `Selections`, so that kinds meet in pairs on one stream,
one channel and one directory. **ConfigCenter** adds the APIs: the first watcher
of an API sets its flag (`BeginWatch`), registers the listener
(`RegisterListener`) and enters itself (`AddWatcher`); `Tell` is the notification
of the cache with the callbacks. `UpdateFile`, `CreateFile`, `RetryUpdate` and
`ReleaseFile` are the requests of an upsert, any of which may fail.

**Identity.** The worker's labels are the points where a descriptor, an answer
or the drop may come in between. Time is a counter; a credential has a time to
renew and a time to expire; the backoff is a sleep of any length. An abort takes
effect at awaits only. **TrustBundle** has the control plane's bundles, of which
any answer is one, from now or from earlier: `PublishBundle` rotates keys and
revokes more, `Fork` is a node that used a sequence number for other content. A
bundle is compared by the length of its list of keys and by whether the candidate
lists each key held (`SameContent`), so the length is part of it (`size`) and a
list may name a key twice.
`BeginVerify` reads the clock and `Verify` the bundle. A signature, an encoding
or a claim that is refused is a `Malformed` token. In **WorkloadIdentity** the
two ends are processes of different engines that share nothing, so a behaviour
follows one of them, given by `side`.

**Provider.** `Register` to `InsertTask` and `Deregister` to `Deregistered` are
the calls of the provider, with the await between the request and the entry of
the heartbeat task; `Beat` and `BeatFails` are the loops, `Expire` the server.
The jobs of the lossless API wait for the delay or the health check, tell the
application to register, if it has set an action provider (`SetActionProvider`,
`Acts`), and mark the endpoint in any case; requests to the offline endpoint do
the reverse. `acted` (what was carried out last), `told` (what the provider was
told) and `crossed` are history. Sockets are left out.

**Routing.** A call reads security, mirror and mock rules in three loads
(`LoadPolicy`, `LoadPolicyFails`), is governed by what it read (`Govern`), and
then goes through its chain, one router at a time; `RuleOfCallee` and
`RuleOfCaller` are the two loads of the rule router. The routers themselves are
operators (`ByMetadata`, `ByHealth`, `ByLocation`, `Routed`, `ByLane`). They
keep entries of a list by their places (`Kept`, `Only`), and the rule router
tries the groups of a rule in the order of their rank (`Groups`, `Foremost`).
The instances of a service and the versions of all rules are the constants
`InstanceOf` and `RulesAt`. The balancer draws by weight or prepares, and then
reads, the shared ring. Copies of mirrored requests resolve their shadow
instance and are sent, or fail, at any later time (`SendCopy`, `SendCopyFails`).
`Change` replaces the rules by the next version. A payload of the memory cache
has no service name and no revision (`ServiceOf`), so all services share one
ring: the model has that, too.

**RoundRobin.** `Refresh` is the work under the write lock, `Enter` the read
lock, `Raise` one atomic increase at a time with other callers in between, and
`Lower` the payment of the chosen. A caller is a member of `Choosers`, its list
one of `Offers`, and what it is doing its `turn`. `FindExpired` is the call that
meets an expired record. `owed` and `taken` are history: an instance's fair
share and what it got, in units of weight.

## 3. Runs

Every run finishes within three minutes on two workers. Deadlock is
checked in `CircuitBreakerStates` and `ResourceCacheWatch`; elsewhere the model
may stop because its bounded time, calls, versions or sequence numbers are used
up, or because everything has returned.

| run | instance | states | what it shows |
|---|---|---|---|
| `LocalQuotaLeases` | two leases; a QPS trigger with two windows, a token trigger sharing a key, a concurrency trigger; three ticks; width 4 | 142,046 | counters equal what the leases account for, limits hold, leases that ended stay ended, occupancy is that of live leases, each limit refines `QuotaBucket` |
| `QuotaSessionCalls` | three calls, two droppable, a channel of one | 66,752 | until one is dropped, one request is under way and its answer reaches its call; a waiting call is always reachable; every call returns as long as the channel gets room |
| `QuotaLeaseMixed` | one distributed and two local resources, two operations, two messages of dropped calls and of other leases | 1,194,209 | local backends in step and charging what was confirmed, whatever is answered; the server too until an answer to another lease is taken; no local lease left live; operations return |
| `QuotaManagerReserve` | two callers, two servers, three calls, two sessions with a stray each, a limit in two revisions and one without total | 607,186 | counters named are the server's, and those of what is wanted until a stray is taken; one usable session per server; reservations return |
| `CircuitBreakerStates` | two callers, a service and its method, two rule lists, three reports, width 2 | 851,404 | counters match the reports, transitions are earned, states follow the rules |
| `FaultDetectReloads` | two services, one with changing rules and two instances of one host, one whose instances name the other; one access beside the event task | 1,777,884 | overlapping reloads leave loops of recent maps only, a lone one those of the maps, each once; what is told of a service is of a list that names it |
| `ResourceCacheWatch` | two loaders, two versions, streams may end | 602,559 | revision, item, file and listeners agree; nothing goes back; loads return; a connected cache catches up |
| `ResourceKindsConfig` | pairs of thirteen kinds, two versions; two watchers, two publishers | 296,282 | no table confuses kinds; each kind loads; racing upserts succeed; watchers catch up |
| `IdentityCredential` | three descriptors, two failures, five ticks, credentials that live three; two bundles over lists of up to two of two keys, a fork, one revocable id | 711,089 | a superseded credential is found only until the worker turns to the new descriptor, and what a newer bundle revokes is not accepted; a credential comes in the end |
| `ProviderLifecycle` | one instance, with or without an action provider, two calls, two jobs, three rules, three loops | 2,149,475 | no stray heartbeat by calls that take turns, readiness follows what was carried out last, failing heartbeats do not end the task |
| `ConsumerRouting` | two callers, eight requests, three services, two versions of all rules | 923,949 | the instance drawn obeys the rules that were read; one key, one node; policies come first; the index loses nothing, and equal labels mean equal choice and key |
| `RoundRobinTurns` | two callers, four calls, three instances in overlapping lists, one list with new weights | 285,054 | no turn lost, fair shares, calls return while nothing has expired |

**Why the bounds are enough.** Two leases are the least with which one can take
what the other gave back; the third tick lets the shorter window restart twice
under a live lease and a completed lease be forgotten. Width 4 puts saturation
within reach of two reservations. Three calls are needed for a dropped call, the
one that takes its answer, and the one that is hurt by that; two dropped requests
fill a channel of one and keep the third call, while with the 128 places of the
code it takes as many. In the lease one message of a dropped call, or of another
lease, may come before those of the call and of its retry; `MaxSequence` 2 has an
update, its repetition and a finish. In the manager, two callers with different
revisions evict each other's window while the other announces it, and the third
call finds what they left; two sessions let a server be lost and found again, or
two servers be used at a time (with three the run takes twice as long and passes
as well), and one stray is an answer that a later call takes and pays for with
its own. A
breaker's width of 2 with three reports wraps its counters. One access beside
the event task makes two reloads overlap at every lock, and two services are
needed for one reload to start the loops of another. Two versions are an old
file and a new answer; two loaders race for the first load, recover together and
overlap with the receive task. Kinds are confused by tables that name two of
them alike, so pairs suffice; watchers and the pairs do not depend on each other,
so what is watched is alone. In `Identity`, three descriptors allow a change
while the worker acts on the previous one and another during the retry; two
bundles over two keys have a key withdrawn, an id revoked and the older one
arrive later. Three loops are the one of a registration, a second one, and that
of the next life of the instance. Two round robin callers interleave within the
loop over instances, and the lists share an instance with the same and with
another weight. A call of `Routing` meets at most one change of rules between
any two of its loads, so two versions show every mixture of two. The pure
functions are checked over all rules of up to two APIs and all triggers of two
arguments over a small set of values (`MCRouting`).

**Symmetry** is used for the leases of `LocalQuotaLeases` and the callers of
`CircuitBreakerStates` and `ConsumerRouting`, which have no liveness property.

**Fairness.** Always per task that the executor runs: the steps of a call, a
loader, the receive task, the identity worker, a heartbeat loop, a thread in the
balancer. The request lock of the session and the locks of the manager are
tokio's mutexes, which are fair (a queue), so an admission is strongly fair, and
so is the call of a lease on a stream that others take in between; a round trip
of the manager or a lease is answered, fails or times out, once it was sent: that
the send itself may wait is the matter of `QuotaSession`, whose
`EveryCallReturns` is about the behaviours in which the channel always has room
again. Timers fire: the
timeout of a request, the poll of the connector, the heartbeat, the clock of the
identity. Nothing is assumed of the rate limit server, of the transport, or of
those who verify tokens. Some properties need the control plane to answer,
because the code sets no timeout on those requests: `Serves` speaks of open
streams, `EveryKindLoads`, `WatchersCatchUp` and `CredentialCatchesUp` of a
control plane that answers. No fairness is given to publications, stream ends,
expiry, failures or drops.

Eventualities of the form `[]<>` over a state that, once entered, is only left by
the wanted event are the same as a leads-to from it (`item.exists` of the caches
never becomes false again).

## 4. What the code does that its documents or callers may not expect

Nine statements one would make of the code, some of which the repository makes
itself, do not hold. Each has its property and a configuration under which TLC
finds the counterexample; they are kept apart from the runs above.

| configuration (module) | property | what happens |
|---|---|---|
| `QuotaSessionAdoption.cfg` (`MCQuotaSession`) | `AdoptsOwnReservation` | the answer to a dropped reservation is taken by the next one of the stream, with the lease id granted to the dropped one; the doc of `reserve_quota` (traffic/ratelimit/api.rs:270) says such a grant stays unknown until its ttl |
| `QuotaLeaseRetry.cfg` (`MCQuotaLease`) | `FailedFinishIsRetryable` | a finish that times out fails the session its lease is tied to and can never be retried; the doc of `finish` (api.rs:116) says it can |
| `QuotaSessionFull.cfg` (`MCQuotaSession`) | `ReturnsThoughFull` | dropped calls fill the request channel, nobody reads it, and the next call waits in `send` (distributed.rs:231), outside its timeout and with the request lock |
| `QuotaManagerDrop.cfg` (`MCQuotaManager`) | `ChargesWanted` | a reservation is dropped in its Init; the next Init on the session takes the answer (distributed.rs:268-307), and its window has the counter of another limit from then on |
| `QuotaLeaseCrossed.cfg` (`MCQuotaLease`) | `ServerCharges` | an update is confirmed by the late answer to a dropped call of another lease on the session (distributed.rs:407, 465), and the server has not charged it |
| `FaultDetectOverlap.cfg` (`MCFaultDetect`) | `NoOldLoops` | two reloads overlap and the older copy of the maps is started last; the comment at faultdetect/default.rs:428 says no probe of old rules or instances is left |
| `CircuitBreakerRefresh.cfg` (`MCCircuitBreaker`) | `StatisticsSurviveRefresh` | one rule list serves all callees, so calls to two services clear each other's statistics though no rule changes; the comment at circuitbreaker.rs:67 says only real changes do |
| `ResourceCacheRecovery.cfg` (`MCResourceCache`) | `ChangesTakeEffect` | a recovery from the file is applied without a look at what arrived meanwhile; the connector keeps the newer revision, is told that nothing changed, and the published rules never take effect |
| `RoundRobinExpiry.cfg` (`MCRoundRobin`) | `ExpiryIsHarmless` | the call that meets an expired record takes a lock it already holds (roundrobin.rs:82-91) and never returns |

Where the models state something narrower than one would wish, it is because of
the following, all of which the models contain:

- *Kinds.* The watch key of service lists is the bare namespace while answers
  are keyed by service, so a list of services is never initialised; an answer for
  a group without files is dropped (`Unheard`).
- *Watchers.* The listener of group watchers asks for events of single files
  (config/default.rs:369), so they never hear anything (`Hears`). A second watcher
  may return before the first has registered the listener, and a release in
  between is not told to it. A watch alone does not load the file.
- *Fault detection.* `MemoryCache` boxes all rules of a service as one value,
  so the downcast fails and no plan is made, and cached instances carry no
  service name, so none of them meets a plan: with this cache no probe starts
  (`Boxings`, `Naming`). Overlapping reloads leave loops of an older snapshot, or
  two of a target, until the next one. Instances with one ip are probed as often
  as there are instances. A failure whose message quotes a URL with the word
  "timeout" is reported as a timeout (`SaysTimeout`).
- *Manager.* A request with several rules joins its limits to one affinity, so
  a limit may be counted on two servers; callers with different rule revisions
  evict each other's windows. The property is on the counters they name. What
  strays do to sessions is `QuotaManagerDrop.cfg`; `ChargesOwnCounters` exempts the
  sessions on which an Init has taken one (`crossed`).
- *Leases.* A lease whose call has accepted an answer to another lease (`crossed`)
  is not what the server has any more; `ServerAgrees` and the server's part of
  `BackendsAgree` exempt it, what is said of local backends does not.
- *Provider.* A second registration leaks a heartbeat loop that deregister never
  aborts; an offline request does not cancel a delayed registration; one endpoint
  state serves all instances; the answer to a heartbeat is not read. Hence
  `orderly` in `NoStrayBeats`. Without an action provider the endpoint is marked
  registered though nobody was told to register, so `ReadyIsRegistered` is about
  what was carried out, not about what the server has; and it exempts jobs of which
  one acts while the other is between its action and its mark (`crossed`).
- *Routing.* The rule router may see callee rules of one version and caller
  rules of the next. The router API has no authenticated caller, so a rule that
  asks for a managed identity denies everybody. The health router does not use
  the breaker's answer. With the memory cache all services share one ring that is
  never rebuilt; an empty first list makes the choice panic, and so does a hash
  above all points. A mirror takes the first fitting shadow instance and gives up
  when its protocol is another. The API index files an `EXACT` path "*"
  literally, while a match of values takes "*" for anything.
- *Round robin.* The records of all services are one map, so lists that overlap
  in a chain disturb each other's shares even with one caller (the comment at
  `FairShare` has the lists). The bound on shares is for lists like those of the
  run; that no turn is lost is proved for all lists.
- *Counters.* A missing label and an empty one share a counter on the server, so
  `LabelsDecide` speaks of requests whose labels are not empty. An argument of type
  `METHOD` is matched, and put into the local key, by the label the provider has
  for it, while the server is told the request's own method
  (ratelimit/default.rs:878): with another label there one counter of the server
  holds requests that a limit is and is not for, so `LabelsDecide` asks that they
  be the same (`MethodTold`). `METHOD` and `CALLER_IP` are written without their
  key, so two such arguments of a limit are one (`AsksOnce`).
- *Trust bundles.* A renewal with the same sequence and content that arrives
  late moves the expiry back. A list that names a key twice lets a bundle of the
  same sequence bring another key, so the keys of `RevokedStaysRefused` are those of
  a newest bundle that names each once; revocations never go back.
- *Credentials.* A superseded credential is put into requests until the worker
  turns to the new descriptor, which a renewal under way or a backoff delays. After
  the drop one that was on its way into the store may be found until it expires
  (`late`).

Of the hazards in `PROJECT.json` some have no property, because the code does
what they fear and a property can only leave that case out; their notes say so.
Where such a case contradicts the repository or costs what a caller relies on, it
is one of the configurations above: the adopted answer, the full channel, the
crossed answers, the recovery over a newer answer, the lock that is taken twice,
the statistics another callee clears. The others are a list of rules replaced
between the snapshot and the record of a report (circuitbreaker.rs:401), a cache
that stops with either stream (connector.rs:333), a release before the listener
is there (config/default.rs:192), the credential stored after the drop
(identity.rs:110), the one ring of all services (ringhash.rs:73), the stray
heartbeat (discovery/default.rs:455) and the registration after going offline
(816). The models have them all; `~raced`, open streams, `late`, `orderly` and the
moment from which a watcher is owed anything are where the properties leave them
out. A limit of `u32::MAX`, which passes the check and overflows the counter
(ratelimit/default.rs:412), is excluded by the assumption on the constants.

## 5. Proofs

TLAPS checks the theorems of eight modules, for all values of the constants that
satisfy the named assumptions (`CounterAssumption`, `PositionsAssumption`,
`SessionAssumption`, `ManagerAssumption`, `LeaseAssumption`, `TrustAssumption`,
`IdentityAssumption`, `ProviderAssumption`, `BreakerAssumption`,
`FaultAssumption`, `CacheAssumption`, `KindsAssumption`, `ConfigAssumption`,
`RoutingAssumption`, `RoundRobinAssumption`). TLC evaluates these assumptions in
the runs. Each module proves its types first and then the property of each run
from an inductive invariant; a lemma per operator says what it returns or
leaves, and the step has one case per action.

| module | theorems | properties of runs they state |
|---|---|---|
| `LocalQuotaCounter_proof` | `TypeCorrect`, `Invariance`, `ReservedCorrect`, `CommittedCorrect`, `QuotaSafety`, `ChargeSafety`, `OccupancyCorrect`, `EndsFinal`, `Refinement` | all of `LocalQuotaLeases` |
| `QuotaManager_proof` | `TypeCorrect`, `OneSession`, `OwnCounters`; `SessionTypeCorrect`, `WaiterReachable`, `KindSafety`, `OwnAnswers`, `SingleFlight` | all safety of `QuotaManagerReserve` and `QuotaSessionCalls` |
| `QuotaLease_proof` | `TypeCorrect`, `GivenBack`, `BackendsInAgreement`, `ServerInAgreement` | all safety of `QuotaLeaseMixed` |
| `CircuitBreaker_proof` | `ApplicableRules`, `TypeCorrect`, `CountersTrue`, `TransitionsEarned`, `StatesFollow` | all of `CircuitBreakerStates` |
| `FaultDetect_proof` | `TypeCorrect`, `ReportsTrue`, `RecentLoops` | all of `FaultDetectReloads` |
| `ResourceCache_proof` | `TypeCorrect`, `StreamOrdered`, `FollowsStream`, `GoesForward` | all safety of `ResourceCacheWatch` |
| `ControlPlane_proof` | `TypeCorrect`, `NoneKept`, `NoneStale`; `ConfigTypeCorrect`, `OwnValues`, `UpsertsSucceed` | all safety of `IdentityCredential` and `ResourceKindsConfig` |
| `Discovery_proof` | `TypeCorrect`, `NoStray`, `ReadyRegistered`; `RoutingTypeCorrect`, `RoutedStrictly`, `KeysAgree`, `PoliciesFirst`, `IndexReaches`, `OneCounterOneChoice`; `RobinTypeCorrect`, `TurnsConserved` | all safety of `ProviderLifecycle`; of `ConsumerRouting` all but `KeysLoseNothing`, whose core `IndexReaches` and `OneCounterOneChoice` are; of `RoundRobinTurns` `Conserved`, the first half of `TurnsAreFair` |

*Counter.* `ReservedIsLive` is not inductive: a settled lease must be found in
the generation it reserved in, and a restart must leave no lease in the new one.
`IInv` adds that no settled lease is live, that consumption lies between the
initial one and the reservation, for live and settled leases alike, and that
leases only hold generations of the past of windows that exist; its heart is
`WindowsAccounted`: reserved is the sum over live leases, committed the sum over
settled ones, and together they are within the limit. Settling moves units from
one sum to the other and can only lose what was not consumed
(`SettledAccounted`), a restart leaves both empty (`CurrentAccounted`), a grant
adds one claim to a window that was checked to have room. `ReservedCorrect`,
`CommittedCorrect`, `QuotaSafety` and `ChargeSafety` follow from it.
`OccupancyIsLive` is inductive over the types: a set of leases gives back what
it occupies and no more, because counts are the cardinality of the units that
leases occupy. `EndsFinal` needs of `IInv` that a settled lease is not live.
`Refinement` shows, limit by limit, that a step of the counter is a step of
`QuotaBucket` or leaves the bucket alone: settling any set of leases at once is
one `Settle`, a grant is one `Grant` whose fit comes from the sums, and an
update, a sweep of nothing, a refusal or a tick is a stutter. That a bucket
stays within its limit follows from `IInv` for windows and from
`OccupancyIsLive` for concurrency (`GrantedWithin`). All of these hold for
limits that are alone on their key (`Owns`). The key is made of the request's
method, the rule id, the trigger name and the duration, so two amounts of one
trigger with the same duration do share one: the model counts a lease there once
per amount, as the code does, and these theorems say nothing of such a window.

*Session.* The call in service is the holder of the lock and the one `pending`
names (`WaiterReachable`), a call only accepts an answer of its own kind
(`KindSafety`), and, as long as nobody dropped a future, requests and answers
belong to the call in service, from which `SingleFlight` and `OwnAnswers`
follow.

*Manager.* `Stage` says what a call has at each step (a request, a server, a
session, a window), so no step reads what is not there. `SessionInv`: the map
has every open session, and whoever connects holds the lock and has seen that
its server has none. For the counters, `KeyInv` says that the map and the calls
find a window under its own key, `NumberInv` that a window's number is one the
server has on the session the window names, and has for the target and totals of
that key unless an Init of the session took a stray (`Known`), and `ChargeInv`
the same of the numbers a call has collected, as long as that session is open.
`StrayInv` is why a stray does no more harm than that: it is an error, the
answer to a reservation, or a number the server has on that very session. Of a
session that is lost nothing is said: its numbers mean nothing any more. Windows
that neither the map nor a call refers to are forgotten by the model; `Kept`
leaves the others.

*Lease.* `LeaseInv` follows one lease through its counters, its stream and the
server. `BackendsInv`: the server is asked first, and each resource has one
backend. `OpInv`: an operation is the next one and takes back nothing that was
confirmed. `AwaitInv`: only the first backend waits, and a reservation has at
most one message on the stream, whatever others have there. `LocalsInv`: no
local lease is charged less than what was confirmed; a local ends after those
granted before it; those an operation has passed have its totals, and a finish
leaves all of them settled with the totals of the lease. `ServerInv`: as long as
no answer to another lease's call was accepted (`crossed`), the server is at the
confirmed operation or one ahead, never below what was confirmed. The messages
are what makes this inductive: `RequestsInv` lets a request be at most one
operation ahead, and `ResponsesInv` says that what a response tells of the
server is still so or that an update came after it, so an answer that comes
late, after a timeout and a retry, cannot confirm what the server no longer has.
They, too, are only about this lease's messages and about a lease that has taken
no other answer. `GivenBack` and the local halves of `BackendsInAgreement` and
`ServerInAgreement` need the local parts alone, which hold whatever was
answered; the other halves need those about the server.

*Breaker.* `TypeInv` has machines of published rules only. `ToldInv` says what
each counter of a machine counted of the reports on its resource, and that a
resource without machines has had none. The part about an uncounted failure
needs that no more is reported between two clears than a `u32` counts
(`MaxReports <= U32Max`, a hypothesis of `CountersTrue` only): a counter that
wraps forgets failures. The instance of TLC does pass the width, with rules that
open before. `TransitionsEarned` follows from the same invariant, step by step,
and `FollowInv` adds to `StatesFollowRules` the lists that reports carry and the
call that has changed the rules and not yet cleared the states.
`ApplicableRules` is about the sort: the ranks of the applicable rules are a
bijection, from which it is a permutation, in order of priority.

*Fault detection.* `TypeInv` says of everything under way which service it is
of, and that a target is a plan and an instance that came under one name, for the
service the instances are said to be of; `ReportsTrue` follows, with the two
tables of results and statuses. `RecentInv` is about what overlapping reloads
leave: what a reload carries was in the maps since the reloads under way began,
each of them stops what was there before it began, and one that has stopped the
loops starts its own. While a reload is alone there is one of each.

*Cache.* `StreamInv` orders the versions along their way: those of item, tasks,
writes and file are behind every event of the channel, these behind the
connector's revision, that behind the answers of the stream and the control
plane. `FollowInv` then says, as long as no recovery overlapped an event, that
before the first event there is one version to recover and nobody was told, and
afterwards that what is being told is what the item has. `GoesForward` needs
both.

*Identity.* `KeeperInv` holds the three reasons why a credential outlives its
descriptor only until the worker turns to the next, and the drop only as the
answer that was already there: a descriptor sent since the worker borrowed one
is still to be seen, the worker asks empty-handed and waits only for what it
holds, and after the drop only a worker that already had its answer stores.
`TrustInv`: the bundle held has the revocations and the keys of the newest that
was ever taken, but for a key more where that one lists a key twice (`Newest`),
so what it revokes is not accepted. `SideInv` puts both sides together.

*Kinds and configuration.* The tables by which the code turns a type of
resource into a request, a key, an event and a file are compared once, type by
type; then `KindsInv` says that every event is about the resource whose handler
it came through, and that every item, task and result has only what is its own
(`OwnValues`). `WatcherInv` and `PublisherInv` add the clients: a file that was
stored does not vanish, so a publisher whose create was refused finds the file
when it updates again, and no publisher fails (`UpsertsSucceed`).

*Provider.* `BeatInv` describes, as long as calls for an instance take turns,
which heartbeat task there is at each step of a call; a task id is never used
twice. `JobInv` does the same for the jobs and the endpoint's state: what is
marked registered was carried out, what an action provider was told last is what
was done last, and while jobs do not cross, readiness is that but between a
deregistration and its mark.

*Routing.* A router only drops instances from the list (`Left`), so what a list
obeyed once it obeys to the end: `Obeying` says of the list of a call that the
rules and the lanes it read are obeyed, and between the two halves of the rule
router, which read the rules of the callee and of the caller at two moments,
that no rule of the callee fits the request. The heart of it is that the rules
leave only instances that fit, and none only where none fits (`RulesLeft`): the
foremost group of destinations exists by a least number, for any number of
groups. `Governed` says what the policies a call read have decided for it by the
step it is at, and `FromRing` that it found its instance on the one ring its
service has. `RoutingInv` is their conjunction over the calls; rules change
between any two steps, and a call is only ever compared with what it read.

*Keys.* `IndexReaches` is about the set of rules that the index of the APIs
finds, for all rules, APIs and requests but the path `"*"` (section 4).
`OneCounterOneChoice`: two requests with the same remote labels agree on every
argument of the limit and have one local key, when the limit writes no two
arguments under one name (`AsksOnce`), no label is empty, and a `METHOD` label is
the method of the request (`MethodTold`), as in `LabelsDecide`.

*Round robin.* What `SumFunction` and the `FoldLeft` of `Total` compute is proved
once, without induction over data: two functions with the properties of a sum
(`Adds`) agree, since there is no smallest part of the domain on which they
differ. `RobinTypes` says which records and which weights a call has at each
step. `RobinInv` adds, until the weight of a record in use changes, that a
call finds the weights of its list in the records whoever refreshed after it
(`WeightsKept`), and that the current weights sum up to what calls on their way
have raised and not yet taken back (`CurSum = RaisedSum`): each step adds to
both sides the same, also when two calls raise one record in turn.

*Only model-checked.* Liveness everywhere (`EveryCallReturns`,
`OperationsReturn`, `ReservationsReturn`, `Serves`, `EveryKindLoads`,
`WatchersCatchUp`, `CredentialCatchesUp`, `KeepsHealthy`,
`CallsReturnWhileInUse`), which is out of the prover's reach. `FairShare`, the
other half of `TurnsAreFair`: its bound is one for lists like those of the run,
which meet in one instance or in all; with lists that form a chain (`{a, b}`,
`{c, d}`, `{b, d}`) TLC finds that an instance drifts further, so there is no
theorem for every value of the constants. `KeysLoseNothing` as it is stated,
which also compares the order of the rules found: `IndexReaches` and
`OneCounterOneChoice` prove what is found, while the sort of `Candidates` and
the choice among several triggers are sequences the library defines by `CHOOSE`
and filters. The properties of the nine configurations of section 4 are refuted,
so there is nothing to prove of them.

The installed provers cannot use an induction rule with an operator as
parameter. Where an induction over the naturals or over parts of a set is
enough, the proofs take a least counterexample (`Least`, `SmallestPart`).

## 6. Not modelled

Left out for good: encryption of configuration files, which is cryptography
without shared state; construction of the engine, the context and the plugins,
done once before any call, and its report loop, which sends the same request by
a timer; location, observability and logging, which keep no state that outlives
a call; service contracts, which only pass through the connector; conversions of
payloads, formatting, and the bytes of sockets. The plugins of rate limiting keep
no state that a reservation uses. Error-rate triggers of the breaker are absent
because the code ignores them. The command line examples, tests and demos of the
repository use the API and hold no logic of it.
