# A TLA+ model of the Hailo API proxy

The API proxy ("thin API") takes every HTTP request of the apps, picks a rule
for it, sends it to one of two backends (H1 over HTTP, H2 over RabbitMQ) or
sheds it, and tells apps which region's hostnames they should use. This
directory holds TLA+ modules of its concurrent and stateful parts, TLC
configurations that check them on small instances, and TLAPS proofs of the
properties that matter most, for all instances.

`PROJECT.json` lists components, runs, mutants, findings, hazards and theorems,
and maps every definition to the lines it models.

## The system

| component | state | operations | talks to |
|---|---|---|---|
| status monitor (`statusmonitor/`) | IsHealthy, FailureType, lockHandle; one ZooKeeper node for all instances | poll RabbitMQ, ask the monitoring service, failoverAZ, recoverAZ | ZooKeeper, load balancer (reads `/v2/az/status`) |
| throttling handler (`handler/throttling*.go`) | two atomic pointers (count buffer, throttled set), a bounded channel | ServeHTTP, ingesterWorker, synchroniser | throttling service |
| configuration loading (`controlplane/controlplane.go`) | loaded configuration, last good file | New, load cycle, tryLoad, save, LoadLastGoodConfig | config library |
| router (`rules.go`, `regions.go`, `router.go`, `extractor.go`) | none of its own: one request, one configuration | Route, Region, CorrectHostname, GetHobMode, SetHob | configuration loading |
| handlers (`handler.go`, `h1.go`, `h2.go`, `h2rpc.go`, `endpoints.go`, `cors.go`, ...) | one request and its response | route, pin, dispatch, answer, record | router, H1, H2, stats |
| health checks (`healthcheck/`, `stats/`) | rate saved by the last check | drop-off check, error-rate check | platform stats |
| PCI filter, host mapping | a table each, reloaded on config changes | reload, look up | config library |
| server (`server.go`, `main.go`) | three tombs and their goroutines | NewServer, Kill | all of the above |
| session | none | SessionId: a function of a request and of whether its form was parsed | throttling, router, services |
| trace, errors, real IP | none | pure functions of a request | |

Outside the process: the config library, ZooKeeper, the throttling and the
monitoring service, H1 and H2, the other regions' proxies, and the apps, which
follow the pinning headers (repository README, "Corrective measures",
"Timestamp").

Interaction: `main` loads the last good file, then `NewServer` builds the chain
real IP -> throttling -> PCI filter -> CORS -> mux -> handlers. Handlers, control
plane and monitor are separate goroutines that meet in atomic pointers, in
ZooKeeper and in config notifications. `HailoServer.Kill` kills three tombs.

What is hard: instances of many zones sharing one node; pointers swapped under
a running increment; two loaders of the same configuration; crashes while the
file is written; a request that asks for the configuration several times while
it is replaced; tables refilled under running requests; a shutdown that waits
for five goroutines; regions that disagree on where an app belongs; the same
question asked of a request before and after its form is parsed; quantities at
zero, at a limit, or tied.

What makes each part correct:
- monitor: one zone at a time is failed over, only the owner removes its node,
  an instance that is well returns, one that is cut off leaves;
- throttling: requests never wait, nothing is counted twice, one increment per
  swap at most is lost, a failing service throttles nobody;
- loading: the file is always usable, file and configuration are replaced as a
  whole, no change is missed, the newest configuration wins;
- router and handlers: the best rule wins, one backend is called, headers of
  one answer describe one configuration, everything is answered and counted;
- pinning: an app is sent forward to newer configurations only, and settles;
- session: all who ask about a request find the same session;
- filter and mappings: one whole table decides, and changes take effect;
- server: Kill returns, and then nothing it stops runs any more;
- health: every real drop is reported, steady traffic is not, and a loss cannot
  hide between the two checks.

## Modules

Each component module has its state, one action per step that other goroutines
can see, and its properties. Definitions named `Bug...` are deliberate slips
next to the definition they distort; they are not part of any specification
and exist to show that each property can fail.

**StatusMonitor.** One process per instance; a step is one ZooKeeper call, one
remote check, or the assignments between two of them. `lock` is the ephemeral
node with the zone written in it and the owner ZooKeeper knows. `lockHandle` is
TRUE when the Go field is not empty: the handle is the path, the same for all.
`ZkFaults` lets a call fail or lose its reply; `SessionFaults` adds expiry,
crashes, restarts and tomb deaths. A restarted process leaves its node to
`Orphan` until the old session ends. Polled answers are free choices.
`FailedOver`, of which FailoverUnderLock and OneZoneFailsOver speak, ends when
recoverAZ sets out to remove the node: between the delete and the assignment of
IsHealthy (`types.go:162-167`) an instance is out of the pool without a node.

**Throttling.** Requests, `Ingester` and `Synchroniser`. A count is the set of
requests it counts, so that losing or doubling one shows. A buffer is what lies
behind `bucketBuffer` between two swaps: the copies ingesterWorker makes for a
new key share their cells with the original and are made by nobody else, so its
compare-and-swap fails exactly if the buffer was swapped. Three buffers are
enough: one current, one held by the ingester, one new; the one being reported
may be reused once it is reported. `read` and `bucketReqs` hold what
reportIncrements has read; `reports` counts the calls that told the service of a
request. How often the platform's client delivers one call is its own affair:
`throttlesync.go:34-43` sets no number of retries (`h2.go:81` sets 0).

**Tally** is what Throttling promises, without channel, buffers and goroutines: a
request is offered once, counted at most once and only if its offer was accepted,
and told to the service at most once and only while it is counted. `Queued`,
`InCell`, `Unoffered`, `Accepted` and `Counted` say where in Throttling's state a
request is.

**ControlPlane.** The two goroutines that run `tryLoad`: `"new"` (the caller of
`New`) and `"sub"` (the subscriber). Steps are the read of the raw bytes with
validation, the comparison of hashes, the three file operations, and the store.
`Section` maps raw content to its parsed control plane part, so that contents
that differ elsewhere can share one. The notification channel of the config
library (external) keeps one pending notification. `loadCycleLock` has a single
user and never blocks. A crash keeps the file only.

**LastGood** is what ControlPlane promises, without hashes, temporary files and
retries: the file and the loaded configuration are replaced as a whole by valid
content the library has held. `Loading` maps the program counters of tryLoad to
the content each loader is loading.

**Session.** `SessionIds(q, parsed)`: the session ids SessionId may return for a
request, by whether its form has been parsed. It is a set because two headers
are looked at in the order of a map.

**Router** extends Session. Operators, no state: what the extractor takes from
query and body; how rules are ordered (any order `sort.Sort`
may leave, starting from a map), matched and sampled; forced routes; region,
failover and hostnames; the city of a request. A path is a sequence of fragments
(`/v1` and `/v10` share one, so a prefix is a prefix of the string), a list of cities a set, a proportion a number of buckets, the fnv hash a constant
function. The order of region ids is that of numbers.

**Handler** extends Router: a request runs through `Admit` (the throttling
handler: its session id, and a possible refusal) and `Cors`, then `RouteRequest`,
`MaybePin`, `SetMode`, `Dispatch` and a branch (H1, H2, throttle, deprecate), or
through the RPC or the endpoints handler. `Load` replaces the configuration
between any two steps. Requests share nothing else, so one request meets every
interleaving there is. Backends answer
anything in `H1Statuses` and `H2Replies`; the proxy's own failure is a 500.
Response headers that no property mentions, bodies and counters are left out.
When the throttling handler refuses is the subject of Throttling; here it may
refuse any request that has a session. H2 calls are made without retries; for RPC
calls `h2rpc.go:112` sets no number of them, and one call of the client counts as one.

**Pinning** extends Router: one app, several regions, each with the version of
the configuration it has loaded last. A region's answer carries what
`CorrectHostname` and `pinRequestToHostname` put into the headers, or the
endpoints handler into its body. The app is external and does what the
repository's README asks of apps. Answers are a set of messages: they overtake
each other, arrive twice, or get lost. A restarted region has any version up to
the one it had. `FirstLoad` is the load of New, which may end after the subscriber
has loaded a newer version and then puts the older one over it (CPStale). **Roaming** is what this promises an app: each move is to the
home of a later version.

**Server.** NewServer step by step, the goroutines of the PCI filter and of the
host mappings, requests passing the one and using the other, and Kill.
`loadConfig` fills its map path by path under the write lock; the read lock of a
request waits. Goroutines that have modules of their own are reduced to "runs
until it sees its tomb dying", which WorkersStop (Throttling) and SubscriberStops
(ControlPlane) justify. `WaitReturns` is tomb.v2's Wait, external.

**Health.** Both checks, each on its own timer, on the rates of one endpoint;
percentages are compared by cross-multiplication. Rates move freely between
checks. `ran`, `before` and `alarm` only remember what happened since they moved.

`MC...` modules give the constants their small values. `...Proofs` modules hold
the theorems of a component.

## Runs

| run | bounds | shows |
|---|---|---|
| SMZones | 3 zones with one instance each, one instance outside AWS, ZkFaults | TypeOK, FailoverUnderLock, OneZoneFailsOver, HandleOwnsLock |
| SMLive | 2 zones with one instance each, all faults, fair | RecoversWhenWell, DisconnectedLeavesPool |
| ThSafe | 3 requests of one bucket, 1 without, channel of 1, symmetry | TypeOK, AtMostOneLost, TalliesOnce |
| ThLive | 2 requests of one bucket, channel of 1, fair | RequestsNeverBlock, EventuallyCounted, FailsOpen, WorkersStop |
| CPLoad | 2 contents, 1 invalid, tied rules, failing writes, 2 crashes, fair | TypeOK, LastGoodIsGood, RestartsFromLastGood, QuietMeansLoaded, NotifiedChangeLoads, SubscriberStops, ReplacedAsAWhole |
| HdServe | 1 request out of 172, 3 configurations, fair | TypeOK, BestRuleWins, TimestampMatchesUrls, PinsOnlineRegion, BackendAsRouted, HobReachesBackend, OneSession, CountedOnce, EveryRequestAnswered |
| HcDrop | rates 0..8, thresholds 50% and 25% | DropIsReportedOnce, LossIsReported |
| SvLife | 3 versions, 1 request, 2 sensitive paths, in AWS, fair | TypeOK, VerdictIsOfOneTable, FilterFollows, AddressFollows, KillReturns, StoppedMeansStopped |
| PnSettle | 3 regions, 4 versions, 1 restart, fair | TypeOK, RoamsForward, Settles |

Why the bounds are enough: a conflict over the node needs two zones, and a
third shows that it is not about two; a shared zone needs two instances
(SMTwoZones). A lost increment takes a request in the buffer, one at the
ingester and one more to be a second loss. A channel of one is full at once.
Two contents are an old and a new one, and two crashes let a restart meet
a file that a restarted process wrote. The three configurations of the handler
disagree on rules, on the state of regions, on the region of a city and on
modes; they contain ties, a rule without match, an unknown action, sampling at
0, at the boundary and at 1, an offline region with an offline first failover.
Rates 0..8 with 50% and 25% contain both thresholds and their neighbours, and
losses split between the two checks. Three versions of the server's
configuration are an empty one and two changes, so that a change can be
announced during the load of another; requests do not affect each other, so
one, which may come again, meets every interleaving with the loads. In
the four versions of Pinning the home is region 2, then its second failover,
region 3, then region 1, then region 2 again, so an app can be asked to go back
and forth, and every region is the home at some time and wrong at another. Every
region may fall behind by its first load, and one of them by a restart as well.
Where a theorem states the same property, the bounds no longer matter.

Deadlock is checked except in the throttling runs, where all requests are
served and both workers have stopped in the end. Requests of one bucket are
interchangeable, in Tally too, so ThSafe, which checks only invariants and steps,
uses that symmetry.

Runs with a finding, where the code does not do what a comment, a test or the
README says:

| run | property | what the code does |
|---|---|---|
| SMLeak | RecoveryRemovesLock | a second round without RabbitMQ overwrites the handle, recovery leaves the node |
| SMTwoZones | OneZoneFailsOver | one of two instances of a zone recovers and frees the node under the other |
| CPStale | NewestStaysLoaded | the first load overtaken by a load cycle puts the old configuration back |

Smaller divergences met while modelling. The models contain the behaviour; no
run is kept for them:

- `types.go:156`: a round without RabbitMQ turns a monitoring failure into a
  connectivity failure, and the reconnection recovers the zone before the
  monitoring service has answered; the comment at `types.go:88-89` says the
  instance remains failed.
- `controlplane.go:212`: content whose control plane section is unchanged is
  not saved; `controlplane.go:246` says saving follows every successful load.
- `rules.go:20`: rules that tie hash differently from load to load, so an
  unchanged configuration can be loaded again; see `controlplane.go:49`.
- `router.go:57`: `X-Hailo-Route: h1` forces the route (`router.go:140` compares
  in upper case) but not the mode; see the comment at `router.go:56`.
- `handler.go:73`: pinning by a service ignores whether the app is at the right
  host; `README.md:277-278` of the repository says the headers mean it is not.
- `endpoints.go:72-73`: a verbose answer reads the loaded configuration three
  times; `controlplane.go:42` calls a configuration an atomic whole.
- `handler.go:58`: pinning sets one header per url of the region and removes
  none, so where two regions differ in the names of their urls, a second pinning
  of a request leaves urls of the first under the new timestamp; `README.md:248-249`
  of the repository says headers and `/endpoints` contain the same information.
  In HdServe all regions name the same urls; no configuration with regions is
  shipped, those of the tests (`handler_test.go`) are of that kind.
- `rules.go:46`: a higher weight comes before a higher specificity, so a rule
  without any match may win over one with path, source and city; `README.md:82-89` of
  the repository and the comment at `rules.go:13` order rules by specificity only,
  and no text mentions `Weight`. BestRuleWins goes by the code, and HdServe has the
  case (`CatchAll`, weight 2, against `HalfRule`, weight 0 and a path).
- `rules.go:24`: rules of equal weight and specificity are ordered by chance at
  each load, so after a reload the same request may get another rule;
  `README.md:108-110` of the repository expects the same result every time.
- `server.go:40`: outside AWS the monitor's tomb never has a goroutine
  (`types.go:66`), and Wait on such a tomb does not return, so neither does Kill;
  the teardown of the tests (`server_test.go:59`) calls it. SvLife is in AWS.
- `pcifilter.go:28-29`: the filter loads and then subscribes; a change between
  the two is announced to nobody, and the table stays old until the next one.
  FilterFollows is about changes that are announced.
- `pcifilter.go:62`: compares pointers to freshly parsed urls, so the proxy is
  rebuilt at every load; nothing uses it.
- `server.go:34`: Kill leaves the HTTP server and the host mappings running; what
  is served after it is filtered by the last table for good.
- `session.go:36`: a session id in the body is not seen by the throttling handler,
  which asks before the form is parsed; `session.go:45`: of two headers with
  different ids either may be found; `extractor.go:154-158`: of a form that does
  not parse, rules see nothing and services what could be read. OneSession
  excludes exactly these.
- `h2rpc.go:186-189`: authorisedFor takes the session from the parameter
  `session_id` only, while the call is made with that of SessionId (`h2rpc.go:108`),
  which also knows `api_token` and headers. `Authorised` follows the code; OneSession
  is about the throttling handler, the rules and the service.
- `marshaling.go:62-119`: where a request names two cities, the service is told
  another than the router used (`city` before `hob` and body before query there).
- `healthcheck.go:90`: with no earlier rate the deviation stays 0, which is
  taken for a drop of 100%; `healthcheck.go:72` calls it "No deviation".
  DropIsReportedOnce states what the code does.

## Fairness

- Monitor: a started goroutine is scheduled and its five-second timer fires
  (weak fairness); ZooKeeper ends the sessions of dead processes. Nothing is
  assumed about RabbitMQ or the monitoring service: the properties say "if from
  some time on ...".
- Throttling: goroutines run, ticks come, service calls return. Go's `select`
  picks at random among ready branches, hence strong fairness of the dying
  branch. Strong fairness of `AddKey`: ticks are seconds apart, a retried
  compare-and-swap takes microseconds.
- Control plane: goroutines run; strong fairness of the subscriber's dying
  branch for the same reason. Nothing is assumed about published content.
- Server: NewServer goes on, goroutines run, a Kill that began goes on, requests
  are answered. Strong fairness of the listener's dying branch, again because of
  `select`; the other goroutines do nothing here but look at their tomb.
- Pinning: the app keeps sending requests to its host and they are answered; the
  network does not lose everything (strong fairness of Receive). The app need not
  ask `/endpoints`. Nothing is assumed about loading: a region may keep an old
  version for good, as the finding of CPStale shows, and Settles says that this is
  the one thing that keeps an app from its home, and only if it happens where the
  app is. (Apart from that finding, QuietMeansLoaded and NotifiedChangeLoads say
  that regions do load what is published.)
- Handler: a handler goroutine is scheduled and backends answer. For H2 and RPC a
  client timeout sees to it; that H1 answers is an assumption on H1, since the
  proxy's transport bounds neither the TLS handshake nor the body. Loading is
  not fair.

## Refinements

- `ReplacedAsAWhole == LG!Spec` (ControlPlane): configuration loading implements
  LastGood. Checked by CPLoad, proved for all instances.
- `TalliesOnce == T!Spec` (Throttling): requests, channel, buffers and the two
  workers implement Tally. Checked by ThSafe, proved for all instances. The step
  that could break it is a compare-and-swap that puts a key back over a count.
- `RoamsForward == R!Spec` (Pinning): with its host and timestamp, the app of
  Pinning implements Roaming. Checked by PnSettle, proved for all instances. It
  needs that all answers with one timestamp name one host, whichever of the two
  handlers built them.

## Proofs

All proofs are for every value of the constants allowed by the `ASSUME`s of the
modules: any sets of instances, zones, requests, buckets and contents, any
channel size, any bound on crashes.

*StatusMonitorProofs.* `TypeCorrect` with every fault. `HandleOwnership` and the
two after it assume `~SessionFaults`: a session that expires unnoticed breaks
them by its nature. HandleOwnsLock is inductive with `LockInv`: whoever holds a
handle runs in a known zone, and no node is an orphan's. `FailoverHoldsZone` and
`SingleZoneFailover` also assume one instance per zone (SMTwoZones shows they
need it). FailoverUnderLock is not inductive alone, since an unlock by another
instance would free the zone under a failed-over one; with `LockInv`
(`ZoneInv`) the deleter owns the node, so it is of the zone the node names.

*ThrottlingProofs.* `TypeCorrect`, with the bound of the channel. `SwapInv`: the
current buffer has not been read, and the one being reported is not current.
`SingleIncrementLost` from `LostInv`: while ingesterWorker is between its load
and its increment, the buffer it holds has lost nothing yet.
`NothingReportedTwice` from `ReportInv`, which follows a request through the
channel, the hands of ingesterWorker and one cell of one buffer (`QueueInv`,
`CellInv`): until its cell is reported the service has not heard of it, and a
reported buffer never becomes current again before it is emptied.
`ImplementsTally` from these and `KeyInv`: a key is put into the map only where it
is absent, although ingesterWorker does not look again after a compare-and-swap
that failed, because nobody else adds keys and a swapped-in buffer has none. So
no insertion overwrites a count; `TallyStep` maps each step to Offer, Count, Tell,
Forget or a stutter.

*ControlPlaneProofs.* `TypeCorrect` and `LastGoodFile` from `LoadInv`: a tryLoad
past its validation holds good content, and the temporary file it is about to
move is that content. `RestartIsConfigured` from `RestartInv`: until content
arrives the subscriber is idle, so nothing but the file's good content can be
what New reads. `ImplementsLastGood` from `LoadInv`: each step of tryLoad maps to
Begin, Save or Finish of the same loader or to a stutter (`LastGoodStep`; `LoadingStep`
says how a program counter changes the mapped state), a hash that is equal is a
Finish that changes nothing in use, a crash maps to Restart.
`NoWakeupLost` from `WakeInv`: content that was announced is announced still, about
to be read, or what the subscriber read last (`AnnouncedInv`), and the subscriber
waits only after what it read last was in use (`InUseInv`). The exception in
QuietMeansLoaded, a first load of New that ends later, is the finding of CPStale;
the theorem says that there is no other.

*HealthProofs.* `DropReported` and `LossReported` from `CheckInv`: the saved rate
is that of the last drop-off check and its outcome belongs to the last two rates
(`SavedInv`); since the rates moved last, the first drop-off check compares with
the rate from before, and each check that should have failed has raised the
alarm (`WindowInv`). LossIsReported alone says nothing of a window in which only
one of the checks has run. The percentages are compared by cross-multiplication,
and two lemmas (`PercentOf`, `PartOfPart`) hold the arithmetic of the products.

*PinningProofs.* `TypeCorrect` and `ImplementsRoaming` from `RoamInv`: every answer
on its way, pinning headers or `/endpoints`, names the home of its own timestamp,
and the app is where its timestamp sent it. Which version a region has loaded does
not matter, so New's overtaken load changes nothing about it. Receiving an answer is then a move
to the home of a later version, everything else a stutter. Assumed of the
constants (`PinningAssumption`): versions are numbered from 1 and every version
has a home for the city.

*ServerProofs.* `TypeCorrect` from `TableInv`: while loadConfig fills its map, what
it has and what it is still to add make up one version (`FillInv`), so the table
is whole again at the unlock. `OneTableDecides` from `VerdictInv`: a waiting
request came when the filter had a version no newer than now. `KillStops` from
`StopInv`: Kill comes after NewServer, so no goroutine is started behind it, the
write lock has one of two holders, and of a tomb that was waited for nothing runs.
`NoAnnouncementLost` from `FollowInv`: AnnouncedIsLoaded (mappings that wait with
nothing announced have the newest version; a filter that loads with nothing
announced since loads the newest) with the same for mappings that have read and
not yet stored, and because the mappings subscribe before they read.

*RouterProofs.* No state, only what the operators return. `FirstMatchIsBest`: a
sort is complete (an injection between finite sets of one size is onto), the
least matching index exists, and no rule that comes later may go before it.
`RegionExists`: a city has a home in the table, and an online failover is taken
if there is one. Lemmas on session ids (`OneAnswer`, `BodyWithoutSession`) and on
the city (`HobSettles`: asking again gives the same answer).

*HandlerProofs.* `ServeInv` is `Shape`, `Loaded` (the rules are a sort of those of
the configuration) and `Own(r)` for each request, in parts: which steps it went
through to be where it is (`Control`), the city (`Cities`), the call it made
(`Calls`), what it recorded (`Counts`), its session ids (`Sessions`), its rule
(`Best`) and its timestamp (`Stamp`). A step of r changes nothing of the others
(`ServesOne`) and keeps `Own(r)` (`OwnStep`, one case per action); a load changes
nothing of any request (`OwnFrame`): that is why it may come at any time.
None of the properties is inductive without the parts: BackendAsRouted
needs that X-Hailo-Route is written by the branch that is taken, CountedOnce that
nothing was recorded before the handler returned, OneSession that admission and
routing asked about the same request. `TypeCorrect`, `BestRule`, `CalledAsRouted`,
`Counted`, `SessionIsOne` and `HobIsPassedOn` follow from `ServeInv` and the lemmas
of RouterProofs. BestRuleWins compares `Rank`, which orders rules as `Less` does
because a specificity is at most 20 (`RankOrder`).
`HandlersGoForward`: every step of a handler is one of the moves of its flow
(`Move`, `ServeMoves`) and every move leads to a later of eleven stages
(`MovesGoOn`), so no request takes more than ten steps.
Assumed of the constants (`HandlerAssumption`): a configuration has finitely many
rules, none of them nil and with integer weights; no two configurations have one
version, which nothing in the code checks (`configVersion` is a field set by hand);
H1 answers with an HTTP status, 100 to 599.

`UrlsOfOneVersion` and `OnlineRegion` also assume `UniformUrls(names)`: each version
has regions, and every app of every region has urls of the same names. The proof
shows where it is needed: a second pinning overwrites the urls it has and no
others, so without it urls of the first remain under the new timestamp (the
divergence at `handler.go:58` above). MCHandler asserts it of the configurations
of HdServe. `PinInv` adds to `ServeInv` that nothing is pinned before `MaybePin`,
that urls no app has are blank, that the urls are those of the timestamp's
version for the city at hand except between the answer of a service that asks
for another city and the pinning to it, and that a request that was pinned once
cannot fail to be pinned again: the city is known by then, a timestamp means
that a configuration has been loaded, and then every city has a region.

Only model-checked: the liveness and leads-to properties (RecoversWhenWell,
DisconnectedLeavesPool, RequestsNeverBlock, EventuallyCounted, FailsOpen,
WorkersStop, NotifiedChangeLoads, SubscriberStops, EveryRequestAnswered,
FilterFollows, AddressFollows, KillReturns, Settles), because fairness and
ENABLED are out of the prover's reach. Of five of them the part that is safety is
proved: `NoWakeupLost` (NotifiedChangeLoads), `NoAnnouncementLost` (AddressFollows,
FilterFollows), `HandlersGoForward` (EveryRequestAnswered), `ImplementsRoaming`
(Settles). Every invariant and every refinement that a passing run checks is
proved, and ReportedOnce and the types of Health are proved beside them.

## Not modelled

Pure formatting and string handling (errors, real IP, JSON and protobuf bodies,
CORS origins), tracing, generated code and schemas, instrumentation, `/version`,
`/favicon.ico`, pprof. The `hob` a service is told is modelled for three-letter
cities; where a request has both a `city` and a `hob`, router and services may
go by different ones, which HobReachesBackend leaves out. The proxy of the PCI
filter's `Forward` is not modelled: nothing calls it. In Server the configuration
loads of the control plane and the work of the monitor and of the throttling
goroutines are left to their own modules. In Pinning an app stays in one city and
region urls are reduced to the `api` host. Requests that give a parameter a blank
value, which hides a parameter of the same name elsewhere (`extractor.go:160-162`,
`marshaling.go:91-94`), are left out.

## Status

The plan is done: all modules above with their runs, three abstract specifications
shown to be implemented, and a proof of every invariant, step property and
refinement a run checks. Left open are the halves of the liveness properties that
need fairness, which stay with TLC.
