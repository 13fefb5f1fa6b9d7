# A TLA+ model of the production-stack router

The repository holds an LLM request router (Python: one asyncio loop and a few
threads, under `src/vllm_router/`) and a Kubernetes operator (Go, under
`operator/`). This directory models the router's components and the operator's
LoRA controller, model-checks them on small instances and proves the safety
properties of every modelled component for instances of any size. Paths below are relative to the repository.

## The system and its parts

| Part | State | Who changes it | Modelled in |
|---|---|---|---|
| Request statistics, `stats/request_stats.py` | ledger of attempts, gauges, windows | request handlers | `RequestStats`, `AttemptLedger`, `RequestStatsProofs` |
| JSON requests, `services/request_service/request.py` | candidates, failed backends, attempt | one coroutine per request | `RequestLifecycle`, `LifecycleProofs` |
| Uploads, same file | locals of `proxy_multipart_request` | one coroutine per request | `MultipartProxy`, `RequestPathsProofs` |
| Disaggregated and orchestrated requests, same file | stage, prefiller, client sessions | one coroutine per request, pod discovery | `DisaggregatedRequests`, `RequestPathsProofs` |
| Sleep and wake-up, same file and `service_discovery.py` | engine, pod label, table | admin requests, watcher | `SleepMode`, `RequestPathsProofs` |
| External providers, `external_providers/` | model index, adapters, sessions | startup, requests | `ExternalProviders`, `RequestPathsProofs` |
| Pod discovery, `service_discovery.py` | engine table, models ever seen, sessions | watcher thread, loop | `PodDiscovery`, `PodDiscoveryProofs` |
| Service-name and static discovery, same file | tables, health lists | their threads | `ServiceNameDiscovery`, `StaticDiscovery`, `EngineThreadsProofs` |
| Engine scraper, `stats/engine_stats.py` | statistics snapshot | its thread | `EngineScraper`, `EngineThreadsProofs` |
| Dynamic configuration, `dynamic_config.py` | configuration, discovery, router, callbacks | watcher thread, main thread | `DynamicConfig`, `ControlPlaneProofs` |
| Prefix-aware routing, `routing_logic.py`, `prefix/hashtrie.py` | the trie | routing decisions | `PrefixRouter`, `RoutingProofs` |
| Round robin, session, priority, disaggregated routing | indexes, caches, ring | routing decisions | `RoutingLogics`, `RoutingProofs` |
| KV-aware and load-aware routing | map of instance ids | concurrent requests | `CacheRouters`, `CacheProofs` |
| Semantic cache, `experimental/semantic_cache*` | index, metadata, two files | requests, crashes | `SemanticCache`, `CacheProofs` |
| LoRA controller, `loraadapter_controller.go` | object, pods, adapters | reconciler, users, pods | `LoraAdapters`, `ControlPlaneProofs` |

A request takes one snapshot of the engine table, reads the statistics, asks the
router for an engine, and books its attempt until it is over. The configuration
watcher replaces discovery, router and callbacks under running requests. The
LoRA controller annotates pods so that pod discovery reads their models again.
`PROJECT.json` lists every part and every hazard at the line where it bites.

## The modules

* **RequestStats.** Every public method of `RequestStatsMonitor` holds the lock for
  its whole body: one action each. An absent key is `NoRequest`, `NoTime`, 0 or
  `{}`; a moving average is the set of its samples. `history` is auxiliary. Callers
  are unconstrained: late, repeated and misordered hooks are all behaviours.
* **AttemptLedger.** What readers are promised: an attempt is new, in prefill,
  perhaps decoding, and retired once; the three figures of an engine count its
  attempts in that condition.
* **RequestLifecycle** extends it. A step runs from one await or yield to the next;
  the router may pick any candidate. **MultipartProxy** does the same for uploads:
  one attempt, a total timeout, plain or streamed.
* **DisaggregatedRequests.** Prefill, then decode, over two selected engines or over
  one client session per role, which pod discovery may replace at any time; a
  session that is missing or closed raises where it is used.
* **SleepMode.** The POST to the engine, the status read back, the label patch and
  the event it causes are separate steps of concurrent admin requests. `unseen` is
  history: the engine changed after the last event of its pod.
* **ExternalProviders.** Registration, validation, requests with retries, close. A
  configuration is a sequence of providers with models and aliases. An attempt may
  go on for ever (`AttemptHangs`): the session has no total timeout.
* **PodDiscovery.** The watcher is cut where another actor can run. `OpenStream`
  lists the pods afresh; this, the loss of unread events with a broken stream and
  the life of a pod are external assumptions.
* **ServiceNameDiscovery, StaticDiscovery, EngineScraper** are composed in
  **EngineThreads** with the shutdown of `lifespan`.
* **DynamicConfig.** Values in `Broken` raise when applied. Each step of
  `reconfigure_all` is an action, so startup and shutdown interleave with it. The
  monitor task of a cache router may fail (`MonitorFails`); its `close()` then raises.
* **PrefixRouter.** A prompt is its sequence of chunk hashes, the trie a function
  from paths to endpoints. **RoutingLogics** extends it with the other logics; a
  decision awaits nothing and is one step. A session's place on the hash ring is a
  preference order over the endpoints.
* **CacheRouters.** Cut at the awaits of a lookup and of the refresh of the map of
  instance ids; engines restart under fresh ids. The controller forgets an engine
  that is silent too long and is told of it again under the same id; a refresh that
  asks in between enters the key `None` (0). The load weight `beta` is a fraction, a
  pair of a numerator and a denominator.
* **SemanticCache.** A conversation is a number and similarity a distance; a request
  may set its own threshold, and one without text is not looked up. The two files are
  written one after the other, and each write may fail or be cut off.
* **LoraAdapters.** `Reconcile` for one object, cut at every call to a pod or to the
  API server. `current` says whether the controller's copy is still the latest,
  which is what decides about a conflict. `path` says whether the adapter has a path,
  can be downloaded, or is an error each time (`discoverAdapter`). A call to a pod may
  fail, with or without effect, or never return (`CallHangs`).

`MCRequestPaths`, `MCCaches` and `MCControlPlane` put parts that share nothing into
one run: a variable set at the start selects the part a behaviour is of, and the
fairness of the others is conditional on it. Definitions with a suffix, such as
`Remaining_ignores_errors`, are plausible mistakes that a property is shown to
catch; no specification uses them.

## The runs

| Run | Instance | What it shows |
|---|---|---|
| `stats` | 2 engines, 2 attempts, clock 0..2, window 1 | gauges, counts and windows are exact whatever the order of calls; implements `AttemptLedger` |
| `lifecycle` | 2 requests, 3 engines, 1 reroute, 2 chunks | live records are the open generators; no backend is repeated; a 502 means exhaustion |
| `lifecycle_live` | 1 request, 3 engines, 2 reroutes | a routed request is answered |
| `paths` | 2 uploads, or 2 disaggregated requests, or 3 admins and a restart, or 2 external requests under 6 configurations | which exits leak, which answers are truthful, when the table knows who sleeps and which changes it is told of, which model a provider is sent, and that retries alone cannot hold an external request |
| `sleep_stale` (violation) | 3 admins, 1 engine | a sleeping engine stays routable |
| `pods` | 2 pods, 2 changes, 1 fault | the table is the set of ready pods, up to those missed or refused; a pod that stays ready is listed |
| `pods_close` (violation) | 1 pod | shutdown can block for ever |
| `engines` | 1 service or 2 backends, 2 scraped engines | tables and statistics are those of the last round; a thread told to stop winds down; shutdown ends |
| `control` | 3 routers of which one has a monitor, broken values, 1 edit, 1 fault; or 2 pods, 2 moves, 1 edit, 1 failing call, any call that hangs | the configuration is in effect whole, and what is left of it when a step raised or startup overlapped; deletion unloads an adapter, the router is told of it, placement converges |
| `config_revert` (violation) | 2 discoveries, 1 broken router | an undone bad edit leaves half of it in effect |
| `routing` | 3 endpoints, 2 sessions, 5 decisions; prompts of 2 chunks | balance of fleets and of roles, stickiness; the longest holder is chosen |
| `caches` | 3 requests over 2 engines and 3 ids, 1 controller timeout, `beta` 1/4; or 3 chats, 1 crash, 1 failing write | warm engines are credited with what they hold, no placement is beaten on match and load; hits belong to their conversation and model |

The bounds: two attempts let one be finalised while another is live; a clock of 2
outruns a window of 1, boundary included; three engines and one reroute leave a
candidate over when the budget is spent; two changes cover the loss of a deletion
and a pod that becomes ready; one edit on top of a file that already differs from the
command line gives two reconfigurations, so a bad one and the one after it; two pods
and one replica make a placement move when the first pod returns; three ids are two engines
and a restart of one of them, and one timeout lets the controller forget either; a
weight of 1/4 lets a longer match outweigh a load; one crash and
one failing write reach every state of the two files. Every bound is a named
constant in a guard.

Deadlock is not checked where the process may be closed (`pods`, `pods_close`,
`config_revert`, `control`) or a bound on requests ends a behaviour (`routing`,
`caches`).

### Fairness

* Requests (`lifecycle_live`, `paths`): the loop runs what is ready; the timeouts the
  code sets fire. Nothing is assumed of clients. The sessions of external providers
  have a connect and a read timeout but no total one, so an attempt whose answer
  trickles in may last for ever: it is taken to end *or* to be such an attempt
  (`hung`), and `ExternalAnswered` shows that the retries add nothing to that.
* Discovery and scraper threads are scheduled, and a watch stream ends.
* Configuration: both threads are scheduled; nothing says the process is stopped.
* LoRA: passes are repeated (`RequeueAfter`, or backoff after an error). Calls need not
  return, since the HTTP client has no timeout: a step is taken or the call hangs, and
  `Converges` sets such a worker aside. An adapter that can never be found is set
  aside too; the pass then fails every time, as `discoverAdapter` says.

## Findings

With a run:

* `close()` of pod discovery joins the watcher on the loop that the watcher may be
  waiting for (`pods_close`).
* A rejected configuration, once undone in the file, stays half in effect
  (`config_revert`).
* A sleeping engine whose label patch is refused, or changes nothing, is routed to
  as before (`sleep_stale`). Two overlapping requests are enough: the later patch may
  leave the label as it is, and then no event follows.

Noted without a run:

* A streamed upload whose response is never iterated is never retired;
  `LeaksOnlyUniterated` shows that it is the only such exit.
* A pod deleted between two watch streams stays in the table; `TableExact` allows
  for exactly the pods so missed.
* `StaticServiceDiscovery.close` with health checks always waits its 15 s, because the
  coroutine it waits for stops the loop that would deliver the result.
* When the monitor task of a KV-aware or load-aware router has failed, `close()` raises
  its exception: `cleanup_routing_logic` leaves that router and those after it in the
  registry, and no later reconfiguration gets past that step. `ValidEditApplied`
  leaves such processes aside.
* A refresh that asks about an engine the controller has forgotten for the moment
  enters the key `None` for its url; the url then counts as mapped, and the engine
  scores as cold until it has a fresh id (`missed` in `WarmCredited`).
* The refresh gate of the load-aware router stays open for an id that no candidate
  answers to: each such request asks every endpoint.
* External providers: a name given to two models of one provider is indexed as the
  last and sent as the first, so that a model the provider does not offer can be sent;
  of two configurations with one provider name the earlier adapter is neither
  validated nor closed. `RoutedToOffered` and `SessionsClosed` leave these aside.
* Semantic cache: the status is not looked at, so an engine's error is stored and
  later served as a success; only the nearest entry is looked at, so one of another
  model hides a match; a streaming request that hits gets a plain response; a save
  cut between its files can mix up or break later lookups (`interrupted`).
* LoRA: `replicas: 0`, which the type allows, is taken for a lack of ready pods, so the
  adapter stays loaded (`Converges` leaves it aside); a pod event that fails is not
  repeated (`owed`); pods that are unready or unreachable on deletion keep the
  adapter (`skipped`); after a change of the adapter name the old one stays loaded.
* `get_request_stats` says the TTFT is -1 while no request has finished in the window,
  but the sample is taken at the first token.
* The watcher starts before the router is built, as `docs/fork-maintenance.md` says;
  for processes where a reconfiguration overlapped startup `AppliedWhole` promises
  only the discovery, and one of two routers; `ValidEditApplied` leaves them aside.

## What is proved

Every safety property that a run checks is also a theorem about the specification of
its component, for any sets of engines, requests, pods and so on and for any bounds.
Each rests on an inductive invariant, named below with what it adds; the proofs take
the actions one by one, with frame lemmas for what an action leaves alone. The assumptions are on constants only: bounds are numbers, "no value" is not a
value, and fleets are finite where the code counts or sorts them.

**`RequestStatsProofs`**, from `StatsAssumption`: `TypeCorrect`, `CountsExact`,
`FinishedCount`, `OutcomesFinal`, `LedgerRefinement`, `WindowsExact`. The counts are
not inductive alone: that a decrement is right needs the record popped to be the one
counted. `LedgerInv` adds `LedgerLinked`, which ties each record to the history of its
handle; lemmas on cardinality turn the move of one handle into plus or minus one.
For the windows `WindowInv` adds that a monitor holds samples of its engine's attempts
only and all recent ones (`QpsKept`, `TtftKept`): sliding drops old samples only.

**`LifecycleProofs`**, from `StatsAssumption` and `LifecycleAssumption`: `LedgerTracks`,
`FailoverDistinct`, `BadGatewayExhausts`, `TimeoutIsLast`, `FinishedDelivered`. `LifeInv`
extends `LedgerInv` with a one-to-one match of open generators and live records
(`Tracked`), where the failover loop stands (`FailoverOK`), and as many completed
attempts as delivered bodies (`DeliveredOK`). Each step of a request is one of four
moves on the ledger: none, begin, first token, retire; the rest is per request.
The same four moves are steps of `RequestStats` on a handle that was given out
(`RequestsDriveMonitor`), so what is proved of the monitor alone holds under the
router's traffic, and the router implements `AttemptLedger` (`RequestsKeepLedger`).
`FailoverEnds` and `AnswerInBudget` are the part of `Answered` that needs no fairness:
`Left` bounds the steps before a response, 2 `max_attempts` + 3 at first; every step of
the request lowers it, no other step raises it, and it is zero just when the response
has started.

**`RequestPathsProofs`**: `AnswersTruthful` (no assumption), from what a stage says
about the answer so far; `SleepSettles` and `SleepAnnounced` (`SleepersAssumption`). The
first, about every engine that was not changed behind the last event, rests on the last
event in the queue being that of a ready pod and on the table telling what the engine
does once it is read (`LastReady`, `TableTells`); the second, about engines on which
nothing overlapped or failed, on the label telling what the engine does but for a
request that has not patched it yet (`Calm`, `LabelTells`). `RoutedOffered` and `CloseClosesSessions`
(`ConfigurationsAssumption`: providers and models are listed), from the index leading
to adapters that have the name (`IndexOK`); `UploadsLeakOnlyUniterated`
(`StatsAssumption`), from every upload having a record of its own (`HeldApart`), and
from the same invariant `UploadsDriveMonitor`. `RetriesExact` and `RetriesRunOut`
(`RetriesAssumption`: the number of retries is not negative) hold of every
configuration, ambiguous ones included: an external request is given up after exactly
`max_retries` + 1 attempts, and each attempt that ends settles it or uses one up.

**`PodDiscoveryProofs`**, from `PodsAssumption`: `TableFollowsCluster`,
`ModelsStayKnown`, `SessionsForAll`. The first is about a watcher that has read all
events; the invariant is about the queue: the last event of a pod says how the pod is
(`LastIsTrue`), an ADDED event never takes an engine out (`AddedIsNew`), and the table
is right about the pods with nothing to come (`TableRight`).

**`EngineThreadsProofs`**, from `ServicesAssumption` and `ScraperAssumption`:
`ServiceTable`, `HealthOffered`, `StatisticsRecent`. The watcher's
invariant is that of pod discovery with one difference, that readiness is asked when
an event is read, so a deletion must be followed by a later event if the service is
there again (`DeletionsSuperseded`). Health checks and scraper need what the round in
progress found so far. `ShutdownJoins`: whoever `lifespan` waits for was told to stop,
and nothing it closes runs once it is through (when `shutdown` is done the coroutine
is over). `ThreadsWindDown` proves `WindsDown`, the order along which `ShutdownEnds` holds: a
thread told to stop only goes from scraping or checking to sleeping, between rounds and over, and a
watcher opens no stream after the one it has or is opening.

**`ControlPlaneProofs`**: `FinalizerHolds`, `DeletionUnloads`, `RouterIsTold`, from
`LoraAssumption` (pods are numbers). `LoraInv` adds where the finalizer is known to be
there (`Guarded`), that the pod whose event is due is still to be done (`Pending`), and
that on deletion each pod with the adapter was passed over or is still to be done
(`Covered`). `ConfigApplied`, `DiscoveryAlone`, from `ConfigAssumption`: `ConfigInv` has
what startup and a reconfiguration have installed so far, when they are apart
(`StartupAlone`, `AppliedSoFar`) and when they overlap (`Built`: which routers can be in
the registry at each step), and which instances of discovery may be open, with one
forgotten at most for each close that raised (`Instances`).

**`RoutingProofs`**, from `PrefixAssumption` and `LogicsAssumption` (urls are numbers,
for their sorted order): `TrieExact`, `LongestHolder`, `Affinity`: who was sent a prompt
with the first m chunks is on each of the first m nodes (`HolderOnPath`), and endpoints
never come back along a walk (`OnPathShrinks`). `RotationEven`, `RolesEven`: the rank of
an endpoint in the sorted list numbers the set without gaps, so what an endpoint had,
less the one of the round under way (`FullRounds`), is the same for all but for
restarts. `SessionsStick`: a session is pinned to the first node of its last set.
`LogicsRunPrefixRouter`: the composition takes only steps of `PrefixRouter` on the trie.

**`CacheProofs`**: `LookupsSound`, `StoresAligned`, without assumptions, for any number
of crashes and failing writes: `SemInv` adds that the two files belong together except
while a save is between them (`FilesPaired`). `WarmIsCredited`, from `CacheAssumption`:
ids were entered in the map for their own url in the order of their registration
(`MapOK`), so a live id in the map is the one its url resolves to (`Resolves`), and a
candidate asked by a refresh is mapped unless it restarted since (`RequestOK`), in which
case the lookup cannot have named its new id. An engine a refresh asked about while
the controller had forgotten it is not spoken of (`missed`). `PlacementUndominated` is
about any weight that is not negative: with weight zero, which the parser accepts, load
does not count, and of two candidates with equal matches the first url wins however
loaded it is, so that only the match is promised to be the best.

`TypeCorrect`, `TrieExact`, `Affinity`, `FinalizerHolds` and `StoresAligned` state
definitions that no run lists, and so do `FailoverEnds`, `AnswerInBudget`,
`RetriesExact`, `RetriesRunOut` and `ShutdownJoins`, whose definitions stand beside
their proofs. `LogicsRunPrefixRouter`, `RequestsDriveMonitor` and
`UploadsDriveMonitor` state a specification.

Only model-checked: `Answered`, `ExternalAnswered`, `EngineDiscovered`, `ShutdownEnds`,
`ValidEditApplied` and `Converges`. They are liveness under fairness, which the prover
does not reach; for the first, the second and the fourth the decreasing measure is
proved, and what is left to TLC is that fairness makes its steps happen. The runs compose independent parts with a selector variable; the
theorems are about the parts, which a composed behaviour runs one of.

## Not modelled

* Batch API and files: `local_processor.py` imports `vllm_router.batch.batch`, which
  the repository does not have, so that a router with the batch API enabled ends at
  that import and no behaviour of the queue can be reached.
* The runtime, router and cache-server controllers: create-or-update of objects built
  from a spec. Their reconciliations have not been modelled.
* In `LoraAdapters`: a change of the adapter name or base model, pods that do not
  share the adapter's files, and reads from a stale cache of the API client.
* Payload rewriting, headers, tracing, logging, metrics text, PII detection, feature
  gates, argument parsing: filters on one request, or output. The parsing of scraped
  metrics and of a health check's answer are inputs of their modules.
* Modelled, but not the subject of a property: which outcome is booked for an upload
  that fails to parse, that an upload or an orchestrated request ends (their total
  timeouts are modelled as steps, without fairness), the growth of the trie and of the priority
  router's indexes, the latency window that is not slid by its reader, statistics
  that a reroute reads before its first attempt, and the end of a deletion.
* Figures computed from samples, and real arithmetic in general.
