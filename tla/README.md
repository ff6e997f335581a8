# Sicky in TLA+

Formal models of [sicky](../src/README.md), a Go framework for micro-services,
the TLC configurations that check them and the TLAPS proofs about them. The
models are translated from the code; line numbers refer to `src/` and
`PROJECT.json` ("map") ties every definition to the lines it stands for.

Check one configuration with `tlc -config X.cfg M`, a proof module with
`tlapm M.tla`. `PROJECT.json` lists every run with its module.

## 1. The system

A program that uses sicky configures servers, brokers, jobs and registries,
puts them into services and calls `sicky.Run`. Run brings everything up,
announces the services in a registry, waits for a signal and takes everything
down again. Every process keeps a *pool*: its view of all instances that all
processes have announced.

| Component | State it keeps | Operations | Interacts with |
|---|---|---|---|
| `sicky.go` Run | section of Run, `MustInfra/Broker/Registry`, ticker | Run, Init, wrappers | everything below, by calls |
| `registry/pool.go` | `currentPool` behind a lock | InitPool, PurgePool, GetPool, public mutators | refilled by the watcher and the purge ticker, read by the manager and by clients |
| `registry/registry.go` | default registry | helpers that call it or do nothing | Run, backends |
| `registry/redis` | a hash and a pub/sub channel in redis | Register, Deregister, Load, Watch, Stop | other processes through redis |
| `registry/local` | a directory of JSON files, inotify | the same | other processes of the host |
| `registry/consul` | agent services and a watch plan | the same | other processes through consul |
| `server/{tcp,udp,http,grpc,fiber,websocket}` | `running`, wait group, listener, serving goroutine | Start, Stop, Running | service, library, handlers |
| `server/{tcp,udp,websocket}/session.go` | pool of sessions | Put, Get…, Remove… | serving goroutines, handlers |
| `runner/static` | a channel of tasks, worker goroutines | Start, Stop, Task | callers of any goroutine |
| `service/standard` | lists of servers, brokers, jobs | Start, Stop | Run above, servers below |
| `broker/{nats,jetstream,nsq}` | connection, subscriptions | Connect, Disconnect, Publish, Subscribe, Unsubscribe | library callbacks |
| `job/{ticker,cron}` | tasks and their goroutines | Add, Start, Stop | service |
| `client/*` | connection | Connect, Disconnect, Call | servers |
| `manager.go` | an HTTP server of its own | Start, Stop, handlers | pool, configuration |
| `infra`, `tracer`, `metrics`, `logger`, `utils` | handles of third-party clients | constructors, helpers | Run |

The behaviours that are hard here: two goroutines refill the pool with loads
that overlap each other and the changes of other processes, while helpers
change it and readers walk over it without a lock; notifications are lost;
entries outlive processes that die; Run has nine ways to end; the runner, the
brokers, the sessions and the clients are called from several goroutines, with and
without locks; goroutines outlive the Stop of what started them; a request's
identifiers live in buffers that the next request uses again.
`PROJECT.json` ("hazards") lists them line by line.

What makes each component correct:

- pool and registries: a pool may be late, but it never shows something that
  was not registered, never misses something that was there all the time, and
  comes to equal the store; a process that stops cleanly leaves no entry; who
  walks over a pool sees it whole;
- Run: what services need is up before the first one starts and until the last
  one stops, an entry stands only for a service that serves, a request to stop
  ends Run, and nil means that what Run has opened is closed, but for what its
  registry holds (see AppRun below);
- services: of a standard service all or nothing serves; the exit command of an
  interactive one ends the application;
- servers: generations never overlap, a stopped server has no goroutine and no
  open listener, Stop returns, and what they announce is where they listen (not so
  the metadata of a tcp or udp server whose port the system chooses);
- sessions: a session is found by its key while it is in the pool and by none
  afterwards; a websocket session leaves the pool when its client goes, a tcp or
  udp session when the application closes it and never otherwise;
- clients: a connection is closed or held by the client that says it has one;
- runner: no task is lost, repeated or reordered by the channel, a task that
  was sent runs, and only a call that races Stop may hang or panic;
- ticker job: every task runs once at each count that is due, across restarts;
- brokers: what delivers messages is what the map of subscriptions says, across
  reconnects, and nothing does after Disconnect;
- middleware: a log line shows identifiers of its own request, the logs of two
  servers fit together, an error is handled once, a span is closed with its request
  and then exported, if the sampler keeps it, the queue has room and no export fails.

## 2. Modules

```
PoolOps ─┬─ RegistryPool ─┬─ RegistryRedis ─┬─ MCRegistryRedis
         │                │                 └─ RegistryRedis_proofs
         │                ├─ RegistryConsul ─┬─ MCRegistryConsul
         │                │                  └─ RegistryConsul_proofs
         │                └─ RegistryLocal ─┬─ MCLocalPool
         ├─ PoolUse ────────────────────────┴─ LocalPool_proofs
         └─ RegistryView  (abstract; the three backends implement it)

AppRun ───────────────────────────┐
Services ─────────────────────────┼─ MCApplication, Application_proofs
ServerLifecycle ── ServerAddresses┘

StaticRunner ─┬─ MCBackground,       Brokers ────────────┬─ MCBrokersRequests,
TickerJob ────┘  Background_proofs   Tracers ── Requests ┘  BrokersRequests_proofs

SocketWire ─┬─ SocketSessions ─┬─ Sockets ── MCSockets, Sockets_proofs
            └─ SocketClient ───┘
WsSessions ── WsSessions_proofs
```

Components that act on each other are composed: processes, their pools and the
store (the registries), Run with what it starts and stops (AppRun, where a service
is up, down or partly up), a server's life and its addresses (ServerAddresses
conjoins every action of ServerLifecycle with what it does to them), client
and server (Sockets: a dial is an arrival), tracers and requests. MCApplication,
MCBackground, MCBrokersRequests and MCLocalPool each check several modules that
share no state in one run: a variable `part`, chosen in the initial state, says
which of them moves, and the others stay in one initial state. So the run has the
states of one module plus those of the others, not their product, and each
property is checked on the behaviours of its own module. MCBrokersRequests has two
instances of Requests: two requests of which the sampler keeps no span, for the
identifiers and logs, and one with all that can happen to its three spans. The outcomes that one
module takes from another are the ones that the other has (a service that starts,
does not, or does in part; a Start or Stop that returns an error).

**PoolOps** is the value of a pool, a function from the names it knows to sets
of instances, and `PurgePool`. An instance is an element of `Instances`; what
it is made of (addresses, metadata, servers) matters to nobody here. Its ID is
a fresh UUID per process run, hence an instance is registered at most once.

**RegistryPool** is what every backend shares: the pool of each process, its
two refilling goroutines ("watch", the backend's watcher; "tick", the purge
ticker of `sicky.go` 433-455), and the part of Run around them. A refill takes
three steps, as in the code: it is begun by a message or a tick, Load reads the
store, `PurgePool` swaps the pool. `lpc` is the step, `snap` what Load has
returned, `kept` and `seen` are history: the instances that were registered
during all of the refill, and at some time during it. Only the pools of
`Observers` are refilled; two pools share nothing but the store, so one
observer suffices for every property and other processes are there to change
the store. A process may end at any point (`Crash`) and come back with
instances of its own that were not used before; `MaxMishaps` bounds that.

**RegistryRedis** adds `registry/redis/redis.go`. `entries` is the hash,
`mail` counts the messages in a watcher's channel (content does not matter:
every message makes it load). Register and Deregister are two steps, the
change of the hash and the publish. A publish reaches any subset of the
subscribers that have room: pub/sub promises nothing. A failed call may have
reached redis or not. `rg.Stop` cancels a context that nothing waits for, so
the watcher runs on until the process ends (`Receive` in phase "stopped").

**RegistryLocal** adds `registry/local/local.go`. `file` is "none", "partial"
(created and empty, or half written) or "full". `events` counts queued inotify
events, one per change. Load lists the directory (`ReadDir`) and then reads the
files one by one (`ReadFile`), so other processes write and remove in between.
A file operation that fails other than by a missing file is a mishap, like a
crash, and counts towards `MaxMishaps`; for a refill that cannot read a file its
instance counts as not registered (`SkipFile`). A `partial` file left by a failed
write or a crash stays.

**RegistryConsul** adds `registry/consul`. `agent` is what the agent knows, `last`
what the one watch plan of a process has seen last, `fetched` the catalog a run
of the plan has got and not compared yet. The plan runs twice ("early", from
`rgConsulIns.Watch` in `sicky.go` 412, before InitPool, and "watch"), both
runs share `last`, and so a change wakes either or both. Stop ends the plan,
unlike the other backends' watchers.

**RegistryView** is the abstract specification: a view is replaced as a whole
by a set between `kept` and `seen`. Registers read by several fillers that may
overlap: a view may go back in time, but not beyond its refill. All three
backends implement it (`ImplementsView`); a file that local cannot read is a `Miss`.

**PoolUse** is the pool inside one process: `pools` are the pools made, `cur` is
`currentPool`, `lock` who holds `poolLock`. Refillers call PurgePool, whose print
after SetPool walks over the new pool; helpers (RegisterService,
RegisterInstance, UnregisterInstance and the like) look at `currentPool` and change it
under the lock; clients are requests of the manager's pool handler and callers of
GetInstances, which walk without a lock. A walk takes a step for the map of
services and one for each map of instances; `touched` remembers that a helper has
changed the pool under it, and the Go runtime may (`dead'` is a choice) notice.

**AppRun** is `sicky.Run`, one step per section or loop iteration, with the
configuration chosen in `Init`. `svc` says what is left of a service ("partial":
its Start or Stop failed in the middle), `listed` which of them the registry
shows, `undropped` those whose Deregister failed. `cause` remembers why Run
ended. A fatal log exits the process, a service that fails to start or stop
makes Run return its error at once, everything else is logged. A signal before
`signal.Notify` kills the process (`EarlySignal`). `watchers` are the registries whose
watchers run, `kept` the other things the registries hold: the client of redis and
the goroutine of the purge ticker. Run never closes that client, not even of a redis
that did not answer. Stop of redis cancels a context it has just made, and Stop of
local does nothing, although `registry.go` 60 says "Stop registry watcher" of it; only
consul's ends its plan. A `time.Ticker` that is stopped
leaves its channel open, so the goroutine that ranges over it stays. When Run returns
nil these are left, and `NilMeansReleased` says that they are all.

**Services** is one service under Run: the loops of Start and Stop of
`service/standard`, with errors of any server or broker and Run's answer to them;
the loop over the terminal of `service/interactive`, which sends the process a
signal, is its `reader`. `leaked` are connections that a jetstream broker has
dialled and forgotten. What a service is given as jobs it keeps and nothing starts.

**StaticRunner** is `runner/static/static.go`. Every look at the unlocked field
`r.task` is a step. A build may read the field once or twice in Task, and both
are allowed. A channel read is coherent: a look sees the latest write (the
field is one word).

**TickerJob** is `job/ticker/ticker.go`. A `loop` is a goroutine that Start has
spawned; it takes `job.ticker` when it first runs, reads the slice of tasks at a
tick and the counter twice for each task. An Add may be half done as it reads
(`adding`: the length of the slice is written before the task). An interval of
zero makes the goroutine panic and ends the process.

**ServerLifecycle** is Start and Stop of the six servers and of the manager,
whose code is the same but for the places its head comment names; `kind` is chosen
in `Init`. Start is one step, as all of it is under the mutex. Stop is two: what it
does to the listener, and the return of `wg.Wait`; the mutex is held between.
`lis` and `serve` are per generation (call of Start past the guard).
The libraries' part is modelled from how the code uses them: closing a listener
makes Accept return, a server that is shut down closes the listeners it serves
and, for net/http and grpc, refuses to serve again. Waiting for open requests
in Shutdown and GracefulStop is not modelled: handlers are taken to return.

**ServerAddresses** adds the ports: the one configured (`asked`, 0 lets the system
choose), those of `srv.addr` and `srv.advertiseAddr`, the one in the metadata and
the one in the registry entry that `sicky.go` 190-215 makes. Other processes take
and leave ports (`foreign`). The tcp and udp servers write their metadata before they
listen (`tcp.go` 220, `udp.go` 156), the others after: with a configured port 0 their
metadata says 0 after the first Start, which `MetadataIsListened` excepts.

**SocketWire**, **SocketSessions**, **SocketClient** and **Sockets** are
`server/tcp`, `server/udp`, `client/tcp` and `client/udp`; `kind` is chosen in the
initial state. On the server, `acc` is the accept or receive loop, `about` the
connection each session was made for, `inPool` the maps, `reader` and `closer` the
steps of the goroutines that read and close; `polite` says whether the
application's OnClose closes the session, as nothing else does. The client's
fields are read and written without a lock, a step each (`cpc`). `overlapped` is the
history that says two calls met.

**WsSessions** is `server/websocket/session.go` with the operator of
`websocket.go`. `phase` is how far a session's operator is, `key` and `pooled` are
`s.Key` and `s.pool`; `listed`, `conns` and `keys` are the three maps, which Put and the
Remove functions change one after the other, each in a step of its own. `lock` is the
pool's: Put holds it for its three steps, SetKey for the delete of the old key, Purge and
Foreach while they visit the sessions one by one (`idle`). Everything else, most of all
the Remove functions, works without it. So a call may return early because another one
is half done, and two goroutines may be at one map. If one of them changes it, the Go
runtime may notice, which is best effort, and end the process: `MapFault`, with Put and
the ranges of Purge and Foreach among the steps, and `GetFault` for the Get
functions. A panic of an operator is recovered by the websocket library, and if it was in
SetKey the lock stays held (`Jammed`); one of `Admin` ends the process. `raced`, `crossed`
and `had` are histories that the properties need to say when something may go wrong.
`Callers` and `MaxCalls` bound the calls of the application.

**Brokers** is `broker/nats`, `jetstream` and `nsq`; `kind` is chosen in `Init`.
`net` are the connections made so far, `made` the subscriptions, `live` those that
the library still delivers messages of, `subs` is the map. A call of Subscribe is
the steps `Admit`, `MakeSub` and `Record`, a call of Unsubscribe is `Unmake` and
`Forget`, and Connect and Disconnect are loops over such calls. What Unsubscribe does
ends the delivery of nats and jetstream; a consumer of nsq is only told to stop and not
waited for (`nsq.go` 291): it is `draining`, goes on with what is in flight, also after its
entry has left the map and beside a successor, and is through with it some time
(`Drained`). The broker of nats or
jetstream may lose its connection, get it back, or lose it for good
(`NetChanges`). The first step of Subscribe, with its several looks at
`brk.conn`, is one step here; the same looks of Publish are two. Subscriptions of
jetstream are taken to outlive an outage of the connection, though the server may
delete an ephemeral consumer meanwhile. Publish of nsq with a nil message panics by
itself, and `DisconnectIsSafe` speaks of nats and jetstream.

**Tracers** is `tracer`: the first tracer that comes up is the default one, servers and
clients ask for it once (`captured`). The provider's sampler keeps a span or leaves it
out, at random for a ratio, when it starts (`Starts`); one that is left out is "none" and
nothing can happen to it. A span that was kept is open, then waits in the queue of its
batcher, which has room for `QueueSize`, and is exported or not: it finds the queue full
("crowded"), its provider was shut down before ("late"), or the export fails ("lost", with
`refused`), also one in a Stop that returns nil, as the library tells only its error
handler; or the process ends, or Stop has run out of time (`tracer` "broken"). The
exporters and the batcher are third-party code, modelled from how
`tracer/{grpc,http,stdout}` set them up and stop them. That a span which is left out goes
on as a not-sampled context, with the same identifiers, matters to no property here.

**Requests** is one request after and beside another through the middleware of
`server/fiber` in its order (`Chain`), a handler that calls a gRPC server through
`client/grpc`, from its own goroutine or from one it leaves behind (`Fork`), and
the interceptors of `server/grpc`. An identifier is the caller's or one that the
server made, for a request; `Header` is a string that points into a buffer of
fiber's context, `holds` says whose headers that buffer has now. `lines` is the
history of all access logs. The requests are those that reach their handler: a CORS
preflight is answered before the access logger.

## 3. Runs

| Run | Module, configuration | States | Shows |
|---|---|---|---|
| `redis` | MCRegistryRedis | 0.75 M | `CacheIsSound`, `CleanStopLeavesNothing`, `ImplementsView`, `Converges` |
| `local_pool` | MCLocalPool | 1.6 M | `RefillsAreSound`, `ImplementsView` (RegistryLocal); `ReadersAreSafe`, `RetiredIsFrozen` (PoolUse) |
| `consul` | MCRegistryConsul | 0.2 M | `Converges`, `StopEndsRefills`, `ImplementsView` |
| `application` | MCApplication | 0.41 M | `DependenciesOutliveServices`, `EntriesAreServed`, `NilMeansReleased`, `StopEnds` (AppRun); `AllOrNothing`, `ExitEnds` (Services); `ServingAddsUp`, `StopReturns`, `AddressesLead` (servers, manager) |
| `background` | MCBackground | 0.25 M | `EachRunsOnce`, `LostOnlyInRace`, `SentRuns`, `WorkersEnd` (StaticRunner); `CallsAreExact`, `StoppedTakesNothing` (TickerJob) |
| `ws_sessions` | WsSessions, MCWsSessions.cfg | 0.4 M | `KeysLead`, `EndsWell`, `GoneAreUnlisted` |
| `sockets` | MCSockets | 0.5 M | `OnlyCloseDelists`, `PoliteLeavesNothing`, `StoppedAcceptsNothing` (server); `LeaksOnlyInRace` (client) |
| `brokers_requests` | MCBrokersRequests | 0.81 M | `LiveIsRecorded`, `DeadHadItsConnectionClosed`, `DisconnectIsSafe` (Brokers); `IdsAreOwn`, `LogsChain`, `HandledOnce`, `SpansAreKept` (Requests) |
| `app_run_registry` | AppRun, MCAppRunRegistry.cfg | – | `RequiredRegistryIsThere` is violated |
| `server_stop_hangs` | ServerLifecycle, MCServerStopHangs.cfg | – | `StopAlwaysReturns` is violated |
| `brokers_stale` | Brokers, MCBrokersStale.cfg | – | `AlreadySubscribed` is violated |
| `brokers_nsq` | Brokers, MCBrokersNsq.cfg | – | `MessagesAreHandled` is violated |

A property that is a conjunction has its parts by name in the module, each with
its own comment (`CacheIsSound` is `LoadIsRegular` and `PoolSound`, and so on).
Every module states a type invariant. Those that are proved are listed in the next
section; the others document the state and are what `tlc` can be given in addition
when a module is changed.

Bounds and why they are enough:

- Registries: two processes, one observer, and instances that appear, vanish and
  come back with a restart. The observer's watcher and ticker overlap, with
  changes by its own process and by another one; a second crash or failing
  file operation, or a third instance, repeats the same steps. `MaxMail = 1` makes
  the channel full at once, so that a message is dropped for want of room as well
  as lost on the way. For consul one instance suffices: it comes and goes while three
  goroutines refill, and what could be wrong with two is wrong with one.
- PoolUse: two helpers (one may be left behind by InitPool while another works on
  the new pool), one refiller, one client and two pools: enough for a pool to be
  replaced while somebody changes it and somebody else walks over it; two calls.
- AppRun: two services (one that has started while the other fails), two
  infrastructure clients of which one (S3) is not closed, all three registries
  (they differ in how they fail), one broker, every subset of them required.
- Services: two servers and two brokers, of which one leaks, so that each loop can
  fail in the middle; two handlers and two lines of input.
- Servers and addresses: two callers, three generations (one that fails or is
  stopped, one after it, one after that), two ports, so that another process can
  have the one the server wants. The violated property has four.
- StaticRunner: three tasks over one place of buffer and two workers, so that a
  task is in a handler, one is buffered and one blocks; two Stops race each
  other. The two workers come from two calls of Start; Start does not look
  whether the runner runs.
- TickerJob: two tasks with intervals of zero, one and two, a restart (two
  tickers), three ticks: a count that is due for one task and not for the other, an
  Add between two ticks, and a goroutine of the first ticker that meets the second.
- WsSessions: two sessions that can take the key from each other, the empty key. Calls
  are made by the handlers of one session and by Admin, two in all; not counted are
  Purge, Foreach and what they close, and Leave. The other session comes and leaves at any
  time: Put and Close of an operator meet each call of the others, at every step of it.
  Handlers of two sessions that both call are left to the proofs, which cover the safety of
  any number of sessions, callers and calls.
- Sockets: two connections, two sessions, two callers of the client, two datagrams
  of each peer. MCSockets takes the product apart: either one goroutine calls the
  client and the server does all it can, or two do and the server accepts nothing;
  what the calls of two goroutines do to the client does not depend on the server.
- Brokers: two goroutines, two topics, two connections (before and after a
  reconnect), three subscriptions (two at once and one more; two of nsq, a consumer that
  drains and the one that follows it). Once two calls
  have overlapped they are followed to their end and no new ones begin: the properties
  promise little after a race but what the race itself does.
- Requests: two requests in two contexts, so that they overlap or the second one
  has the buffers of the first; one sends all headers and the other a trace without
  a span. One tracer, which may come up before or after a server is made. Of the three
  spans of one request the queue has room for two, so that it can be full.

The runs switch the deadlock check off: a process that has stopped, a runner
whose process panicked and a server that nobody calls any more stay as they are.
Symmetry is used only in `brokers_requests`, which has no liveness property: of the
callers and topics of a broker, which it tells apart by nothing, and of fiber's contexts.

### Fairness

- Registries: the runtime goes on firing a ticker that is
  not stopped and running a goroutine that is ready, hence weak fairness of the
  tick, of the plan's handler (consul) and of PurgePool. Load may fail, and strong
  fairness of `HGetAll` and `AgentServices` says that not every Load fails from some
  point on; without it no pool could ever converge. No fairness is assumed of
  messages or of the plan's queries.
- `AppRun`, `Services`: Run and the loop over the terminal are sequential, and go on
  as long as the calls they make return. Weak fairness of their steps says so; none
  of signals from outside, failures, or of somebody typing.
- `StaticRunner`: workers run, handlers return (weak), and a blocked sender is
  not passed over for ever, as the queue of senders of a Go channel is first in,
  first out (strong).
- `ServerLifecycle`, `ServerAddresses`: the serving goroutine runs and `wg.Wait`
  returns once the count is zero; that serving fails, or that somebody calls Stop,
  is not assumed.
- `WsSessions`: goroutines run, callbacks and handlers return (weak); a waiter for
  the mutex is not passed over for ever, which Go's mutex guarantees (strong).
- `Sockets`: the server's goroutines run and its handlers return; peers and the
  application close when they like, if ever.

### What the violated properties say

- `RequiredRegistryIsThere`: `sicky.go` 417-420 clears `MustRegistry` even if
  `rgRedis.New` has returned nil, so the fatal "Registry is not initialized"
  never comes, and services run that no registry knows.
- `StopAlwaysReturns`: `grpc.go` 289 (and `fiber.go` 298, `websocket.go` 264)
  returns without `wg.Done`. After a Stop, a gRPC server refuses to serve again,
  so Start, Stop, Start, Stop hangs, with the mutex held. `StopReturns` is
  what does hold; `ServingAddsUp` says what the wait group counts.
- `AlreadySubscribed`: Disconnect of nats and jetstream unsubscribes the topics of
  the handlers only (`nats.go` 147), so after a reconnect a topic that the
  application had subscribed to can never be subscribed to again.
- `MessagesAreHandled`: the nsq broker ignores the handler that Subscribe is given.

## 4. Proofs

Every safety property of the passing runs, invariant or action property, is also a
theorem, for every value of the constants that the modules' assumptions allow: any
processes, instances, services, callers, tasks, sessions, keys, topics and requests,
and any bounds on restarts, calls and messages. So are the three refinements of
RegistryView and that of ServerLifecycle by ServerAddresses.

The assumptions are named, and TLC evaluates them in the runs: a value that means
"none" is none of the things it stands in for (`NoTask`, `NoTopic`, `NoService`,
`Nobody`, `Admin`, `Nothing`, `Unmade`), a map of instances to their owner or service
is one, a set of kinds has only the kinds of the code, and bounds are natural
numbers. The code gives no occasion to doubt any of them.

| Module | Theorems (statement, unless the name of the property says it) |
|---|---|
| `RegistryRedis_proofs` | `TypeCorrect`; `LoadsAreRegular`, `PoolsAreSound`, `CachesAreSound` (`[]CacheIsSound`); `QuietRefillsAreExact`; `CleanStops` (`[]CleanStopLeavesNothing`); `Implements` (`ImplementsView`) |
| `RegistryConsul_proofs` | `TypeCorrect`; `LoadsAreRegular`; `RefillsEndWithStop` (`StopEndsRefills`); `Implements` (`ImplementsView`) |
| `LocalPool_proofs` | `LocalTypeCorrect`; `LocalRefillsAreSound` (`[]RefillsAreSound`); `LocalImplements` (`ImplementsView`); `RetiredPoolsAreFrozen` (`RetiredIsFrozen`); `WalksAreSafe` (`[]ReadersAreSafe`) |
| `Application_proofs` | `RunTypeCorrect`; `DependenciesAreKept`, `EntriesAreKept`, `NilReleasesAll` (`[]DependenciesOutliveServices`, `[]EntriesAreServed`, `[]NilMeansReleased`); `ServiceIsAllOrNothing` (`[]AllOrNothing`); `ServingCounts` (`[]ServingAddsUp`); `AddressesImplementLifecycle` (`AddressSpec => Spec`); `AddressesAlwaysLead` (`[]AddressesLead`) |
| `Background_proofs` | `TypeCorrect`; `TasksRunOnce` (`[]EachRunsOnce`); `TasksLostOnlyInRace` (`[]LostOnlyInRace`); `StoppedJobTakesNothing` (`StoppedTakesNothing`); `TicksAreExact` (`[]CallsAreExact`) |
| `WsSessions_proofs` | `TypeCorrect`; `EndedAreUnlisted`, `DiesOfCrossing`, `EndsAreGood` (`[]EndsWell`); `KeysAreRight` (`[]KeysLead`) |
| `Sockets_proofs` | `ClientLeaksOnlyInRace` (`[]LeaksOnlyInRace`); `SessionsLeaveByClose` (`[]OnlyCloseDelists`); `StoppedStaysStopped` (`StoppedAcceptsNothing`) |
| `BrokersRequests_proofs` | `BrokersTypeCorrect`; `LiveAreRecorded`, `DeadLostTheirConnection`, `DisconnectsAreSafe`; `RequestsTypeCorrect`; `IdentifiersAreOwn`, `LogsFit`, `ErrorsAreHandledOnce`, `SpansAreKeptAlways` |

Few of the properties are inductive. What each proof adds, in the words of the
modules' definitions:

- **Redis and consul.** `LoadIsRegular` speaks of refills that have loaded; a refill
  that has only begun must already know that the store lies between its histories.
  `RefillsBounded` says that for every refill in flight, `kept ⊆ store ⊆ seen`,
  and is inductive with `TypeOK`, since a change of the store updates the histories of
  all refills in the same step. A quiet refill is exact because the loaded set and the
  store are squeezed between two equal sets. For redis, `Recorded` (what is in the
  store, a snapshot or a pool was registered) and `Dropped` (an entry whose owner's
  stop loop is through failed to be removed, or its incarnation crashed) give the rest.
  `StopEndsRefills` of consul is an action property; it needs the types only: when the
  last refill in flight is through, ticker and plan have both been stopped.
- **Local.** A Load reads the files one by one, so `snap` need never have been what the
  directory held. `Refill` says: what was there all the time has been read or is still
  in `todo`, and what has been read or is to be read was there at some time. `Awake`
  says for the watcher that as long as no event waits for it, what it has read and
  still reads is what is there: an event is queued in the step that changes a file, so
  none is lost between a `ReadDir` and the end of the Load.
- **Refinements.** `registered` maps to the store, `view` to `pool`, `open` to the
  goroutines that are not idle, the histories to themselves. Writing to the store is
  `Add`, removing is `Remove`, a message or a tick is `Open`, PurgePool is `Install`
  (here the bounds above are needed), a failed Load `Abandon`, InitPool and the end of
  a process `Empty`, an unreadable file `Miss`; all other steps stutter.
- **PoolUse.** `HelperInv`: a helper inside a call holds `poolLock`, alone, and its pool is
  not retired, since SetPool waits for the lock and an old pool never becomes current
  again (`Numbered`). For the walks, `Walk` says that what a reader has still to look
  into is in its pool, as no service ever leaves a pool, and `Faithful` that what it has
  read is the pool's unless a helper has touched the pool since.
- **Run.** One invariant per kind of promise, by the section Run is in.
  `NeedsKept`: infrastructure and brokers are up once their section is through, and
  services run in the middle sections only. `EntriesKept`: entries are made in the
  start loop, of services it is through with, and dropped in the stop loop.
  `Released`: what a section of the second half has closed stays closed. `Held`: what runs
  of the registries' watchers is the default registry's, not consul's once that is
  stopped, and what they hold otherwise goes back to a registry that was configured or
  came up.
- **Services.** `ServiceIsAccounted`: in Start's loop a member is up, has an error or is
  still to come; in Stop's it is down, or up with an error, or still to come.
- **Servers.** `ServerInv`: whoever waits in Stop holds the mutex and leaves `running` on, so
  no generation starts meanwhile; the count of the wait group is the goroutines that
  serve and the ones that ended without `Done`; an open listener is served but where
  the goroutine has given up. `AddressInv` adds that a server that listens has taken the
  listener's port as its own, and what was announced since is that port, and the metadata's
  but for the excepted case (`MetadataIsPort`); its proof uses `ServerInv` through the
  refinement.
- **Runner.** `Channel`: what was sent is what was taken followed by what waits, and no
  task is in it twice, since its call has not sent before; a task at the head is
  therefore new to all workers. `TakenAreHeld` goes with the tasks in the workers' hands
  (`Holding`): a worker lets go of one only by having run it. `StopOrder`: the field is
  cleared only by a Stop that closed the channel before, and whoever is in the middle of
  a call then has met it.
- **Ticker.** `Exact` says, while no two goroutines have met: at the current count only tasks
  before the goroutine's place have been called, each once if it was due
  (`HalfWay`, `NoneAhead`), and counts that are through are exact (`Past`). The two
  looks at the counter agree because the only goroutine that adds to it is the one
  that looks. What a tick saw is a prefix of `job.tasks`, whatever Add appends.
- **WebSocket sessions.** `Who` and `Known` say which goroutine can be at which session,
  `Where` what the maps and `s.pool` are at each step of a Put and of a removal: a
  session hangs up or ends only when it is gone from `sessions`, by its own step or by
  another goroutine's, and is still in `conns` only while somebody is about to take it
  out. `Alone`: while nothing has crossed, one goroutine at most is in the pool, so none
  of the faults can happen. `KeysInv`: a key that leads to a session was given to it
  (`Given`), and while its calls have not overlapped it is that of `s.Key`, or the new
  one between the last two steps of SetKey (`LeadsHere`, `Leads`). Steps on other
  sessions do no harm, as they touch only keys that those were given.
- **Sockets.** `OpenAtStep`: while calls do not overlap, the open connections are known at
  every step of the one call. `SessionOrder`: a session that OnConnect has seen is in
  the pool until a Close has got as far as to take it out. `DatagramsAddUp` counts
  datagrams against sessions of a udp peer, with cardinalities.
- **Brokers.** `Numbered` says, whatever overlaps, that a subscription is one of its topic and
  on a connection that was made; `Alone`, what a call can rely on while it is the only
  one: what is live is in the map or about to be, what is in the map and dead went with
  its connection, and all connections but `brk.conn` are closed. What drains has left the
  map or is at its Unsubscribe (`DrainsBeside`).
- **Requests.** `RequestInv` relates what a request has logged to the step it is at
  (`Progress`), its context to the request that is in it (`ContextsAreOwn`) and every
  line to what its request was given (`LineIsOwn`). What the middleware makes depends on
  whether the server has a tracer, and no tracer comes up once a request is in. For the
  spans, `TracersHaveRun` says that what a server or client has got is a tracer that
  came up, and `WellKept` where each span can be: by its tracer's state and history for
  one that is no longer open (`KeptIn`), and by counting for those that wait (`Fits`).

Only model-checked:

- the liveness properties `Converges`, `StopEnds`, `ExitEnds`, `StopReturns`, `SentRuns`,
  `WorkersEnd`, `GoneAreUnlisted` and `PoliteLeavesNothing`: TLAPS has no rules for
  fairness and ENABLED here;
- that the violated properties are violated: a counterexample needs no proof.

`CallsAreExact` says "exactly one" by the set of places in the history `calls`
(`Made`) and not by the length of a filtered sequence, which would take an
induction over the sequence. The other type invariants (`TypeOK` of the sessions'
and of the servers' modules and of PoolUse) are proved as far as the proofs need them
(`ServerTyped`, `ClientTyped`, `ReadersTyped` and so on: without the bounds
of counters, or a part at a time). For the local registry `Typed` leaves out that
`events` stays below its bound, which is the model's and not the code's.

## 5. Plan

What is left to prove: the type invariants as they stand in PoolUse, SocketSessions and
SocketClient; that a server's Start and Stop refine an abstract on/off switch, and the
TCP and UDP pools an abstract set of sessions, both of which have still to be stated.

## 6. Not modelled

- `registry/mdns` and `runtime` are commented out as a whole in the source.
- `job/cron` makes a third-party scheduler and never starts it: its tasks do not run,
  and what Add does to the scheduler is not in this repository.
- `infra`, `metrics` and `logger` hand options to third-party clients or write
  output and keep no state worth a model; what Run does when a client
  does not come up is in AppRun. The same goes for the exporters' options in `tracer`.
- `utils`, `internal` and the `config.go` files are helpers without state; the
  precedence of values that the middleware and the addresses depend on is part of
  Requests and ServerAddresses.
- `broker/message.go`: what is in a message matters to nobody here.
- Of Run: Init's flags and configuration files. Of the registry front end: `Get`,
  `Registries` and `CheckInstance`, which change nothing or have no caller.
- Of the sessions of tcp and udp: Purge, Foreach and the Get functions of the pool,
  which a server does not give to anybody. Of the gRPC client and server: stream
  calls, resolver and credentials. The http and the websocket client are stubs. Of the
  fiber server: swagger.
- Of the manager: the handlers whose answers never change.
