# A TLA+ model of pintle

pintle is a local HTTPS reverse proxy written in Go, with a dashboard in React.
It discovers routes from Docker labels and from a `routes.yaml`, merges them,
and serves HTTP, TLS passthrough and TLS-terminated TCP traffic along them;
static pools may be health-checked. This directory holds TLA+ modules that model
the parts of it that keep state and where steps interleave, the TLC runs that
check them on small instances, and proofs, checked by TLAPS, of the properties
that matter most.

    tlc -config HealthSafety.cfg MCHealthProbes.tla     # one run; PROJECT.json lists them
    tlapm HealthProbesProofs.tla                        # the proofs of one component

`PROJECT.json` lists the components, the runs and the properties each checks,
the source lines behind every definition, the hazards the properties are aimed
at, mutants of the model for every property of every passing run, and the
theorems.

## Inventory

```
 routes.yaml ─► FileProvider ──┐                        ┌─► Router ◄── proxy handler ◄── HTTPS server
                               ├─► configCh ─► watcher 1 │     ▲            │                ▲
 Docker API ─► DockerProvider ─┘   (cap 4)      │        │     │         statistics          │ local TLS
                                                ▼        │     └─ health runner ─► probes    │
                                          Aggregator ─► aggCh ─► watcher 2 ─► tcp routes   SNI router ─► passthrough
                                                         (cap 1)                  │
                                                                              TCP router (one listener per port)

 router, aggregator, statistics ─► API ─► polled resources ─► shell: diagram, readiness table, activity page
```

| Component | State it keeps | Operations | Interacts through |
|---|---|---|---|
| Router, pools and health (`internal/router`) | routes by host, regex routes, pool counters, health records with a generation and its context | `Update`, `Resolve`, `HasHost`, `RunHealth`, `probe`, `SnapshotHealth` | a read-write mutex, a wake channel of one, contexts, HTTP requests to backends |
| Aggregator (`internal/aggregator`) | the latest message of every provider | `Update` and getters | a mutex, an output channel of one |
| Startup and watchers (`cmd/pintle/main.go`) | the TCP routes, the listener topology | `run`: initial message, Docker start, validating watcher, applying watcher, shutdown | `configCh` (four), `aggCh` (one), the process context |
| File provider (`internal/provider/file`) | none beyond the watch | initial load, reload on fsnotify events | the file system, `configCh` |
| Docker provider (`internal/provider/docker`) | last routes, last TCP routes, Traefik's address | `discoverRoutes`, `discoverTraefik`, `watchEvents` with a debounce and reconnects | Docker's API and event stream, `configCh`, timers on their own goroutines |
| Label parsing (`docker/labels.go`) | none | native, Traefik and Caddy labels to routes | called by discovery |
| SNI router (`internal/server/sni.go`) | forward targets, fixed at startup; two goroutines for every connection | `handleConnection`, `pipeToTarget` | TCP, `Router.HasHost`, the Docker provider's Traefik address |
| TCP router (`internal/server/tcp.go`) | listeners by port, certificates | `StartPort`, `UpdateCerts`, `handleConnection` | TCP, the TCP routes of main |
| Certificates (`internal/tls`) | certificate by domain | `LoadCerts`, `GetCertificate`, `GetRawCerts` | the certificate directory |
| Proxy and statistics (`internal/proxy`, `internal/stats`) | recent requests and counters | `ServeHTTP`, `Record`, snapshots | `Router.Resolve`, upstreams, a mutex |
| API (`internal/api`) | none of its own | read-only views of all of the above | getters of the other components |
| HTTP(S) servers (`internal/server/http.go`, `https.go`) | none | listen, redirect | `net/http` |
| Dashboard, polling (`polling.ts`, `hooks.ts`) | newest read, its generation and controller, published state | poll, retry, dispose | fetch, an interval |
| Dashboard, readiness table (`BackendReadiness.tsx`) | a clock of its own | what a snapshot says by now | the polled topology |
| Dashboard, diagram (`FlowDiagram.tsx`, `useFlowLayout.ts`, …) | grouping, expanded groups, filters | layout, toolbar, clicks, effects | two polled resources |
| Dashboard, shell (`App.tsx`, `SettingsMenu.tsx`) | page, theme, size, menu | routing by hash, settings, alert and retry | URL, storage, media query |
| Dashboard, activity page (`ActivityPage.tsx`) | filters, order, memoised rows | filter, sort | polled requests |

What makes each of them correct, and where that is hard:

* **Router health.** A backend receives traffic only after it answered a probe
  that belongs to the current table. Reloads fall between the moment a sweep
  captured its records and the moments its workers start, ask, are answered and
  publish; four workers at most run at once over all tables; a wake token must
  not be lost; shutdown must end the runner from every wait.
* **Aggregator.** The latest configuration is always on offer, configurations
  are delivered in the order they were accepted, and `Update`, which sends while
  it holds the mutex, never waits for its consumer, although the consumer
  receives without the mutex between the two selects.
* **Pipeline.** A rejected message leaves no trace and stops nothing; the router
  holds accepted configurations only and never goes back; TCP routes follow the
  same configuration; the last valid version of every source is applied in the end.
* **File provider.** Whatever is written while a load waits for room in the channel
  is loaded in the end; a broken version changes nothing and ends nothing.
* **TCP listeners.** Main and the watcher look a port up and open it in two steps.
* **Connections.** A connection goes where the configuration of some moment sends
  it, although it is looked up twice; the bytes read to find the name are not
  lost; both goroutines and both sockets end when either side does.
* **Docker provider.** What is published is the last state of the containers;
  list calls fail one by one, event streams end and are reopened, every event starts
  the debounce timer anew, and its callbacks overlap.
* **Route table.** The most specific route answers, and the path it forwards is
  the one the reader of the route would expect.
* **Polling.** One read at a time publishes; a late answer changes nothing for the
  worse; failures stay marked; the view catches up.
* **Readiness table.** An old observation never looks recent while polls fail.
* **Diagram.** Every host is drawn once, nodes do not overlap, edges end at nodes
  that are there, no filter hides hosts without a control that could undo it.
* **Shell.** No screen is a dead end, routes that are shown are not taken away, the
  document has the chosen theme in any order of events.
* **Statistics and activity page.** A request leaves a record, none or two; records
  are taken in another order than that of their times, a report is read in parts, and rows are only recomputed at times.

Every hazard is listed at its line in `PROJECT.json`, with the properties that
would catch it; one that no property covers says so.

## Modules

| Module | Models | State and actions ↔ code |
|---|---|---|
| `HealthProbes` | `router/health.go` and the pool selection of `router/router.go` | One action per critical section or blocking point of `RunHealth` (`StartRunner`, `TakeWake`/`TakeTick`, `Capture`, `Spawn`, `ObserveCancel`, `CheckGeneration`, `FinishDispatch`, `AwaitWorkers`, `StopRunner`) and of `probe` (`AbandonProbe`, `CheckProbe`, `SendProbe`, `AnswerProbe`, `PublishProbe`), one each for `Update` and `Resolve` |
| `ConfigLog` | the promise of the pipeline | A log of accepted configurations whose consumer may skip entries but never goes back |
| `Aggregator` | `aggregator.go` | `Update` as `Call`, `Lock` (store and merge), `Offer`, `Drain`, `Send`, `Unlock`; the consumer as `Receive` |
| `ConfigPipeline` | `run()` of `main.go` with `config.ValidateMessage`, around an instance of `Aggregator` | `Publish`/`SendMessage` for the providers, `TakeInitial`, `TakeInitialMerged`, `Forward`, `TakeMerged`, `ApplyRouter`, `ApplyTcp`, `Signal`, `StopWatcher`, `StopApplier` |
| `FileProvider` | `Run` of `provider/file/file.go`, extends `ConfigPipeline` | `LoadFile`, `AddWatch`, `Reload`, `StopReader`; `WriteFile` and `ReplaceFile` for whoever edits the file |
| `TcpRouter` | `StartPort` and its two callers, extends `ConfigPipeline` | `PlanPorts` (the ports of a configuration), `LookUp`, `Listen`, `Register`, by main and by the watcher that applies |
| `ConfigSystem` | the composition of these three | A step of the pipeline, of the file provider or of a `StartPort`; the watcher that applies is busy while it starts ports |
| `Connection` | `handleConnection` of `sni.go` and `tcp.go`, `pipeToTarget` | `ReadHello`, `LookUp`, `Resolve`, `Handshake`, `Dial`, `WriteHello`, and `Copy(p)` (`Take`, `Put`, `Stop`) for the goroutine that reads from `p`; peers `Send` and `Leave`, `Reload` changes what is looked up |
| `DockerProvider` | `provider/docker/docker.go` | A discovery is one action per call to Docker (`ListNative`, `ListTraefik`, `ListAll`, `FindTraefik`, `ListFails`), then `Store` (the cache) and `Send` (the message); `Run` and `watchEvents` are `StartRun`, `Subscribe`, `ReceiveEvent`, `StreamEnds`, `Reconnect`, `StopLoop`; `QuietPasses` is the debounce interval, after which `TimerFires` starts a callback on a goroutine of its own; `ContainerChanges` and `OtherEvent` are Docker's |
| `RouteTable` | `router/router.go`, and the merge order of `aggregator.go` | `Update` merges in a random order (`Merged`), groups (`Named`, `PatternGroups`) and sorts (`ByPathDesc`); `Resolve`, `MatchPool`, `Rewritten`, `HasHost` are operators of the state |
| `PollingResource` | `polling.ts` and `usePolling` of `hooks.ts` | `Mount`, `Poll`, `Retry`, `Unmount` start and end reads; `Serve`, `Resolve`, `Reject` settle them, in any order |
| `Readiness` | `BackendReadiness.tsx` over `PollingResource` | `Label` and `ShownAge` are what a row says; `SnapshotSettles` stamps a snapshot (`Receive`), `ReadClock` is the table's interval |
| `FlowDiagram` | the diagram, its layout, grouping, filters and toolbar | `ReceiveTopology`, `ReceiveStats`, one action per control, `ClickGroup`, `RunEffects`, `Remount`; the layout (`Routed`, `Infra`, `FlowEdges`) is a function of the state |
| `RequestStats` | `stats.go` with its callers in the proxy handler and `/api/stats` | The exits of the handler, `RefuseRequest`, `RejectTarget`, `ModifyResponse`, `UpstreamFails` and `SwitchFails`, make a record or none and take the time, `Record` takes the lock; `HandleStats` reads one part of its report per step |
| `ActivityPage` | `ActivityPage.tsx` and `FilterBar.tsx` over `RequestStats` | `ReceiveRequests`, `ReadFails`, `SetRange`, `SetHost`, `SortBy`; `Recompute` is the memoised computation of the rows |
| `AppShell` | `App.tsx`, `SettingsMenu.tsx`, `useTheme`, `useFontSize` over `PollingResource` | `Open`, `Close`, the settings, `Navigate`, `EditUrl`, `HashChange`, `PollAgain`, `RetryConnection`, `Settle` |
| `Lists` | | sorted lists, sublists and sums without recursion, for the modules that are proved about |
| `DashboardProofs` | | inductive invariants and theorems of the dashboard's modules: `PollingResource`, `Readiness`, `AppShell`, `RequestStats`, `ActivityPage`, `FlowDiagram` |
| other `…Proofs` | | those of the module in whose name they are; `ConfigSystemProofs` has the pipeline's, too |
| `MC…` | | constants for TLC |

Several checked properties are conjunctions of named parts, which the modules
state and explain one by one: `BackendsAreFollowed`, `RunsAsAccepted` (types,
`RejectedStaysOut`, `FileComesFirst`, `TcpMatchesRouter`), `PortsAreServed`,
`SourcesAreFollowed` (`FileIsLoaded`, `LatestIsApplied`), `ConnectionsAreHonest`
(`TargetFitsAMoment`, `FirstToEndIsHeard`), `AnswersFollowAnnouncements`,
`ReadsAreAccountedFor`, `LateAnswersAreIgnored`, `AgesAreHonest`, `ViewRecovers`,
`LayoutIsSound`, `FiltersAreHonest`, `BooksAreSound`, `ShellInSync`,
`NothingIsLost`.

### What is abstracted

* **HealthProbes.** The table is one pool of one host and path: pools do not
  interact except through the four slots, which the backends of one pool already
  compete for. A health record names its generation: the code compares the
  record's pointer, and a record is created by exactly one reset. Time is a
  boolean, `due`, which `IntervalElapses` sets at any moment, so every spacing of
  sweeps is covered. A probe checks its generation, sends its request and is answered in three
  steps (`CheckProbe`, `SendProbe`, `AnswerProbe`), with any change of the backend, the
  table or the process between them. A client may notice before it sends that the
  request's context is done; that is left out, since the probe then fails as well. The pool
  counter is kept modulo `CursorCycle`, a common multiple of the lengths of the
  member lists; its wrap at 2^64 is left out. `served`, `observed` are
  history variables and never guard an action.
* **Aggregator and ConfigPipeline.** A message is a provider and the version of
  what it published; a configuration is the version merged for each provider.
  The order of merged routes, which `merge` takes from a random map walk, is
  told apart in `RouteTable` only. The API's readers of the aggregator are not
  actions: they hold the mutex for reading and change nothing.
* **FileProvider.** A version is what one load finds; what checking makes of it is
  given by `contents`, so a file that an editor has written half is a version of
  its own that does not parse. Events that wait are as good as one.
* **TcpRouter.** Ports are never taken by another process, and listeners stay open
  until the process ends, as in the code. Certificates are left out.
* **Connection.** One connection, accepted by either router. A peer sends pieces,
  of which the first `HelloSize` are its ClientHello; `ParseSNI` yields the name
  when the first read has the whole record. The four facts that are looked up
  concern that name; reloads after the last look-up change nothing for this
  connection. In the TCP router a certificate that does not parse is a failed
  handshake, and the client goes on after its hello once the handshake is over.
  A peer reads what it is sent or has closed, and then answers with a reset; the
  first write to it still succeeds. Of targets with overlapping domains only the
  first that matches is tried, as in the code, so one `listed` is enough.
* **DockerProvider.** A route is a container and the label format it comes from:
  what the labels say is the label parser's business. Containers without an
  address or a port yield no routes and are left out. Events that arrive together
  are one, since the timer only asks whether there was one. The timer is off, `"fresh"`
  when an event has just started it, or `"quiet"` when its 300 ms have passed
  (`QuietPasses`) and it is about to fire; an event makes it fresh again. `OtherEvent`
  is any event that changes no route: of a container without labels, or one more of
  the several that a single change makes. A wait for room on
  `configCh` is a delay of `Send`, so a callback may hold an old result as long as
  it likes; the failure to create a client, which ends `Run` at once, is left out.
  `steady` and `answered` are history variables and never guard an action;
  `disturbances` says what may go wrong in a behaviour.
* **RouteTable.** A path is the sequence of its segments, with an empty segment for
  a double slash or one at the end; the length of the text, by which the code
  sorts, is computed from them. Routes whose path has no leading slash match nothing
  and are left out. The routes of a pool are all admitted: health is the module
  `HealthProbes`'. Two properties of the code that a reader may not expect are
  modelled as they are: a route path that ends in a slash does not match what lies
  below it, and a stripping route at `/` forwards a path without its leading slash.
  `PoolsAssumption` says of pools what `file.go:225` makes of an entry with several
  targets: its routes share path and strip, and no other entry names their pool.
* **PollingResource.** Generations are compared for equality only, so a new one is
  any name that no unsettled read of the resource bears. What the API answers is a
  version; a read that was aborted normally rejects, but may still answer.
* **Readiness.** One row stands for all. The browser's clock and the snapshot's
  stamp are kept as the time since; beyond `MaxAge` time is not told apart.
* **FlowDiagram.** A host is a value with a domain, a prefix and a place in the
  alphabet; a search is the set of hosts it finds; positions are columns and rows. The
  alphabet, `localeCompare`, is taken to tell any two names apart, and no label of a host
  name is `__other`, the key of the singles (`NamesAreDistinct`).
* **RequestStats, ActivityPage.** The unit is the record, not the request: `HandOver`
  is the call of `Record` by the handler, at one of its exits. That a response switches
  protocols is left open: after any recorded answer that is no error the switch may
  fail. `responded` says which answer a goroutine forwards, `handed` counts the
  records made, for the property and for the bound. Mean durations are left out. The filters by method,
  status and duration work like that by host. The browser and the proxy are taken
  to share a clock.
* **AppShell.** The two polled resources are one: the statistics only render more
  often. The theme is applied in an effect, after the render that the diagram's
  colours come from.

## Runs

| Run | Question | Result |
|---|---|---|
| `health_safety` | Can a late, overtaken or cancelled probe admit a backend, add to the four, or survive a reload; does the report agree with the traffic; is rotation fair; is a wake-up lost; does a replaced table get further probes past their check? | holds |
| `health_live` | Are stable backends admitted and failed ones excluded in the end, and does shutdown end runner and probes? | holds |
| `aggregator` | Does `Update` implement the log, is the send after the drain never blocked, and does `Update` return when nobody receives? | holds |
| `pipeline` | The whole of `ConfigSystem` in both modes: do rejected messages stay out, does the file come first, do router and TCP routes follow the log, are the ports of the TCP routes open, is the last valid version of every source applied? | holds |
| `docker` | With overlapping callbacks, failed calls and lost streams: is no container routed in two HTTP formats, is an undisturbed discovery exact, does no timer outlive its watch? Without them, but with any number of other events: is an event answered unless another follows it, and do the routes follow the containers once events pause? | holds |
| `docker_disturbed` | Do they when calls fail, or changes fall into a gap, or callbacks overlap? | violated (finding) |
| `connection` | Does a connection go where some moment sends it, is the side that ends first heard in full, does everything end? | holds |
| `routes` | Does the most specific route answer whatever the merge order, are pools complete, does stripping leave the right path, does `HasHost` agree with `Resolve`, does a reload leave the requests of other providers alone? | holds |
| `polling` | Is one read live at a time, do late answers change nothing, do failures stay marked, are old observations called old, does the view catch up? | holds |
| `diagram` | Is every host drawn once and apart from the others, with edges; do filters neither hide for good nor light a wrong host; do groups sum up their hosts; do reloads move nothing? | holds |
| `activity` | Is every record counted, and once; do the counters balance and the parts of a report cover one another; do rows come newest first; is a row that outlives its range explained? | holds |
| `app` | Do page, theme and settings follow their sources; is no screen a dead end; is nothing lost; do the diagram's colours catch up? | holds |

**Bounds.** `MaxGeneration` is three: the reset of `RunHealth`, the reload that
installs the table under test, and one that overtakes its probes at any point
(with two, no probe would ever be overtaken, and the mutants of the fence
survive). `MaxWorkers` is two in `health_safety`, so that two probes are in
flight when a reload comes, and one against two backends in `health_live`, so
that the slots are exhausted. `MaxUpdates` is three: fill the channel, drain it,
find it drained by the consumer. In `pipeline` `ChannelCap` is two, below the
number of messages, so that senders wait; the file has three versions and Docker
two; the five kinds of file hold a broken version first, between, last or twice,
and move a TCP route from one port to another. The Docker runs allow two changes of
containers, one failed call, one lost stream and two callbacks beside `Run`;
their containers carry the combinations of labels in which formats compete,
among them a Traefik with labels of its own; `Regimes` lists which disturbances may
happen in one behaviour: in `docker` either any number of events beside those of the
changes (`"burst"`), or everything else that may go wrong; in `docker_disturbed` exactly
one thing that may.
In `connection` a hello has two pieces, so that it may arrive in two reads, a peer
sends three, so that one follows it, and two facts change, so that both look-ups
may be overtaken. The lists of routes in `routes` have up to two different entries,
enough for a tie, a nested path or two patterns, or three with a pool, and both
providers publish every combination. `polling` has two mounts, two reads
each, one retry, and ages up to one past the threshold. `diagram` has four hosts, of
which two share a prefix and three a domain, five topologies around the threshold
of the toolbar and three reports. `activity` has two goroutines, a buffer of two
and three records, so that it wraps; requests without a record are not bounded. There
the API makes a report only while the page has no list (`OneReader`): both only read
the books, and neither the other. `app` has one resource with two reads, one
retry, a page with and one without the diagram. The runs of the aggregator, the
pipeline, discovery and connections do not check for deadlock: their calls are
bounded, and the process, or the connection, ends; the others do.

**Fairness.** Goroutines are scheduled (`WF`); a Go mutex hands over to a waiter
(`SF` on `Lock`); a request returns, since the probe's client has a timeout; time
passes; a cancelled parent context cancels its child. A debounce timer that is not
started anew fires (`WF` on `QuietPasses` and `TimerFires`); one that events keep
starting anew need not, and nothing obliges events to come or to pause. That is why
`EventsAreAnswered` gives an event three ways: it is answered, the process ends, or another
event waits; and why `RoutesFollowContainers` assumes that events cease. `StopRunner` has strong
fairness, because a ticker competes with `ctx.Done()` in a select that picks at
random. Nothing obliges a reload, a request, a signal, an edit of the file, a
container, an event stream, the aggregator's consumer (in `aggregator`), a peer
of a connection or a backend to act. `AggregatorStep` in the pipeline has weak
fairness only: there main and the watcher never call `Update` at once. In the
file provider loads and the adding of the watch happen, in the TCP router the steps
of `StartPort`. A router that waits for a client's hello may wait for ever, and
so may a handshake or a dial whose other side neither answers nor ends:
`EndsTogether` therefore speaks of connections of which one side has ended.
In the dashboard the interval fires, React runs the effects of a render, and every
read settles; `fetch` has no timeout, so the last is an assumption about the API and the
browser, not about this code. Nothing obliges the user.

## Findings

* `docker_disturbed`. The published routes may differ from the running containers
  for good, and each of three causes is enough alone:
  a list call that fails ends a discovery with the routes found so far and no
  error, so the routes of running containers are withdrawn until the next
  container event; nothing discovers after the event stream has been opened, so a change
  between the initial discovery and the subscription, or while the stream is being
  reopened, goes unnoticed, and an event less than 300 ms before a stream ends is
  dropped with its timer; and callbacks overlap when a discovery or its send is
  slow, and the one that ends last wins, whatever it read.

The following was met while modelling. It is in the model as it is in the code, and
no run is about it:

* Every container event stops the debounce timer and starts it again
  (`docker.go:362-366`), so events that keep coming less than 300 ms apart postpone
  discovery for as long as they do.
* A worker that has passed its check (`health.go:116`) may still send its request after
  a reload (`health.go:130`); its answer is dropped. No other worker of that table gets
  that far: `ReplacedTableDriesUp`.
* A request whose route has a target that is no URL gets a 502 and leaves no record
  (`proxy.go:79-83`). A response that switches protocols is recorded by
  `ModifyResponse`, and if the switch fails by `ErrorHandler` once more
  (`proxy.go:118-145`), so that one request counts as two.
* Changes of the file between its first load and the watch, and all changes after
  the file was replaced by a rename, are missed for good; `SourcesAreFollowed`
  excludes them (`Missed`).
* The SNI router's domains are fixed from the initial configuration
  (`main.go:182`), while `/api/topology` reports the aggregator's current ones.
* Expected hosts are read from the accepted configuration and routes from the applied
  one, so a host that one file both declares and routes is reported missing until the
  second watcher has run.
* Main installs the initial TCP certificates after the watchers have started, and
  may overwrite newer ones.
* The routes of Traefik's TCP labels do not claim their container, so caddy labels of
  the same container are used as well (`ListTraefik`); `HttpFormatIsUnique` speaks
  of HTTP routes.
* When one side of a connection ends its half, the other direction is closed too:
  what the other side has yet to answer is lost. `FirstToEndIsHeard` therefore
  speaks of the side that ends first.
* The README calls certificates for passthrough domains a fallback for when "the
  target proxy is unavailable" (`README.md:84`, `282`). The router falls back when the
  target has no address; one that has an address and does not answer closes the
  connection (`Dial`).
* A prefix `__other` would share its key with the bucket of the singles, which replaces
  the bucket of that prefix in the map of groups (`grouping.ts:77-86`); host names have
  no underscores, so `NamesAreDistinct` excludes it.
* The dashboard divides the errors of the hosts by the total of an earlier part of
  the same report, so its error rate may exceed 100% for one poll.

## Proofs

All theorems hold for every value of the constants, under the assumptions named in
the modules, which TLC evaluates in the runs.

`HealthProbesProofs`: `TypeCorrect`, `ProbesAreBounded`, `AdmissionIsObserved`,
`SnapshotIsTraffic`, `WakeIsKept`, `ReplacedTablesAreLeftAlone`,
`RotationStaysFair`. `ReplacedTablesAreLeftAlone` says what the check of the generation
is worth although the request is sent later and without a lock: of a replaced table only
the workers that were past it at the reload send a request, and all are gone before
those of the new table start. The inductive
invariant adds to the type invariant: the workers in flight are exactly the holders
of the slots and all belong to the captured sweep (`SlotsInv`; without it nothing
ties the slots of one sweep to the probes of another); every generation below the
current one is cancelled and nothing beyond it has started (`GenerationInv`); a
sweep that was overtaken left its token in the channel (`WakeInv`); an answer that
waits to be published is the last one observed for its record (`PendingInv`); and a
healthy record was checked while the router runs (`HealthyInv`).

`AggregatorProofs`: `TypeCorrect`, `SendNeverBlocks`, `LatestSurvives`, and
`ImplementsConfigLog`, the refinement of the safety part of `ConfigLog`. The
invariant says that only the holder of the mutex is between `Lock` and `Unlock`,
that what it merged is the last entry of the log, and that channel and consumer hold
entries of the log in increasing order.

`ConfigSystemProofs`, of the pipeline: every step of the pipeline is one of the aggregator
(`UsesAggregator`), so what is proved there holds here. On top of it
`ServesWhatWasAccepted` and `RouterImplementsLog` follow from what startup has done at
each of its points (`StartupInv`), from every entry of the log being made of
accepted messages (`AcceptedInv`, `ValidInv`), and from router and TCP routes being
entries of the log (`AppliedInv`).

`ConfigSystemProofs`, of the system: with the file provider and the listeners attached every
behaviour is one of the pipeline (`SystemIsPipeline`), so the theorems above hold of the
system (`SystemServesWhatWasAccepted`, `SystemImplementsLog`). `ListenersServeThePorts` needs to know who
holds an open port that is not registered yet (`ListenersInv`) and that every port in
use is open or on the list of one of the two goroutines (`PlanInv`).

`ConnectionProofs`: `ConnectionIsHonest`. No piece is lost or made up on the way
(`BytesInv`), a socket is closed only by the goroutine that writes to it (`PhaseInv`),
what the look-ups have seen lies between what held all the while and what held once
(`DecisionInv`), and, which makes it inductive, a goroutine whose peer has not ended
ends only after the other one (`EndsInv`): otherwise each could blame the other.

`DockerProviderProofs`: `TypeCorrect`, `OneHttpFormat`, `DiscoveryIsExact`,
`TimersEndWithTheWatch`. Containers may change between two lists of one discovery, so the
invariant speaks of what a discovery has claimed and not of what runs: every
container it found HTTP routes for is claimed and found in one format (`UniqueInv`,
`ClaimInv`), up to the third list, which is the last and does not claim; and as long
as nothing changed, what it has found is what the priorities prescribe for the lists
read so far (`ExactInv`).

`DashboardProofs`. Of the polled resource, `ReadsAccounted` and `LateIgnored`: what is
shown was answered by the server at some moment (`FromServer`), and the read that may
still publish asked after all that is shown was answered (`NewestIsNewer`). The shell and
the readiness table use the resource as its proofs assume (`UsesPolling`,
`TableUsesPolling`). From that `NoScreenIsADeadEnd` and `NothingGetsLost` follow with an
error that tells how the last read ended (`ErrorInv`) and storage that holds the settings
in use (`StoredInv`); `ShellStaysInSync` is proved beside them; and `AgesStayHonest`
follows with what binds the table's clock to the time since it last heard. Of the
statistics, `BooksStaySound`: of every edge, what the handlers have made records of is what
was counted plus what waits for the lock (`NoRecordIsLost`), and the counters of a host
are the sums of its edges at every point between two locks (`StatsInv`). Of the activity page, `NewestRowsComeFirst` and
`StaleRowsStayExplained`: what is shown is what the last computation made of the records
of some poll (`PageInv`). Of the diagram, `LayoutStaysSound`, `FiltersStayHonest`,
`GroupHealthStaysBetween` and `OrderNeverMatters`: the buckets share the visible routes
out among themselves under different keys (`BucketsAre`), every group starts below all
rows of those before it (`RowsAreApart`), a host is shown only by the nodes of its own
group (`ShownByItsGroup`), and the sums of a group cross a threshold when those of all
its hosts do, and stay below when all do (`SickTogether`). Little of it is about steps: the
invariant (`DiagramInv`) has the types and that the expanded keys are keys of the grouping
in use, which needs `KeysFit` for a click and the collapse for a switch.

`ListProofs` has what the provers need to know of `Lists`. Sorting is usually defined by
recursion, about which nothing can be proved here for every list. In `Lists` the place
of an element is the number of elements that come before it, and a sum is the number
of elements of a set of pairs, so that every fact about them is one about finite sets: a
strict order gives every element a place of its own, there is one way to sort
(`OrderIsOne`), a sublist keeps its order (`PicksAreKept`), sums of disjoint parts add up.

`RouteTableProofs`: `AnswersFollow` and `ReloadsAreIndependent`. The inductive invariant
(`TableInv`) says that every list of the table has each announced route of its
hostname or pattern exactly once, the longest path first, and routes of one provider
with the same length in the order they were announced. The walk of `Resolve` through such
a list then stops at a longest match (`MatchPoolIs`), and what it finds is in the pool or
the pattern that the announcements give (`AnswerIs`, `PoolsAgree`). For reloads, what
the walk finds does not depend on routes that match nothing (`MatchingSuffice`), and
those that do are sorted in one way (`SortedAlone`), so that the answer is a function
of the matching routes alone (`AnswersAreLocal`).

Only model-checked: liveness under fairness (`BackendsAreFollowed`, `SourcesAreFollowed`,
`EndsTogether`, `ViewRecovers`, `NoStuckSelection`, `ColoursCatchUp` and the like; of
`RefinesConfigLog` the fairness of the log), which is beyond the prover. No invariant and
no action property is left to the runs alone.

## Not modelled

* The bytes of a ClientHello (`ParseSNI`) and the parsing of labels: stateless parsing,
  of which the modules take the result.
* The certificate store: a map that only grows when files are read; a certificate whose
  file was removed is still served.
* The closing of listeners at the end of the process, and ports that another process
  holds.
* The HTTP and HTTPS servers and the API handlers, which call `net/http` and the getters
  above, but for `/api/stats`, whose parts are read under separate locks.
* Forwarding itself in the proxy handler (which exit a request takes is left open),
  durations and their means.
* The dashboard's reference pages, the formatting of single values and the widgets whose
  state is an open flag, a query or the keyboard focus.
* The website, `pintle check` and `pintle doctor` (one-shot commands), logging, host
  detection and the shell scripts.

## Plan

1. The certificate store with `UpdateCerts` by main and by the watcher.
2. `Labels`: which containers yield which routes, and the priority of formats.
3. An abstract specification of the polled resource (a view that follows a server and
   may lag), which `PollingResource` implements.
