--------------------------- MODULE DockerProvider ---------------------------
(***************************************************************************)
(* internal/provider/docker/docker.go: discovery of routes from container  *)
(* labels.  Run discovers once, then watches the event stream; an event    *)
(* (re)starts a debounce timer of 300 ms, whose callback, on a goroutine   *)
(* of its own, discovers again and publishes: events that keep coming      *)
(* within that time put the discovery off for as long as they do.          *)
(*                                                                         *)
(* A discovery asks Docker several times, and the containers may change    *)
(* between two answers.  A call that fails ends it early, with the routes  *)
(* found so far.  Nothing keeps two callbacks apart: Stop has no effect on *)
(* a timer that has fired.                                                 *)
(*                                                                         *)
(* A route is the container and the label format it comes from; containers *)
(* without an address or a port yield none and are not among Containers.   *)
(* The bounds say how many of the disturbances a run allows, and a variable *)
(* that never changes which of them it meets.                              *)
(***************************************************************************)
EXTENDS Naturals, FiniteSets

CONSTANTS
    Containers,
    Labels,          \* the formats of a container's labels
    Proxies,         \* the containers whose image name contains "traefik"
    Callbacks,       \* names for callbacks that run at the same time
    RunLoop,         \* the goroutine of Run itself, which discovers first
    None,            \* no Traefik address
    MaxChanges,      \* bound of the model: containers started or stopped
    MaxFailures,     \* how many list calls may fail
    MaxDisconnects,  \* how often the event stream may end
    Regimes          \* which disturbances may meet in one run of the process

\* A list call fails; the stream ends; containers change while no stream is open; a
\* callback outlasts the next debounce; events come that change no route.
Disturbances == {"failure", "end", "gap", "overlap", "burst"}

Formats  == {"pintle", "traefik", "tcp", "caddy"}
Workers  == Callbacks \cup {RunLoop}
Routes   == Containers \X Formats

ASSUME LabelsAssumption == Labels \in [Containers -> SUBSET Formats]
ASSUME WorkersAssumption ==
    /\ RunLoop \notin Callbacks
    /\ Callbacks # {}
    /\ Proxies \subseteq Containers
    /\ None \notin Containers
ASSUME BoundsAssumption ==
    /\ MaxChanges \in Nat /\ MaxFailures \in Nat /\ MaxDisconnects \in Nat
    /\ Regimes \subseteq SUBSET Disturbances

VARIABLES
    running,      \* environment: the containers Docker lists
    loop,         \* control point of Run and watchEvents
    pending,      \* the event channel holds events
    timer,        \* debounceTimer: off, just started, or 300 ms without an event are over
    step,         \* control point of every discovery
    found,        \* routes: what it has found so far
    handled,      \* proxyContainerNames, then handledContainers
    traefikIP,    \* d.traefikIP, as the container that has it
    dockerRoutes, \* d.dockerRoutes and d.dockerTcpRoutes
    published,    \* the routes of the last message sent on configCh
    shutdown,     \* the process context is done
    changes, failures, disconnects,  \* counters for the bounds
    disturbances, \* environment: what may go wrong in this run of the process
    steady,       \* history: nothing changed or failed since it began
    answered      \* history: no event was received since the last one began

loopVars  == <<loop, pending, timer>>
findVars  == <<step, found, handled>>
cacheVars == <<traefikIP, dockerRoutes, published>>
bounds    == <<changes, failures, disconnects, disturbances>>
envVars   == <<running, shutdown, bounds>>
vars == <<loopVars, findVars, cacheVars, envVars, steady, answered>>

-----------------------------------------------------------------------------
Labelled(C, f)  == {c \in C : f \in Labels[c]}
From(C, f)      == {<<c, f>> : c \in C}
Busy            == {w \in Workers : step[w] # "idle"}

Init ==
    /\ running \in SUBSET Containers
    /\ loop = "start"
    /\ pending = FALSE
    /\ timer = "off"
    /\ step = [w \in Workers |-> "idle"]
    /\ found = [w \in Workers |-> {}]
    /\ handled = [w \in Workers |-> {}]
    /\ traefikIP = None
    /\ dockerRoutes = {}
    /\ published = {}
    /\ shutdown = FALSE
    /\ changes = 0 /\ failures = 0 /\ disconnects = 0
    /\ disturbances \in Regimes
    /\ steady = [w \in Workers |-> FALSE]
    /\ answered = TRUE

-----------------------------------------------------------------------------
(* One discovery: discoverRoutes, discoverTraefik, the cache, the message. *)

BeginDiscovery(w) ==
    /\ step' = [step EXCEPT ![w] = "native"]
    /\ found' = [found EXCEPT ![w] = {}]
    /\ handled' = [handled EXCEPT ![w] = {}]
    /\ steady' = [steady EXCEPT ![w] = TRUE]
    /\ answered' = TRUE

\* ContainerList answers: the worker adds what it read and goes on.
Listed(w, next, routes, names) ==
    /\ ~shutdown
    /\ step' = [step EXCEPT ![w] = next]
    /\ found' = [found EXCEPT ![w] = @ \cup routes]
    /\ handled' = [handled EXCEPT ![w] = @ \cup names]
    /\ UNCHANGED <<loopVars, cacheVars, envVars, steady, answered>>

\* 1. The containers with a pintle.host label.
ListNative(w) ==
    /\ step[w] = "native"
    /\ LET C == Labelled(running, "pintle")
       IN  Listed(w, "traefik", From(C, "pintle"), C)

\* What the second list leaves to this format: no container of the first
\* list, and not Traefik itself.
ForEveryImage(names) == running \ names                      \* mutant: no look at the image
ForTraefik(names)    == running \ (names \cup Proxies)

\* 2. The containers with traefik.enable=true: HTTP routes, which claim the
\* container, and TCP routes, which do not.
ListTraefik(w) ==
    /\ step[w] = "traefik"
    /\ LET C == Labelled(ForTraefik(handled[w]), "traefik")
           T == Labelled(ForTraefik(handled[w]), "tcp")
       IN  Listed(w, "all", From(C, "traefik") \cup From(T, "tcp"), C)

\* What the third list leaves: the containers no format has claimed.
ForgetNative(names) == running \ {c \in names : "pintle" \notin Labels[c]} \* mutant: handledContainers starts empty
ForCaddy(names)     == running \ names

\* 3. All containers, for caddy labels.
ListAll(w) ==
    /\ step[w] = "all"
    /\ LET C == Labelled(ForCaddy(handled[w]), "caddy")
       IN  Listed(w, "find", From(C, "caddy"), {})

\* A list call fails; from the end of the process context on every one does.
\* discoverRoutes returns what it has, discoverTraefik keeps the old address.
ListFails(w) ==
    /\ step[w] \in {"native", "traefik", "all", "find"}
    /\ IF shutdown THEN UNCHANGED failures
                   ELSE /\ "failure" \in disturbances /\ failures < MaxFailures
                        /\ failures' = failures + 1
    /\ step' = [step EXCEPT ![w] = IF @ = "find" THEN "store" ELSE "find"]
    /\ steady' = [steady EXCEPT ![w] = @ /\ step[w] = "find"]
    /\ UNCHANGED <<loopVars, found, handled, cacheVars, running, shutdown,
                   changes, disconnects, disturbances, answered>>

\* discoverTraefik: the address of a running Traefik, or none.
KeepAddress(C) == IF C \cap Proxies = {} THEN {traefikIP} ELSE C \cap Proxies \* mutant
Addresses(C)   == IF C \cap Proxies = {} THEN {None} ELSE C \cap Proxies

FindTraefik(w) ==
    /\ step[w] = "find"
    /\ ~shutdown
    /\ traefikIP' \in Addresses(running)
    /\ step' = [step EXCEPT ![w] = "store"]
    /\ UNCHANGED <<loopVars, found, handled, dockerRoutes, published, envVars, steady, answered>>

\* The cache that GetDockerRoutes reads, under d.mu.
Store(w) ==
    /\ step[w] = "store"
    /\ dockerRoutes' = found[w]
    /\ step' = [step EXCEPT ![w] = "send"]
    /\ UNCHANGED <<loopVars, found, handled, traefikIP, published, envVars, steady, answered>>

\* The message on configCh; a wait for room is a delay of this step.
Send(w) ==
    /\ step[w] = "send"
    /\ published' = found[w]
    /\ step' = [step EXCEPT ![w] = "idle"]
    /\ found' = [found EXCEPT ![w] = {}]
    /\ handled' = [handled EXCEPT ![w] = {}]
    /\ loop' = IF w = RunLoop THEN "subscribe" ELSE loop
    /\ UNCHANGED <<pending, timer, traefikIP, dockerRoutes, envVars, steady, answered>>

DiscoveryStep(w) ==
    \/ ListNative(w) \/ ListTraefik(w) \/ ListAll(w) \/ ListFails(w)
    \/ FindTraefik(w) \/ Store(w) \/ Send(w)

-----------------------------------------------------------------------------
(* Run and watchEvents. *)

\* Run starts with a discovery of its own.
StartRun ==
    /\ loop = "start"
    /\ loop' = "discover"
    /\ BeginDiscovery(RunLoop)
    /\ UNCHANGED <<pending, timer, cacheVars, envVars>>

\* cli.Events: from here on events are delivered.
Subscribe ==
    /\ loop = "subscribe"
    /\ ~shutdown
    /\ loop' = "watch"
    /\ UNCHANGED <<pending, timer, findVars, cacheVars, envVars, steady, answered>>

\* What an event does to the debounce timer: it is stopped and started anew.
OnlyStop   == "off"                                          \* mutant: Stop without AfterFunc
TimerReset == "fresh"

\* An event arrives; those that arrive together are one.
ReceiveEvent ==
    /\ loop = "watch"
    /\ pending
    /\ pending' = FALSE
    /\ timer' = TimerReset
    /\ answered' = FALSE
    /\ UNCHANGED <<loop, findVars, cacheVars, envVars, steady>>

\* 300 ms pass in which no event is received ...
QuietPasses ==
    /\ timer = "fresh"
    /\ timer' = "quiet"
    /\ UNCHANGED <<loop, pending, findVars, cacheVars, envVars, steady, answered>>

\* ... and the callback starts, on a goroutine of its own.
TimerFires(w) ==
    /\ timer = "quiet"
    /\ step[w] = "idle"
    /\ "overlap" \in disturbances \/ Busy = {}
    /\ timer' = "off"
    /\ BeginDiscovery(w)
    /\ UNCHANGED <<loop, pending, cacheVars, envVars>>

\* What the end of the watch does to the timer.
LeftRunning == timer                                         \* mutant: no Stop
TimerStop   == "off"

\* The stream ends: a running timer is stopped, undelivered events are gone.
StreamEnds ==
    /\ loop = "watch"
    /\ ~shutdown
    /\ "end" \in disturbances /\ disconnects < MaxDisconnects
    /\ disconnects' = disconnects + 1
    /\ loop' = "reconnect"
    /\ pending' = FALSE
    /\ timer' = TimerStop
    /\ answered' = TRUE
    /\ UNCHANGED <<findVars, cacheVars, running, shutdown, changes, failures,
                   disturbances, steady>>

\* Five seconds later the next subscription is tried.
Reconnect ==
    /\ loop = "reconnect"
    /\ ~shutdown
    /\ loop' = "subscribe"
    /\ UNCHANGED <<pending, timer, findVars, cacheVars, envVars, steady, answered>>

\* ctx.Done() in either select of watchEvents.
StopLoop ==
    /\ shutdown
    /\ loop \in {"subscribe", "watch", "reconnect"}
    /\ loop' = "stopped"
    /\ pending' = FALSE
    /\ timer' = TimerStop
    /\ UNCHANGED <<findVars, cacheVars, envVars, steady, answered>>

-----------------------------------------------------------------------------
(* The environment. *)

\* A container starts or stops; an open stream has an event for it.
ContainerChanges(c) ==
    /\ changes < MaxChanges
    /\ "gap" \in disturbances \/ loop = "watch"
    /\ changes' = changes + 1
    /\ running' = IF c \in running THEN running \ {c} ELSE running \cup {c}
    /\ pending' = (loop = "watch")
    /\ steady' = [w \in Workers |-> FALSE]
    /\ UNCHANGED <<loop, timer, findVars, cacheVars, shutdown, failures, disconnects,
                   disturbances, answered>>

\* An event of a container without labels, or a further one of a change: a container that
\* stops has up to three.  Of these there may be any number.
OtherEvent ==
    /\ loop = "watch" /\ ~pending
    /\ "burst" \in disturbances
    /\ pending' = TRUE
    /\ UNCHANGED <<loop, timer, findVars, cacheVars, envVars, steady, answered>>

Signal ==
    /\ ~shutdown
    /\ shutdown' = TRUE
    /\ UNCHANGED <<loopVars, findVars, cacheVars, running, bounds, steady, answered>>

Next ==
    \/ \E w \in Workers : DiscoveryStep(w)
    \/ \E w \in Callbacks : TimerFires(w)
    \/ StartRun \/ Subscribe \/ ReceiveEvent \/ QuietPasses \/ StreamEnds \/ Reconnect
    \/ StopLoop
    \/ \E c \in Containers : ContainerChanges(c)
    \/ OtherEvent \/ Signal

Spec == Init /\ [][Next]_vars

\* Goroutines are scheduled, Docker answers, and a timer that is not started anew fires:
\* an event resets it, so that one of a stream of events may never do.  Nothing obliges
\* a container, the stream or the process to change, or events to come or to pause.
Fairness ==
    /\ \A w \in Workers : WF_vars(DiscoveryStep(w))
    /\ WF_vars(QuietPasses) /\ WF_vars(\E w \in Callbacks : TimerFires(w))
    /\ WF_vars(StartRun) /\ WF_vars(Subscribe) /\ WF_vars(ReceiveEvent)
    /\ WF_vars(Reconnect) /\ WF_vars(StopLoop)

FairSpec == Spec /\ Fairness

-----------------------------------------------------------------------------
(* Properties. *)

\* Every variable keeps its type.
TypeOK ==
    /\ running \subseteq Containers
    /\ loop \in {"start", "discover", "subscribe", "watch", "reconnect", "stopped"}
    /\ pending \in BOOLEAN /\ timer \in {"off", "fresh", "quiet"}
    /\ shutdown \in BOOLEAN /\ answered \in BOOLEAN
    /\ step \in [Workers -> {"idle", "native", "traefik", "all", "find", "store", "send"}]
    /\ found \in [Workers -> SUBSET Routes]
    /\ handled \in [Workers -> SUBSET Containers]
    /\ traefikIP \in Containers \cup {None}
    /\ dockerRoutes \subseteq Routes
    /\ published \subseteq Routes
    /\ changes \in 0..MaxChanges
    /\ failures \in 0..MaxFailures
    /\ disconnects \in 0..MaxDisconnects
    /\ disturbances \subseteq Disturbances
    /\ steady \in [Workers -> BOOLEAN]

\* What discovery should yield for the containers C: the HTTP routes of every
\* container come from its highest-priority format, TCP routes from Traefik's
\* labels unless native ones are there; Traefik itself is not routed by its own.
HttpFormat(c) ==
    IF "pintle" \in Labels[c]                        THEN {"pintle"}
    ELSE IF "traefik" \in Labels[c] /\ c \notin Proxies THEN {"traefik"}
    ELSE Labels[c] \cap {"caddy"}
TcpFormat(c) ==
    IF "pintle" \in Labels[c] \/ c \in Proxies THEN {} ELSE Labels[c] \cap {"tcp"}
RoutesOf(C) == {r \in Routes : r[1] \in C /\ r[2] \in HttpFormat(r[1]) \cup TcpFormat(r[1])}

\* A discovery that no change and no failed call disturbed has found exactly
\* the routes of the running containers, although it reads three lists.
StableDiscoveryIsExact ==
    \A w \in Workers : (step[w] \in {"find", "store", "send"} /\ steady[w])
                       => found[w] = RoutesOf(running)

\* "Only the highest-priority one is used": however containers come and go and
\* calls fail in the middle of a discovery, no container's HTTP routes are
\* published in two formats.
HttpFormatIsUnique ==
    \A c \in Containers : \A f, g \in Formats \ {"tcp"} :
        (<<c, f>> \in published /\ <<c, g>> \in published) => f = g

\* A watch that ended, for a reconnect or for good, leaves no timer behind that
\* would start a discovery later.
NoTimerLeftBehind == timer # "off" => loop = "watch"

\* No burst of events is forgotten while the stream lives: a discovery begins after an
\* event unless another one comes, which starts the timer anew, also when callbacks
\* overlap and calls fail (docker.go:362-366).
EventsAreAnswered == ~answered ~> (answered \/ shutdown \/ pending)

TargetOf(C, a) == IF a = None THEN C \cap Proxies = {} ELSE a \in C \cap Proxies

\* "Routes update automatically when containers start/stop": once the containers
\* stay as they are and no other event comes, the last message has their routes and
\* the passthrough target is a running Traefik.
RoutesFollowContainers ==
    <>[](~shutdown /\ ~pending) /\ <>[][FALSE]_running
        => <>[](published = RoutesOf(running) /\ TargetOf(running, traefikIP))

\* They do when calls succeed, the stream stays up, nothing changes while it is not open,
\* and a discovery ends before the next debounce, whatever other events come before
\* (docker.go:333-403).
UndisturbedRoutesFollow == disturbances \subseteq {"burst"} => RoutesFollowContainers
=============================================================================
