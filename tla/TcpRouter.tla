------------------------------ MODULE TcpRouter ------------------------------
(***************************************************************************)
(* The listeners of internal/server/tcp.go and the two goroutines that     *)
(* start them: main, for the ports of the initial configuration, some time *)
(* after it has started the watchers, and the watcher that applies, for    *)
(* the ports of every further one.  StartPort looks the port up under the  *)
(* lock, listens without it and takes it again to register the listener,   *)
(* so that both goroutines may try to open the same port.                  *)
(*                                                                         *)
(* Connections are in module Connection.  Certificates are left out, ports *)
(* that another process holds, and the closing of the listeners at the end *)
(* of the process.                                                         *)
(***************************************************************************)
EXTENDS ConfigPipeline

CONSTANTS
    DockerPorts,  \* the ports of every version of Docker's TCP routes
    NoPort        \* a goroutine that starts no port

ASSUME TcpRouterAssumption ==
    /\ DockerPorts \in [0..MaxVersion -> SUBSET Ports]
    /\ DockerPorts[0] = {}
    /\ NoPort \notin Ports

VARIABLES
    todo,        \* by goroutine: the ports left to start
    starting,    \* by goroutine: the port inside StartPort
    bound,       \* by goroutine: whether it has opened that port
    listening,   \* the ports that are open
    registered   \* the keys of t.ports

tcpVars == <<todo, starting, bound, listening, registered>>

Starters == {"main", "applier"}

TcpTypeOK ==
    /\ todo \in [Starters -> SUBSET Ports]
    /\ starting \in [Starters -> Ports \cup {NoPort}]
    /\ bound \in [Starters -> BOOLEAN]
    /\ listening \subseteq Ports /\ registered \subseteq Ports

TcpInit ==
    /\ todo = [s \in Starters |-> {}]
    /\ starting = [s \in Starters |-> NoPort]
    /\ bound = [s \in Starters |-> FALSE]
    /\ listening = {} /\ registered = {}

-----------------------------------------------------------------------------
(* Which ports to start *)

PortsOf(cfg) ==
    DockerPorts[cfg[Docker]] \cup (IF cfg[File] = 0 THEN {} ELSE contents[cfg[File]].ports)

\* Mutant: only main starts listeners.
InitialOnly ==
    IF main = "applying" THEN todo' = [todo EXCEPT !["main"] = PortsOf(received.cfg)]
    ELSE UNCHANGED todo

\* Each goroutine starts the ports of the configuration that it applies.
NewPorts ==
    todo' = [todo EXCEPT ![IF main = "applying" THEN "main" ELSE "applier"] =
                 PortsOf(received.cfg)]

\* ApplyTcp is followed by this; static-only mode starts no port.
PlanPorts ==
    /\ IF staticOnly THEN UNCHANGED todo ELSE NewPorts
    /\ UNCHANGED <<starting, bound, listening, registered>>

\* The watcher is back at its select.
ApplierIsFree == todo["applier"] = {}

-----------------------------------------------------------------------------
(* StartPort *)

\* The next port; one that is registered is done.
LookUp(s) == \E port \in todo[s] :
    /\ starting[s] = NoPort
    /\ IF port \in registered
       THEN todo' = [todo EXCEPT ![s] = @ \ {port}] /\ UNCHANGED starting
       ELSE starting' = [starting EXCEPT ![s] = port] /\ UNCHANGED todo
    /\ UNCHANGED <<bound, listening, registered>>

Done(s) ==
    /\ todo' = [todo EXCEPT ![s] = @ \ {starting[s]}]
    /\ starting' = [starting EXCEPT ![s] = NoPort]
    /\ bound' = [bound EXCEPT ![s] = FALSE]

\* Mutant: a port that could not be opened is struck from the map.
Unregister(s) == registered' = registered \ {starting[s]}

LeaveRegistered(s) == UNCHANGED registered

\* net.Listen fails on a port that is open; the error is logged or dropped.
Listen(s) ==
    /\ starting[s] # NoPort /\ ~bound[s]
    /\ IF starting[s] \in listening
       THEN Done(s) /\ LeaveRegistered(s) /\ UNCHANGED listening
       ELSE /\ listening' = listening \cup {starting[s]}
            /\ bound' = [bound EXCEPT ![s] = TRUE]
            /\ UNCHANGED <<todo, starting, registered>>

Register(s) ==
    /\ bound[s]
    /\ registered' = registered \cup {starting[s]}
    /\ Done(s)
    /\ UNCHANGED listening

TcpStep(s) == LookUp(s) \/ Listen(s) \/ Register(s)

-----------------------------------------------------------------------------
(* Properties *)

\* Once both goroutines are through, every port of the TCP routes in use is open, and what
\* is open is registered, so that no later attempt fails, whichever of the two was first
\* (tcp.go:44-61, main.go:168-175, 272-280).  Static-only mode opens nothing
\* (config.go:150-152).
PortsAreOpen ==
    /\ staticOnly => listening = {}
    /\ (\A s \in Starters : todo[s] = {}) /\ main = "running" /\ ~staticOnly
       => PortsOf(tcp.cfg) \subseteq listening /\ listening = registered
=============================================================================
