------------------------ MODULE DockerProviderProofs ------------------------
(***************************************************************************)
(* Proofs about DockerProvider, for any containers, labels, number of      *)
(* overlapping callbacks and any disturbances: a container's HTTP routes   *)
(* come from one format, an undisturbed discovery is exact, and no timer   *)
(* outlives its watch.                                                     *)
(***************************************************************************)
EXTENDS DockerProvider, TLAPS

Http == Formats \ {"tcp"}

\* No container has HTTP routes of two formats in R.
UniqueIn(R) ==
    \A c \in Containers : \A f, g \in Http : (<<c, f>> \in R /\ <<c, g>> \in R) => f = g

\* What a discovery has found after each of its lists: nothing at first, then
\* native routes only, then nothing of caddy's; and every container that has
\* an HTTP route is claimed, until the last list is read.
ClaimInv ==
    \A w \in Workers :
        /\ step[w] \in {"idle", "native"} => found[w] = {} /\ handled[w] = {}
        /\ step[w] = "traefik" => \A r \in found[w] : r[2] = "pintle"
        /\ step[w] = "all"     => \A r \in found[w] : r[2] # "caddy"
        /\ step[w] \in {"traefik", "all"} =>
              \A r \in found[w] : r[2] # "tcp" => r[1] \in handled[w]

UniqueInv == UniqueIn(published) /\ \A w \in Workers : UniqueIn(found[w])

\* What an undisturbed discovery knows after each list.
Native(C)     == Labelled(C, "pintle")
Claimed(C)    == Native(C) \cup Labelled(C \ (Native(C) \cup Proxies), "traefik")
AfterFirst(C) == From(Native(C), "pintle")
AfterSecond(C) ==
    AfterFirst(C) \cup From(Labelled(C \ (Native(C) \cup Proxies), "traefik"), "traefik")
                  \cup From(Labelled(C \ (Native(C) \cup Proxies), "tcp"), "tcp")

ExactInv ==
    \A w \in Workers : steady[w] =>
        /\ step[w] = "traefik" =>
              found[w] = AfterFirst(running) /\ handled[w] = Native(running)
        /\ step[w] = "all" =>
              found[w] = AfterSecond(running) /\ handled[w] = Claimed(running)
        /\ step[w] \in {"find", "store", "send"} => found[w] = RoutesOf(running)

\* Run's own discovery comes before the first watch.
LoopInv == step[RunLoop] # "idle" => loop = "discover"

IInv == TypeOK /\ LoopInv /\ ClaimInv /\ UniqueInv /\ ExactInv /\ NoTimerLeftBehind

-----------------------------------------------------------------------------
\* Adding the caddy routes of unclaimed containers completes the reference.
LEMMA LastList ==
    ASSUME running \subseteq Containers
    PROVE  AfterSecond(running) \cup From(Labelled(ForCaddy(Claimed(running)), "caddy"), "caddy")
               = RoutesOf(running)
<1> USE LabelsAssumption DEF AfterSecond, AfterFirst, From, Labelled, ForCaddy, Claimed, Native,
        RoutesOf, Routes, HttpFormat, TcpFormat
<1> DEFINE L == AfterSecond(running)
                    \cup From(Labelled(ForCaddy(Claimed(running)), "caddy"), "caddy")
<1>1. ASSUME NEW c \in Containers, NEW f \in Formats
      PROVE  <<c, f>> \in L <=> <<c, f>> \in RoutesOf(running)
  <2>1. CASE f = "pintle"  BY <2>1
  <2>2. CASE f = "traefik" BY <2>2
  <2>3. CASE f = "tcp"     BY <2>3
  <2>4. CASE f = "caddy"   BY <2>4
  <2>5. QED BY <2>1, <2>2, <2>3, <2>4 DEF Formats
<1>2. L \subseteq Routes
  BY DEF Formats
<1>3. RoutesOf(running) \subseteq Routes
  OBVIOUS
<1> HIDE DEF L
<1>4. \A r \in Routes : r \in L <=> r \in RoutesOf(running)
  <2> SUFFICES ASSUME NEW r \in Routes PROVE r \in L <=> r \in RoutesOf(running)
    OBVIOUS
  <2>1. PICK c \in Containers, f \in Formats : r = <<c, f>>
    BY DEF Routes
  <2>2. QED BY <1>1, <2>1
<1>5. L = RoutesOf(running)
  BY <1>2, <1>3, <1>4
<1>6. QED BY <1>5 DEF L

LEMMA InitIInv == Init => IInv
<1> SUFFICES ASSUME Init PROVE IInv
  OBVIOUS
<1> USE DEF Init
<1>1. TypeOK
  <2>1. changes \in 0..MaxChanges /\ failures \in 0..MaxFailures
        /\ disconnects \in 0..MaxDisconnects /\ disturbances \subseteq Disturbances
    BY BoundsAssumption
  <2>2. step \in [Workers -> {"idle", "native", "traefik", "all", "find", "store", "send"}]
    OBVIOUS
  <2>3. found \in [Workers -> SUBSET Routes] /\ handled \in [Workers -> SUBSET Containers]
    OBVIOUS
  <2>4. steady \in [Workers -> BOOLEAN]
    OBVIOUS
  <2>5. QED BY <2>1, <2>2, <2>3, <2>4 DEF TypeOK
<1>2. LoopInv
  BY DEF LoopInv, Workers
<1>3. ClaimInv /\ UniqueInv /\ ExactInv /\ NoTimerLeftBehind
  BY DEF ClaimInv, UniqueInv, UniqueIn, ExactInv, NoTimerLeftBehind
<1>4. QED BY <1>1, <1>2, <1>3 DEF IInv

-----------------------------------------------------------------------------
(* Steps of a discovery. *)

\* ContainerList answers: what each list adds respects the claims.
LEMMA ListStep ==
    ASSUME IInv, NEW w \in Workers, ListNative(w) \/ ListTraefik(w) \/ ListAll(w)
    PROVE  IInv'
<1> USE LabelsAssumption DEF IInv, TypeOK
<1> DEFINE N == Labelled(running, "pintle")
           T == Labelled(ForTraefik(handled[w]), "traefik")
           P == Labelled(ForTraefik(handled[w]), "tcp")
           C == Labelled(ForCaddy(handled[w]), "caddy")
<1>1. /\ N \subseteq Containers /\ T \subseteq Containers
      /\ P \subseteq Containers /\ C \subseteq Containers
  BY DEF Labelled, ForTraefik, ForCaddy
<1>2. UNCHANGED <<loopVars, cacheVars, envVars, steady, answered>>
  BY DEF ListNative, ListTraefik, ListAll, Listed
<1>3. CASE ListNative(w)
  <2>1. /\ step[w] = "native"
        /\ step' = [step EXCEPT ![w] = "traefik"]
        /\ found' = [found EXCEPT ![w] = @ \cup From(N, "pintle")]
        /\ handled' = [handled EXCEPT ![w] = @ \cup N]
    BY <1>3 DEF ListNative, Listed
  <2>2. found[w] = {} /\ handled[w] = {}
    BY <2>1 DEF ClaimInv
  <2>3. found'[w] = From(N, "pintle") /\ handled'[w] = N
    BY <2>1, <2>2
  <2>4. From(N, "pintle") \subseteq Routes
    BY <1>1 DEF From, Routes, Formats
  <2>5. TypeOK'
    BY <1>1, <1>2, <2>1, <2>4 DEF loopVars, cacheVars, envVars, bounds
  <2>6. ClaimInv'
    BY <2>1, <2>3 DEF ClaimInv, From
  <2>7. UniqueInv'
    BY <1>2, <2>1, <2>3 DEF UniqueInv, UniqueIn, From, cacheVars
  <2>8. ExactInv'
    BY <1>2, <2>1, <2>3 DEF ExactInv, AfterFirst, Native, envVars, bounds
  <2>9. LoopInv' /\ NoTimerLeftBehind'
    BY <1>2, <2>1 DEF NoTimerLeftBehind, LoopInv, loopVars, Workers
  <2>10. QED BY <2>5, <2>6, <2>7, <2>8, <2>9
<1>4. CASE ListTraefik(w)
  <2>1. /\ step[w] = "traefik"
        /\ step' = [step EXCEPT ![w] = "all"]
        /\ found' = [found EXCEPT ![w] = @ \cup (From(T, "traefik") \cup From(P, "tcp"))]
        /\ handled' = [handled EXCEPT ![w] = @ \cup T]
    BY <1>4 DEF ListTraefik, Listed
  <2>2. /\ \A r \in found[w] : r[2] = "pintle"
        /\ \A r \in found[w] : r[2] # "tcp" => r[1] \in handled[w]
    BY <2>1 DEF ClaimInv
  <2>3. /\ found'[w] = found[w] \cup From(T, "traefik") \cup From(P, "tcp")
        /\ handled'[w] = handled[w] \cup T
    BY <2>1
  <2>4. From(T, "traefik") \cup From(P, "tcp") \subseteq Routes
    BY <1>1 DEF From, Routes, Formats
  <2>5. TypeOK'
    BY <1>1, <1>2, <2>1, <2>4 DEF loopVars, cacheVars, envVars, bounds
  <2>6. ClaimInv'
    BY <2>1, <2>2, <2>3 DEF ClaimInv, From
  <2>7. UniqueIn(found'[w])
    BY <2>2, <2>3 DEF UniqueIn, From, Http, Formats, Labelled, ForTraefik
  <2>8. UniqueInv'
    BY <1>2, <2>1, <2>7 DEF UniqueInv, UniqueIn, cacheVars
  <2>9. steady[w] => found'[w] = AfterSecond(running) /\ handled'[w] = Claimed(running)
    BY <2>1, <2>3 DEF ExactInv, AfterSecond, AfterFirst, Claimed, Native, ForTraefik
  <2>10. ExactInv'
    BY <1>2, <2>1, <2>9 DEF ExactInv, envVars, bounds
  <2>11. LoopInv' /\ NoTimerLeftBehind'
    BY <1>2, <2>1 DEF NoTimerLeftBehind, LoopInv, loopVars, Workers
  <2>12. QED BY <2>5, <2>6, <2>8, <2>10, <2>11
<1>5. CASE ListAll(w)
  <2>1. /\ step[w] = "all"
        /\ step' = [step EXCEPT ![w] = "find"]
        /\ found' = [found EXCEPT ![w] = @ \cup From(C, "caddy")]
        /\ handled' = [handled EXCEPT ![w] = @ \cup {}]
    BY <1>5 DEF ListAll, Listed
  <2>2. /\ \A r \in found[w] : r[2] # "caddy"
        /\ \A r \in found[w] : r[2] # "tcp" => r[1] \in handled[w]
    BY <2>1 DEF ClaimInv
  <2>3. found'[w] = found[w] \cup From(C, "caddy")
    BY <2>1
  <2>4. From(C, "caddy") \subseteq Routes
    BY <1>1 DEF From, Routes, Formats
  <2>5. TypeOK'
    BY <1>1, <1>2, <2>1, <2>4 DEF loopVars, cacheVars, envVars, bounds
  <2>6. ClaimInv'
    BY <2>1 DEF ClaimInv
  <2>7. UniqueIn(found'[w])
    BY <2>2, <2>3 DEF UniqueIn, UniqueInv, From, Http, Labelled, ForCaddy
  <2>8. UniqueInv'
    BY <1>2, <2>1, <2>7 DEF UniqueInv, UniqueIn, cacheVars
  <2>9. steady[w] => found'[w] = RoutesOf(running)
    BY <2>1, <2>3, LastList DEF ExactInv
  <2>10. ExactInv'
    BY <1>2, <2>1, <2>9 DEF ExactInv, envVars, bounds
  <2>11. LoopInv' /\ NoTimerLeftBehind'
    BY <1>2, <2>1 DEF NoTimerLeftBehind, LoopInv, loopVars, Workers
  <2>12. QED BY <2>5, <2>6, <2>8, <2>10, <2>11
<1>6. QED BY <1>3, <1>4, <1>5

\* A call fails, the proxy's address is found, the routes are stored and sent.
LEMMA RestOfDiscovery ==
    ASSUME IInv, NEW w \in Workers, ListFails(w) \/ FindTraefik(w) \/ Store(w) \/ Send(w)
    PROVE  IInv'
<1> USE DEF IInv, TypeOK
<1>1. CASE ListFails(w)
  <2> USE <1>1 DEF ListFails
  <2>1. TypeOK'
    BY BoundsAssumption DEF loopVars, cacheVars
  <2>2. ClaimInv' /\ UniqueInv' /\ NoTimerLeftBehind' /\ LoopInv'
    BY DEF LoopInv, Workers, ClaimInv, UniqueInv, UniqueIn, NoTimerLeftBehind, loopVars, cacheVars
  <2>3. ExactInv'
    BY DEF ExactInv
  <2>4. QED BY <2>1, <2>2, <2>3
<1>2. CASE FindTraefik(w) \/ Store(w)
  <2> USE <1>2 DEF FindTraefik, Store
  <2>1. TypeOK'
    BY WorkersAssumption DEF loopVars, envVars, bounds, Addresses
  <2>2. ClaimInv' /\ UniqueInv' /\ NoTimerLeftBehind' /\ LoopInv'
    BY DEF LoopInv, Workers, ClaimInv, UniqueInv, UniqueIn, NoTimerLeftBehind, loopVars
  <2>3. ExactInv'
    BY DEF ExactInv, envVars, bounds
  <2>4. QED BY <2>1, <2>2, <2>3
<1>3. CASE Send(w)
  <2> USE <1>3 DEF Send
  <2>1. TypeOK'
    BY DEF envVars, bounds
  <2>2. ClaimInv' /\ UniqueInv'
    BY DEF ClaimInv, UniqueInv, UniqueIn
  <2>3. NoTimerLeftBehind' /\ LoopInv'
    BY DEF NoTimerLeftBehind, LoopInv, Workers
  <2>4. ExactInv'
    BY DEF ExactInv, envVars, bounds
  <2>5. QED BY <2>1, <2>2, <2>3, <2>4
<1>4. QED BY <1>1, <1>2, <1>3

-----------------------------------------------------------------------------
(* Steps of Run and watchEvents, and of the environment. *)

\* A discovery begins: with empty hands.
LEMMA BeginStep ==
    ASSUME IInv, StartRun \/ \E w \in Callbacks : TimerFires(w)
    PROVE  IInv'
<1> USE DEF IInv, TypeOK
<1>1. PICK w \in Workers :
          /\ BeginDiscovery(w)
          /\ UNCHANGED <<pending, cacheVars, envVars>>
          /\ \/ w = RunLoop /\ loop = "start" /\ loop' = "discover" /\ timer' = timer
             \/ w \in Callbacks /\ loop' = loop /\ timer' = "off"
  BY DEF StartRun, TimerFires, Workers
<1> USE DEF BeginDiscovery
<1>2. TypeOK'
  BY <1>1 DEF cacheVars, envVars, bounds
<1>3. LoopInv' /\ NoTimerLeftBehind'
  BY <1>1, WorkersAssumption DEF LoopInv, NoTimerLeftBehind, Workers
<1>4. ClaimInv' /\ UniqueInv'
  BY <1>1 DEF ClaimInv, UniqueInv, UniqueIn, cacheVars
<1>5. ExactInv'
  BY <1>1 DEF ExactInv, envVars, bounds
<1>6. QED BY <1>2, <1>3, <1>4, <1>5

\* The watch moves on, the process is signalled: no discovery is touched.
LEMMA WatchStep ==
    ASSUME IInv,
           \/ Subscribe \/ ReceiveEvent \/ QuietPasses \/ StreamEnds \/ Reconnect
           \/ StopLoop \/ OtherEvent \/ Signal
    PROVE  IInv'
<1> USE DEF IInv, TypeOK, Subscribe, ReceiveEvent, QuietPasses, StreamEnds, Reconnect,
            StopLoop, OtherEvent, Signal, TimerReset, TimerStop, findVars, cacheVars, envVars, bounds, loopVars
<1>1. UNCHANGED <<step, found, handled, published, running, steady>>
  OBVIOUS
<1>2. TypeOK'
  <2>1. /\ loop' \in {"start", "discover", "subscribe", "watch", "reconnect", "stopped"}
        /\ pending' \in BOOLEAN /\ timer' \in {"off", "fresh", "quiet"}
        /\ shutdown' \in BOOLEAN /\ answered' \in BOOLEAN
    OBVIOUS
  <2>2. /\ disconnects' \in 0..MaxDisconnects
        /\ UNCHANGED <<changes, failures, traefikIP, dockerRoutes>>
    BY BoundsAssumption
  <2>3. QED BY <1>1, <2>1, <2>2
<1>3. LoopInv' /\ NoTimerLeftBehind'
  BY DEF LoopInv, NoTimerLeftBehind
<1>4. ClaimInv' /\ UniqueInv'
  BY <1>1 DEF ClaimInv, UniqueInv, UniqueIn
<1>5. ExactInv'
  BY <1>1 DEF ExactInv
<1>6. QED BY <1>2, <1>3, <1>4, <1>5

\* A container changes: every discovery under way is disturbed.
LEMMA ChangeStep ==
    ASSUME IInv, NEW c \in Containers, ContainerChanges(c)
    PROVE  IInv'
<1> USE DEF IInv, TypeOK, ContainerChanges, findVars, cacheVars
<1>1. TypeOK'
  <2>1. changes' \in 0..MaxChanges
    BY BoundsAssumption
  <2>2. running' \subseteq Containers
    OBVIOUS
  <2>3. QED BY <2>1, <2>2
<1>2. LoopInv' /\ NoTimerLeftBehind' /\ ClaimInv' /\ UniqueInv' /\ ExactInv'
  BY DEF LoopInv, NoTimerLeftBehind, ClaimInv, UniqueInv, UniqueIn, ExactInv
<1>3. QED BY <1>1, <1>2

LEMMA StutterStep == ASSUME IInv, UNCHANGED vars PROVE IInv'
BY DEF IInv, TypeOK, LoopInv, ClaimInv, UniqueInv, UniqueIn, ExactInv, NoTimerLeftBehind, vars,
       loopVars, findVars, cacheVars, envVars, bounds

LEMMA NextIInv == IInv /\ [Next]_vars => IInv'
<1> SUFFICES ASSUME IInv, [Next]_vars PROVE IInv'
  OBVIOUS
<1>1. CASE \E w \in Workers : DiscoveryStep(w)
  BY <1>1, ListStep, RestOfDiscovery DEF DiscoveryStep
<1>2. CASE StartRun \/ \E w \in Callbacks : TimerFires(w)
  BY <1>2, BeginStep
<1>3. CASE \/ Subscribe \/ ReceiveEvent \/ QuietPasses \/ StreamEnds \/ Reconnect
           \/ StopLoop \/ OtherEvent \/ Signal
  BY <1>3, WatchStep
<1>4. CASE \E c \in Containers : ContainerChanges(c)
  BY <1>4, ChangeStep
<1>5. CASE UNCHANGED vars
  BY <1>5, StutterStep
<1>6. QED BY <1>1, <1>2, <1>3, <1>4, <1>5 DEF Next

\* The invariant of every behaviour.
THEOREM Invariance == Spec => []IInv
BY InitIInv, NextIInv, PTL DEF Spec

-----------------------------------------------------------------------------
\* Every variable keeps its type.
THEOREM TypeCorrect == Spec => []TypeOK
<1>1. IInv => TypeOK
  BY DEF IInv
<1>2. QED BY <1>1, Invariance, PTL

\* No container's HTTP routes are ever published in two formats, whatever
\* changes, fails or overlaps.
THEOREM OneHttpFormat == Spec => []HttpFormatIsUnique
<1>1. IInv => HttpFormatIsUnique
  BY DEF IInv, UniqueInv, UniqueIn, Http, HttpFormatIsUnique
<1>2. QED BY <1>1, Invariance, PTL

\* An undisturbed discovery finds what the label formats' priorities say.
THEOREM DiscoveryIsExact == Spec => []StableDiscoveryIsExact
<1>1. IInv => StableDiscoveryIsExact
  BY DEF IInv, ExactInv, StableDiscoveryIsExact
<1>2. QED BY <1>1, Invariance, PTL

\* No timer outlives the watch that armed it.
THEOREM TimersEndWithTheWatch == Spec => []NoTimerLeftBehind
<1>1. IInv => NoTimerLeftBehind
  BY DEF IInv
<1>2. QED BY <1>1, Invariance, PTL
=============================================================================
