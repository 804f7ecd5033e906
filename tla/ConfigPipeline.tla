--------------------------- MODULE ConfigPipeline ---------------------------
(***************************************************************************)
(* The configuration pipeline of cmd/pintle/main.go: the file and Docker   *)
(* providers publish messages on configCh; main handles the first one      *)
(* itself, then starts Docker discovery and two watchers, of which one     *)
(* validates messages and feeds the aggregator, and the other applies what *)
(* the aggregator delivers to the router and to the TCP route list.        *)
(*                                                                         *)
(* The aggregator is the module Aggregator with main and the first watcher *)
(* as its updaters.  A provider publishes versions 1, 2, ... of what it    *)
(* observes; how it observes them is the providers' own business.          *)
(***************************************************************************)
EXTENDS Naturals, Sequences

CONSTANTS
    File, Docker,   \* the two providers
    MaxVersion,     \* bound of the model: versions each provider publishes
    ChannelCap,     \* capacity of configCh: 4 in the code
    NoUpdater,      \* the aggregator's mutex is free
    Domains,        \* passthrough domains
    Ports,          \* ports of TCP routes
    FileCases       \* what the versions of the routes file may say

Providers == {File, Docker}
Versions  == 1..MaxVersion
Updaters  == {"main", "watcher"}
Messages  == [provider: Providers, version: Versions]

\* Of a version of the file: whether its message carries no Err, and what it lists.
Content == [valid: BOOLEAN, passthrough: SUBSET Domains, ports: SUBSET Ports]

ASSUME PipelineAssumption ==
    /\ File # Docker
    /\ MaxVersion \in Nat \ {0}
    /\ ChannelCap \in Nat \ {0}
    /\ NoUpdater \notin Updaters
    /\ FileCases \subseteq [Versions -> Content]

VARIABLES
    configs, holder, outputCh, pc, msg, merged, accepted, received,
    published,   \* the last version each provider has read
    held,        \* the version it is sending, 0 when it is not
    configCh,    \* the channel between the providers and their reader
    main,        \* control point of run()
    watcher,     \* the watcher that validates: it selects or has returned
    applier,     \* the watcher that applies, and main's own first application
    router,      \* the configuration in the router
    tcp,         \* the configuration behind allTcpRoutes
    sni,         \* the passthrough domains the SNI router was started with
    shutdown,    \* the process context is done
    staticOnly,  \* cfg.StaticOnly
    contents     \* environment: what every version of the file says

aggVars  == <<configs, holder, outputCh, pc, msg, merged, accepted, received>>
provVars == <<published, held>>
appVars  == <<router, tcp, sni>>
givens   == <<staticOnly, contents>>
vars == <<aggVars, provVars, appVars, configCh, main, watcher, applier, shutdown, givens>>

Agg == INSTANCE Aggregator WITH MaxUpdates <- 2 * MaxVersion

-----------------------------------------------------------------------------
Init ==
    /\ Agg!Init
    /\ published = [p \in Providers |-> 0]
    /\ held = [p \in Providers |-> 0]
    /\ configCh = <<>>
    /\ main = "initial"
    /\ watcher = "select"
    /\ applier = "idle"
    /\ router = Agg!Empty
    /\ tcp = Agg!Empty
    /\ sni = {}
    /\ shutdown = FALSE
    /\ staticOnly \in BOOLEAN
    /\ contents \in FileCases

\* The versions that do not parse, and those that static-only mode refuses.
bad     == {v \in Versions : ~contents[v].valid}
dynamic == {v \in Versions : contents[v].passthrough # {} \/ contents[v].ports # {}}

\* ValidateMessage: the message is rejected as a whole.
NoErrCheck(m) ==                                      \* mutant: msg.Err is ignored
    staticOnly /\ (m.provider # File \/ m.version \in dynamic)
Rejects(m) ==
    \/ m.provider = File /\ m.version \in bad
    \/ staticOnly /\ (m.provider # File \/ m.version \in dynamic)

(* The providers. *)

\* The file provider starts first; Docker discovery once main has applied the
\* initial configuration, and never in static-only mode.
FromTheStart(p) == main # "failed"                    \* mutant: both start at once
Started(p) ==
    CASE p = File   -> main # "failed"
      [] p = Docker -> main = "running" /\ ~staticOnly

\* What the select of a blocked sender waits for.
ChannelHasRoom == Len(configCh) < ChannelCap

\* A provider reads its source ...
Publish(p) ==
    /\ Started(p)
    /\ held[p] = 0
    /\ published[p] < MaxVersion
    /\ published' = [published EXCEPT ![p] = @ + 1]
    /\ held' = [held EXCEPT ![p] = published'[p]]
    /\ UNCHANGED <<aggVars, appVars, configCh, main, watcher, applier, shutdown, givens>>

\* ... and sends the message, waiting for room in the channel.
SendMessage(p) ==
    /\ held[p] # 0
    /\ ChannelHasRoom
    /\ configCh' = Append(configCh, [provider |-> p, version |-> held[p]])
    /\ held' = [held EXCEPT ![p] = 0]
    /\ UNCHANGED <<aggVars, appVars, published, main, watcher, applier, shutdown, givens>>

(* main, up to the start of the watchers. *)

\* The first message must be valid: run() returns its error otherwise.
TakeInitial ==
    /\ main = "initial"
    /\ configCh # <<>>
    /\ configCh' = Tail(configCh)
    /\ IF Rejects(Head(configCh))
       THEN main' = "failed" /\ UNCHANGED aggVars
       ELSE main' = "updating" /\ Agg!Call("main", Head(configCh))
    /\ UNCHANGED <<provVars, appVars, watcher, applier, shutdown, givens>>

\* initialCfg := <-aggCh, after agg.Update has returned.
TakeInitialMerged ==
    /\ main = "updating"
    /\ pc["main"] = "idle"
    /\ Agg!Receive
    /\ main' = "applying"
    /\ applier' = "router"
    /\ UNCHANGED <<provVars, appVars, configCh, watcher, shutdown, givens>>

(* The watcher that validates. *)

\* A rejected message leaves the watcher in its loop.
ReturnOnReject == "stopped"                           \* mutant: return, not continue
AfterReject    == "select"

Forward ==
    /\ main = "running"
    /\ watcher = "select"
    /\ pc["watcher"] = "idle"
    /\ configCh # <<>>
    /\ configCh' = Tail(configCh)
    /\ IF Rejects(Head(configCh))
       THEN watcher' = AfterReject /\ UNCHANGED aggVars
       ELSE watcher' = watcher /\ Agg!Call("watcher", Head(configCh))
    /\ UNCHANGED <<provVars, appVars, main, applier, shutdown, givens>>

\* The steps of agg.Update, by main or by the watcher.
AggregatorStep ==
    /\ \E u \in Updaters : Agg!UpdateStep(u)
    /\ UNCHANGED <<provVars, appVars, configCh, main, watcher, applier, shutdown, givens>>

(* The watcher that applies. *)

TakeMerged ==
    /\ main = "running"
    /\ applier = "idle"
    /\ Agg!Receive
    /\ applier' = "router"
    /\ UNCHANGED <<provVars, appVars, configCh, main, watcher, shutdown, givens>>

\* rtr.Update(merged.Routes) replaces the whole table.
OverlayDocker == [received EXCEPT !.cfg[File] = router.cfg[File]] \* mutant: a partial update
NewTable      == received

ApplyRouter ==
    /\ applier = "router"
    /\ router' = NewTable
    /\ applier' = IF staticOnly /\ main = "running" THEN "idle" ELSE "tcp"
    /\ UNCHANGED <<aggVars, provVars, tcp, sni, configCh, main, watcher, shutdown, givens>>

\* The listener topology is decided once, from the initial configuration: with
\* passthrough domains the SNI router is started with those.
ListenerTopology ==
    IF main = "applying" /\ ~staticOnly /\ received.cfg[File] # 0
    THEN contents[received.cfg[File]].passthrough ELSE sni

\* allTcpRoutes, under tcpMu.  In run() the first application is followed by
\* the start of Docker discovery and of the watchers.
CurrentConfig == [stamp |-> Len(accepted), cfg |-> configs] \* mutant: read it again
NewTcpRoutes  == received

ApplyTcp ==
    /\ applier = "tcp"
    /\ tcp' = NewTcpRoutes
    /\ applier' = "idle"
    /\ main' = "running"
    /\ sni' = ListenerTopology
    /\ UNCHANGED <<aggVars, provVars, router, configCh, watcher, shutdown, givens>>

(* Shutdown. *)

Signal ==
    /\ ~shutdown
    /\ shutdown' = TRUE
    /\ UNCHANGED <<aggVars, provVars, appVars, configCh, main, watcher, applier, givens>>

\* ctx.Done() in the select of either watcher.
StopWatcher ==
    /\ shutdown /\ main = "running"
    /\ watcher = "select" /\ pc["watcher"] = "idle"
    /\ watcher' = "stopped"
    /\ UNCHANGED <<aggVars, provVars, appVars, configCh, main, applier, shutdown, givens>>

StopApplier ==
    /\ shutdown /\ main = "running"
    /\ applier = "idle"
    /\ applier' = "stopped"
    /\ UNCHANGED <<aggVars, provVars, appVars, configCh, main, watcher, shutdown, givens>>

Next ==
    \/ \E p \in Providers : Publish(p) \/ SendMessage(p)
    \/ TakeInitial \/ TakeInitialMerged
    \/ Forward \/ AggregatorStep \/ TakeMerged \/ ApplyRouter \/ ApplyTcp
    \/ Signal \/ StopWatcher \/ StopApplier

Spec == Init /\ [][Next]_vars

\* Goroutines are scheduled.  Nothing obliges a provider to see a change or
\* the process to be signalled.
Fairness ==
    /\ \A p \in Providers : WF_vars(SendMessage(p))
    /\ WF_vars(TakeInitial) /\ WF_vars(TakeInitialMerged)
    /\ WF_vars(Forward) /\ WF_vars(AggregatorStep)
    /\ WF_vars(TakeMerged) /\ WF_vars(ApplyRouter) /\ WF_vars(ApplyTcp)

FairSpec == Spec /\ Fairness

-----------------------------------------------------------------------------
(* Properties. *)

\* Every variable keeps its type and no channel exceeds its capacity.
TypeOK ==
    /\ Agg!TypeOK
    /\ published \in [Providers -> 0..MaxVersion]
    /\ held \in [Providers -> 0..MaxVersion]
    /\ configCh \in Seq(Messages) /\ Len(configCh) <= ChannelCap
    /\ main \in {"initial", "failed", "updating", "applying", "running"}
    /\ watcher \in {"select", "stopped"}
    /\ applier \in {"idle", "router", "tcp", "stopped"}
    /\ router \in Agg!Snapshot
    /\ tcp \in Agg!Snapshot
    /\ shutdown \in BOOLEAN
    /\ staticOnly \in BOOLEAN
    /\ contents \in FileCases

\* The router follows the log of accepted configurations: it only ever holds
\* one of them, as it was accepted, and it never goes back to an earlier one.
Log == INSTANCE ConfigLog WITH
          log <- accepted, seen <- router.stamp, applied <- router.cfg
RouterFollowsLog == Log!SafeSpec

\* "A routes file with any invalid destination is rejected as a whole at startup
\* and on reload": no part of a rejected message is ever accepted, routed or passed through.
RejectedStaysOut ==
    LET files == {configs[File], router.cfg[File], tcp.cfg[File]}
    IN  /\ files \cap bad = {}
        /\ sni \in {{}} \cup {contents[v].passthrough : v \in Versions \ bad}
        /\ staticOnly =>
              /\ {configs[Docker], router.cfg[Docker], tcp.cfg[Docker]} = {0}
              /\ files \cap dynamic = {}

\* Nothing is served before the routes file has been: Docker alone never
\* makes up the first configuration.
FileComesFirst == main = "running" => router.cfg[File] # 0

\* Between two applications the TCP routes and the HTTP routes come from the
\* same configuration, whatever was accepted meanwhile.
TcpMatchesRouter ==
    (main = "running" /\ applier \in {"idle", "router", "stopped"} /\ ~staticOnly) => tcp = router

\* What is served, over HTTP and over TCP, was accepted as a whole and as one, from the
\* file first on (main.go:94-154).
RunsAsAccepted == TypeOK /\ RejectedStaysOut /\ FileComesFirst /\ TcpMatchesRouter

\* The last version of p that was not rejected.
LastGood(p) ==
    LET good == {v \in 1..published[p] : ~Rejects([provider |-> p, version |-> v])}
    IN  IF good = {} THEN 0 ELSE CHOOSE v \in good : \A w \in good : w <= v

\* While the process runs, the last valid version of every provider ends up in
\* the router, however often rejected versions come between.
LatestIsApplied ==
    \A p \in Providers :
        <>[](main = "running" /\ ~shutdown) => <>[](router.cfg[p] = LastGood(p))
=============================================================================
