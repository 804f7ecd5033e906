---------------------------- MODULE FlowDiagram ----------------------------
(***************************************************************************)
(* The diagram of the dashboard: FlowDiagram.tsx with its toolbar,         *)
(* useFlowLayout.ts, grouping.ts, filters.ts and health.ts.  Topologies    *)
(* and statistics arrive from the polls at any moment; the user groups,    *)
(* filters and expands; what is drawn is computed from all of it.          *)
(*                                                                         *)
(* Abstractions: a host name is a value with the base domain and the       *)
(* prefix that normalizeHostname yields and a rank in localeCompare; a     *)
(* search is a value with the set of hosts that contain it; positions are  *)
(* columns and rows, in units of the scale.  Labels and colours are left   *)
(* out, but for the health that colours a node.                            *)
(***************************************************************************)
EXTENDS Lists

CONSTANTS
    Domain,      \* base domain of every host
    Prefix,      \* prefix of every host
    Rank,        \* alphabetic rank of every host and of every group key
    Found,       \* for every search, the hosts it finds
    Topologies,  \* the topologies the API may report: [routes, sni, passthrough]
    Reports,     \* the statistics it may report, by host
    Threshold,   \* more hosts than this bring up the toolbar (5)
    NoStats      \* a host without recorded requests

Hostnames == DOMAIN Domain
Chips     == {"docker", "static", "traefik"}  \* SOURCE_OPTIONS: not all that exist
Modes     == {"none", "domain", "source", "prefix"}
Severity  == [idle |-> 0, healthy |-> 1, warning |-> 2, error |-> 3]
HealthStates == DOMAIN Severity
Unset     == "nothing"
Other     == "__other"

ASSUME DiagramAssumption ==
    /\ Threshold \in Nat \ {0}
    /\ DOMAIN Prefix = Hostnames
    /\ \A query \in DOMAIN Found : query # Unset /\ Found[query] \subseteq Hostnames
    /\ \A t \in Topologies :
           /\ t.routes \in Seq([host: Hostnames, source: STRING])
           /\ {t.sni, t.passthrough} \subseteq BOOLEAN
    /\ NoStats \notin [total: Nat, errors: Nat]
    /\ \A report \in Reports :
           report \in [Hostnames -> {NoStats} \cup [total: Nat, errors: Nat]]

\* localeCompare tells any two names apart, and no label of a host name is "__other".
ASSUME NamesAreDistinct ==
    /\ \A a, b \in DOMAIN Rank : Rank[a] \in Nat /\ (Rank[a] = Rank[b] => a = b)
    /\ Hostnames \cup {Domain[h] : h \in Hostnames} \cup {Prefix[h] : h \in Hostnames}
           \subseteq DOMAIN Rank
    /\ \A t \in Topologies : \A i \in DOMAIN t.routes : t.routes[i].source \in DOMAIN Rank
    /\ Other \notin DOMAIN Rank

VARIABLES
    topology,        \* the topology received last
    stats,           \* the statistics received last
    groupingMode,
    expandedGroups,  \* keys of the groups that were expanded
    search, source, health, matchMode,
    storage,         \* localStorage: grouping and match mode
    dropping         \* the selections that the pending effects will drop

diagramVars ==
    <<topology, stats, groupingMode, expandedGroups, search, source, health, matchMode,
      storage, dropping>>

-----------------------------------------------------------------------------
(* Routes, counts and matches *)

\* The routes whose host no earlier route has; ReportedAt is where they stand.
FirstAt(routes, i) == \A j \in 1 .. (i - 1) : routes[j].host # routes[i].host

\* Mutant: a node for every route.
EveryRoute(routes) == {routes[i] : i \in DOMAIN routes}

UniqueRoutes(routes) == {routes[i] : i \in {i \in DOMAIN routes : FirstAt(routes, i)}}

FirstRoutes == [t \in Topologies |-> UniqueRoutes(t.routes)]

AllRoutes == FirstRoutes[topology]

ReportedAt ==
    [t \in Topologies |->
        [h \in {r.host : r \in FirstRoutes[t]} |->
            CHOOSE i \in DOMAIN t.routes : t.routes[i].host = h /\ FirstAt(t.routes, i)]]

HealthOf(stat) ==
    IF stat = NoStats THEN "idle"
    ELSE LET total == IF stat.total = 0 THEN 1 ELSE stat.total
         IN  IF 2 * stat.errors > total THEN "error"
             ELSE IF 10 * stat.errors > total THEN "warning"
             ELSE "healthy"

SourceCount(s) == Cardinality({route \in AllRoutes : route.source = s})
HealthCount(h) == Cardinality({route \in AllRoutes : HealthOf(stats[route.host]) = h})

ToolbarActive == Cardinality(AllRoutes) > Threshold

IsFilterActive == search # Unset \/ source # Unset \/ health # Unset
Filtering      == ToolbarActive /\ IsFilterActive

MatchesRoute(route) ==
    /\ search # Unset => route.host \in Found[search]
    /\ source # Unset => route.source = source
    /\ health # Unset => HealthOf(stats[route.host]) = health

\* Mutant: filters hide hosts although the toolbar is gone.
AlwaysFiltered ==
    {route \in AllRoutes : (IsFilterActive /\ matchMode = "hide") => MatchesRoute(route)}

VisibleRoutes ==
    {route \in AllRoutes : (Filtering /\ matchMode = "hide") => MatchesRoute(route)}

\* How many of the routes come before this one.
Position(route, routes, place) ==
    Cardinality({r \in routes : place[r.host] < place[route.host]})

-----------------------------------------------------------------------------
(* Groups *)

GroupKey(route, mode) ==
    CASE mode = "source" -> route.source
      [] mode = "prefix" -> Prefix[route.host]
      [] OTHER           -> Domain[route.host]

\* The buckets: prefixes that only one host has share one.
Buckets(routes, mode) ==
    LET keys   == {GroupKey(r, mode) : r \in routes}
        Of(k)  == {r \in routes : GroupKey(r, mode) = k}
        single == {k \in keys : mode = "prefix" /\ Cardinality(Of(k)) = 1}
        tail   == UNION {Of(k) : k \in single}
    IN  {[key |-> k, members |-> Of(k)] : k \in keys \ single} \cup
        (IF tail = {} THEN {} ELSE {[key |-> Other, members |-> tail]})

\* Mutant: groups in the order of their first route, which reloads shuffle.
AsReported(a, b) ==
    \E r \in a.members : \A q \in b.members :
        ReportedAt[topology][r.host] < ReportedAt[topology][q.host]

\* groupRoutes sorts groups by label, with "other" last, and members by host name.
GroupBefore(a, b) == a.key # Other /\ (b.key = Other \/ Rank[a.key] < Rank[b.key])

\* Mutant: errors are added up, the requests are those of one host.
ErrorsOnly(members) ==
    LET known == {r \in members : stats[r.host] # NoStats}
    IN  IF known = {} THEN NoStats
        ELSE [total  |-> stats[(CHOOSE r \in known : TRUE).host].total,
              errors |-> Total([r \in known |-> stats[r.host].errors], known)]

AggregateStats(members) ==
    LET known == {r \in members : stats[r.host] # NoStats}
    IN  IF known = {} THEN NoStats
        ELSE [total  |-> Total([r \in known |-> stats[r.host].total], known),
              errors |-> Total([r \in known |-> stats[r.host].errors], known)]

-----------------------------------------------------------------------------
(* What is drawn *)

EffectiveMode == IF ToolbarActive THEN groupingMode ELSE "none"

\* Mutant: a group is dimmed unless all of it matches.
DimUnlessAll(members) ==
    Filtering /\ matchMode = "spotlight" /\ \E r \in members : ~MatchesRoute(r)

\* What spotlight dims: what holds no match.
Dimmed(members) ==
    Filtering /\ matchMode = "spotlight" /\ \A r \in members : ~MatchesRoute(r)

\* What the components of the nodes add: the dot for the health of the statistics they
\* get, and handles, without which the diagram leaves an edge out.
ServiceNode(stat) == [health |-> HealthOf(stat), handles |-> {"target"}]

\* Mutant: a group has no handle for the edges to its services.
LeafNode(stat) == [health |-> HealthOf(stat), handles |-> {"target"}]

GroupNode(stat) == [health |-> HealthOf(stat), handles |-> {"target", "source"}]

InfraNode   == [handles |-> {"target", "source"}]
TraefikNode == [handles |-> {"target", "source"}]

\* A node stands for the routes it shows: a service for one, a group for all its own.
Service(route, col, row) ==
    [id |-> <<"svc", route.host>>, col |-> col, row |-> row, shows |-> {route.host},
     dimmed |-> Dimmed({route}), body |-> ServiceNode(stats[route.host])]

Group(group, row) ==
    [id |-> <<"grp", group.key>>, col |-> 3, row |-> row,
     shows |-> {r.host : r \in group.members}, dimmed |-> Dimmed(group.members),
     body |-> GroupNode(AggregateStats(group.members))]

IsCollected(group) == Cardinality(group.members) > 1
IsExpanded(group)  == IsCollected(group) /\ group.key \in expandedGroups

\* Mutant: an expanded group takes one row.
OneRow(group) == 1

Height(group) == IF IsExpanded(group) THEN Cardinality(group.members) ELSE 1

\* cursorY when the group's turn comes.
Row(group, groups) ==
    LET before == {g \in groups : GroupBefore(g, group)}
    IN  Total([g \in before |-> Height(g)], before)

DrawnGroup(group, row) ==
    IF ~IsCollected(group) THEN {Service(r, 3, row) : r \in group.members}
    ELSE {Group(group, row)} \cup
         {Service(r, 4, row + Position(r, group.members, Rank)) :
              r \in IF IsExpanded(group) THEN group.members ELSE {}}

Routed ==
    LET groups == Buckets(VisibleRoutes, EffectiveMode)
    IN  IF EffectiveMode = "none"
        THEN {Service(r, 3, Position(r, VisibleRoutes, ReportedAt[topology])) :
                  r \in VisibleRoutes}
        ELSE UNION {DrawnGroup(g, Row(g, groups)) : g \in groups}

Infra ==
    {"browser", "http-client", "http-redirect", "bun-https"} \cup
    (IF topology.sni THEN {"sni-router"} ELSE {}) \cup
    (IF topology.sni \/ topology.passthrough THEN {"traefik"} ELSE {})

InfraEdges ==
    {<<"browser", IF topology.sni THEN "sni-router" ELSE "bun-https">>,
     <<"http-client", "http-redirect">>} \cup
    (IF topology.sni THEN {<<"sni-router", "bun-https">>, <<"sni-router", "traefik">>}
     ELSE {})

Fixed(name) == <<"infra", name>>

\* The edge to a node starts at its expanded group, or else at the server.
FlowEdges ==
    LET nodes == Routed
        groups(n) == {g \in nodes : g.id[1] = "grp" /\ n.shows \subseteq g.shows}
        from(n) == IF n.col = 4 THEN {g.id : g \in groups(n)} ELSE {Fixed("bun-https")}
    IN  {<<Fixed(e[1]), Fixed(e[2])>> : e \in InfraEdges}
        \cup UNION {from(n) \X {n.id} : n \in nodes}

-----------------------------------------------------------------------------
(* Steps *)

DiagramTypeOK ==
    /\ topology \in Topologies
    /\ stats \in Reports
    /\ groupingMode \in Modes
    /\ search \in DOMAIN Found \cup {Unset}
    /\ source \in Chips \cup {Unset}
    /\ health \in HealthStates \cup {Unset}
    /\ matchMode \in {"hide", "spotlight"}
    /\ storage = [grouping |-> groupingMode, match |-> matchMode]
    /\ dropping \subseteq {"source", "health"}

DiagramInit ==
    /\ topology \in Topologies
    /\ stats \in Reports
    /\ storage \in [grouping : Modes, match : {"hide", "spotlight"}]
    /\ groupingMode = storage.grouping
    /\ matchMode = storage.match
    /\ expandedGroups = {}
    /\ search = Unset /\ source = Unset /\ health = Unset
    /\ dropping = {}

\* The selections whose chip has a count of zero.
Unmatched ==
    {"source" : x \in {s \in {source} \ {Unset} : SourceCount(s) = 0}} \cup
    {"health" : x \in {h \in {health} \ {Unset} : HealthCount(h) = 0}}

\* Mutant: the effects run when a selection changes, not when the counts do.
OnSelection ==
    dropping' = IF dropping # {} \/ <<source, health>>' = <<source, health>>
                THEN dropping ELSE Unmatched'

\* A render schedules the effects with the counts it was made from; those that are
\* pending already run first.
RenderDiagram == dropping' = IF dropping # {} THEN dropping ELSE Unmatched'

ReceiveTopology ==
    /\ topology' \in Topologies
    /\ UNCHANGED <<stats, groupingMode, expandedGroups, search, source, health,
                   matchMode, storage>>
    /\ RenderDiagram

ReceiveStats ==
    /\ stats' \in Reports
    /\ UNCHANGED <<topology, groupingMode, expandedGroups, search, source, health,
                   matchMode, storage>>
    /\ RenderDiagram

\* Mutant: expanded groups are kept.
KeepExpanded == UNCHANGED expandedGroups

CollapseAll == expandedGroups' = {}

\* Mutant: the mode is not stored.
ForgetGrouping(mode) == UNCHANGED storage

StoreGrouping(mode) == storage' = [storage EXCEPT !.grouping = mode]

SetGroupingMode == \E mode \in Modes :
    /\ ToolbarActive
    /\ groupingMode' = mode
    /\ StoreGrouping(mode)
    /\ CollapseAll
    /\ UNCHANGED <<topology, stats, search, source, health, matchMode>>
    /\ RenderDiagram

SetMatchMode == \E mode \in {"hide", "spotlight"} :
    /\ ToolbarActive
    /\ matchMode' = mode
    /\ storage' = [storage EXCEPT !.match = mode]
    /\ UNCHANGED <<topology, stats, groupingMode, expandedGroups, search, source, health>>
    /\ RenderDiagram

SetSearch ==
    /\ ToolbarActive
    /\ search' \in DOMAIN Found \cup {Unset}
    /\ UNCHANGED <<topology, stats, groupingMode, expandedGroups, source, health,
                   matchMode, storage>>
    /\ RenderDiagram

Toggled(current, next) == IF current = next THEN Unset ELSE next

\* A chip with a count of zero is disabled.
ChipEnabled(count) == count > 0

ToggleSource == \E s \in Chips :
    /\ ToolbarActive /\ ChipEnabled(SourceCount(s))
    /\ source' = Toggled(source, s)
    /\ UNCHANGED <<topology, stats, groupingMode, expandedGroups, search, health,
                   matchMode, storage>>
    /\ RenderDiagram

ToggleHealth == \E h \in HealthStates :
    /\ ToolbarActive /\ ChipEnabled(HealthCount(h))
    /\ health' = Toggled(health, h)
    /\ UNCHANGED <<topology, stats, groupingMode, expandedGroups, search, source,
                   matchMode, storage>>
    /\ RenderDiagram

CanClear == ToolbarActive /\ IsFilterActive

ClearFilters ==
    /\ CanClear
    /\ search' = Unset /\ source' = Unset /\ health' = Unset
    /\ UNCHANGED <<topology, stats, groupingMode, expandedGroups, matchMode, storage>>
    /\ RenderDiagram

\* onNodeClick: only groups react.
ClickGroup == \E node \in Routed :
    /\ node.id[1] = "grp"
    /\ LET key == node.id[2]
       IN  expandedGroups' = IF key \in expandedGroups THEN expandedGroups \ {key}
                             ELSE expandedGroups \cup {key}
    /\ UNCHANGED <<topology, stats, groupingMode, search, source, health, matchMode,
                   storage>>
    /\ RenderDiagram

RunEffects ==
    /\ dropping # {}
    /\ source' = IF "source" \in dropping THEN Unset ELSE source
    /\ health' = IF "health" \in dropping THEN Unset ELSE health
    /\ UNCHANGED <<topology, stats, groupingMode, expandedGroups, search, matchMode,
                   storage>>
    /\ dropping' = Unmatched'

\* The user leaves the page and comes back to it: only what is stored is kept.
Remount ==
    /\ groupingMode' = storage.grouping
    /\ matchMode' = storage.match
    /\ expandedGroups' = {}
    /\ search' = Unset /\ source' = Unset /\ health' = Unset
    /\ dropping' = {}
    /\ UNCHANGED <<topology, stats, storage>>

DiagramNext ==
    \/ ReceiveTopology \/ ReceiveStats
    \/ SetGroupingMode \/ SetMatchMode \/ SetSearch
    \/ ToggleSource \/ ToggleHealth \/ ClearFilters
    \/ ClickGroup \/ RunEffects \/ Remount

\* React runs the effects of a render.
DiagramSpec == DiagramInit /\ [][DiagramNext]_diagramVars /\ WF_diagramVars(RunEffects)

-----------------------------------------------------------------------------
(* Properties *)

\* Every host that is not filtered out is drawn exactly once, as a service or within a
\* collapsed group, and no two nodes share an id: with several routes for a host, with
\* singles that share a group and with groups of one (useFlowLayout.ts:154-160, 219-273,
\* grouping.ts:77-86).
EveryHostOnce ==
    LET nodes  == Routed
        opened == {n \in nodes : n.id[1] = "grp" /\ n.id[2] \in expandedGroups}
        leaves == nodes \ opened
    IN  /\ \A m, n \in nodes : m.id = n.id => m = n
        /\ \A route \in VisibleRoutes :
               \E n \in leaves : {m \in leaves : route.host \in m.shows} = {n}

\* No node is drawn on top of another, whatever is expanded (useFlowLayout.ts:225-272).
NothingOverlaps ==
    LET nodes == Routed
    IN  \A m, n \in nodes : m.col = n.col /\ m.row = n.row => m = n

\* The keys that the groups of a grouping may have.
KeysOf(mode) ==
    CASE mode = "none"   -> {}
      [] mode = "domain" -> {Domain[h] : h \in Hostnames}
      [] mode = "prefix" -> {Prefix[h] : h \in Hostnames} \cup {Other}
      [] mode = "source" ->
             UNION {{t.routes[i].source : i \in DOMAIN t.routes} : t \in Topologies}

\* The keys that are expanded are keys of the grouping in use: switching never opens a
\* group that merely has the same name (FlowDiagram.tsx:54-59).
ExpandedKeysFitMode == expandedGroups \subseteq KeysOf(groupingMode)

\* Every edge leaves a node that is drawn by a handle it has, and enters one so, and each
\* host or group has an edge: none is silently left out; the passthrough proxy is there
\* whenever the SNI router is (useFlowLayout.ts:140-152, 275-316, the Handles of nodes/).
EdgesAttach ==
    LET nodes == Routed
        withHandle(h) ==
            {n.id : n \in {n \in nodes : h \in n.body.handles}} \cup
            {Fixed(name) : name \in {name \in Infra :
                h \in (IF name = "traefik" THEN TraefikNode ELSE InfraNode).handles}}
    IN  /\ \A e \in FlowEdges :
               e[1] \in withHandle("source") /\ e[2] \in withHandle("target")
        /\ \A n \in nodes : \E e \in FlowEdges : e[2] = n.id

\* Whatever arrives and whatever is clicked, the layout has a place and an edge for every
\* host.
LayoutIsSound ==
    /\ DiagramTypeOK /\ ExpandedKeysFitMode
    /\ EveryHostOnce /\ NothingOverlaps /\ EdgesAttach

\* A host of the topology is missing from the diagram only while the toolbar offers to
\* clear the filters: a filter that was set before the toolbar went does not linger
\* (useFlowLayout.ts:205-217).
NothingHiddenForGood ==
    {topology.routes[i].host : i \in DOMAIN topology.routes} # UNION {n.shows : n \in Routed}
        => CanClear

\* In both modes a host that matches is drawn and lit, itself or by its group, and
\* nothing without a match is lit (useFlowLayout.ts:209-214, 241).
MatchesStandOut ==
    Filtering =>
        LET lit == {n \in Routed : ~n.dimmed}
            matching == {r.host : r \in {r \in AllRoutes : MatchesRoute(r)}}
        IN  /\ matching \subseteq UNION {n.shows : n \in lit}
            /\ \A n \in lit : n.shows \cap matching # {}

\* Filters neither hide a host beyond recall nor light a wrong one.
FiltersAreHonest == NothingHiddenForGood /\ MatchesStandOut

\* A group looks neither worse than the worst of its hosts nor better than the best,
\* hosts without requests aside (grouping.ts:103-133, health.ts:5-11).
GroupHealthIsBetween ==
    \A n \in Routed :
        LET known == {Severity[HealthOf(stats[h])] : h \in n.shows} \ {Severity["idle"]}
            looks == Severity[n.body.health]
        IN  IF known = {} THEN n.body.health = "idle"
            ELSE (\E k \in known : k <= looks) /\ (\E k \in known : looks <= k)

\* A poll that brings the same routes in another order, as every reload of the proxy may,
\* moves nothing in a grouped diagram (grouping.ts:88-98).
OrderDoesNotMatter ==
    [][/\ AllRoutes' = AllRoutes /\ EffectiveMode # "none"
       /\ UNCHANGED <<stats, groupingMode, expandedGroups, search, source, health,
                      matchMode>>
       => Routed' = Routed]_diagramVars

\* A selection whose chip is disabled, so that the chip cannot undo it, does not stay
\* (FlowDiagram.tsx:100-107).
NoStuckSelection ==
    /\ (source # Unset /\ SourceCount(source) = 0)
           ~> (source = Unset \/ SourceCount(source) > 0)
    /\ (health # Unset /\ HealthCount(health) = 0)
           ~> (health = Unset \/ HealthCount(health) > 0)
=============================================================================
