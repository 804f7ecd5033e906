----------------------------- MODULE RouteTable -----------------------------
(***************************************************************************)
(* The route table of internal/router/router.go: Update groups the merged  *)
(* routes by host and by HostRegexp pattern and sorts every group by the   *)
(* length of the path; Resolve picks the first route that matches.  The    *)
(* routes of the providers are merged in the random order of a Go map, so  *)
(* the order of two providers may change with every reload.                *)
(*                                                                         *)
(* A path "/a/b" is the sequence of its segments <<a, b>>; an empty        *)
(* segment is a slash at the end or a double slash, and "/" is <<Empty>>.  *)
(* Routes whose path does not begin with a slash match no request and are  *)
(* left out.  Which member of a pool answers is the module HealthProbes'.  *)
(***************************************************************************)
EXTENDS Lists, SequencesExt

CONSTANTS
    Providers,
    Hosts,         \* hostnames of requests and of exact routes
    Patterns,      \* hostnames of HostRegexp routes
    HostsOf,       \* the hosts every pattern matches
    Invalid,       \* the patterns that do not compile
    Empty,         \* the empty segment
    Width,         \* segments and the lengths of their names
    NoPool,        \* BackendPool of a route with a single target
    Announcements, \* the lists of routes a provider may publish
    Requests       \* the paths of requests that the properties look at

Segments == DOMAIN Width
Paths    == Seq(Segments) \ {<<>>}
Root     == <<Empty>>

ASSUME NamesAssumption ==
    /\ Hosts \cap Patterns = {}
    /\ Invalid \subseteq Patterns
    /\ HostsOf \in [Patterns \ Invalid -> SUBSET Hosts]
    /\ Empty \in Segments
    /\ \A s \in Segments : Width[s] \in Nat /\ (Width[s] = 0 <=> s = Empty)
    /\ Requests \subseteq Paths

Route == [host: Hosts \cup Patterns, path: Paths, strip: BOOLEAN, pool: STRING, target: STRING]

ASSUME AnnouncementsAssumption ==
    /\ IsFiniteSet(Providers)
    /\ \A p \in Providers : Announcements[p] \subseteq Seq(Route)

\* A pool is "static:<index>" of one entry of the routes file, and all its routes have
\* the path and the strip of that entry; no other provider names pools.
ASSUME PoolsAssumption ==
    \A p, q \in Providers : \A s \in Announcements[p], t \in Announcements[q] :
        p # q \/ s = t =>
            \A i \in DOMAIN s, j \in DOMAIN t :
                s[i].host = t[j].host /\ s[i].pool = t[j].pool /\ s[i].pool # NoPool =>
                    s[i].path = t[j].path /\ s[i].strip = t[j].strip

VARIABLES
    messages,    \* a.configs of the aggregator: the last routes of every provider
    routes,      \* r.routes: the exact routes of every host
    regexRoutes  \* r.regexRoutes: pattern and routes, in order

vars == <<messages, routes, regexRoutes>>

-----------------------------------------------------------------------------
(* Update. *)

\* len(route.Path): every segment with the slash before it.
SegmentCount(path) == Len(path)                       \* mutant: "/" ties with "/a"
PathLength(path)   == Total([i \in DOMAIN path |-> 1 + Width[path[i]]], DOMAIN path)

\* byPathDesc, a stable sort.
BackToFront(s, j, i) ==                               \* mutant: sort.Slice leaves ties to chance
    \/ PathLength(s[j].path) > PathLength(s[i].path)
    \/ PathLength(s[j].path) = PathLength(s[i].path) /\ (IF Len(s) % 2 = 0 THEN j < i ELSE j > i)
GoesBefore(s, j, i) ==
    \/ j < i /\ PathLength(s[j].path) >= PathLength(s[i].path)
    \/ j > i /\ PathLength(s[j].path) > PathLength(s[i].path)
LongerFirst(s) == {p \in (DOMAIN s) \X (DOMAIN s) : GoesBefore(s, p[1], p[2])}
ByPathDesc(s)  == Sorted(LongerFirst(s), s)

\* The routes of one host or of one pattern, grouped by the hostname's text.
Named(all, h) == Only(all, {i \in DOMAIN all : all[i].host = h})

\* A pattern that does not compile is skipped, with all its routes.
EveryPattern(all) == {i \in DOMAIN all : all[i].host \in Patterns} \* mutant: no group is found again
FirstOfPattern(all) ==
    {i \in DOMAIN all : /\ all[i].host \in Patterns \ Invalid
                        /\ \A j \in 1..(i - 1) : all[j].host # all[i].host}

\* regexIndex: patterns in the order of their first route.
PatternGroups(all) ==
    LET firsts == FirstOfPattern(all)
        order  == InOrder(Ascending(firsts), firsts)
    IN  [k \in DOMAIN order |-> [pattern |-> all[order[k]].host,
                                 routes  |-> ByPathDesc(Named(all, all[order[k]].host))]]

\* The order in which merge walks the map, as every provider's place in it.
Orders == {o \in [Providers -> 1 .. Cardinality(Providers)] :
              \A p, q \in Providers : o[p] = o[q] => p = q}

\* The routes of all messages m: the i-th of p is the entry <<p, i>>.
Entries(m)   == UNION {{p} \X (DOMAIN m[p]) : p \in Providers}
At(m, e)     == m[e[1]][e[2]]
Walked(o, d, e) == o[d[1]] < o[e[1]] \/ (o[d[1]] = o[e[1]] /\ d[2] < e[2])
Merged(m, o) ==
    LET walk  == {p \in Entries(m) \X Entries(m) : Walked(o, p[1], p[2])}
        order == InOrder(walk, Entries(m))
    IN  [k \in 1 .. Cardinality(Entries(m)) |-> At(m, order[k])]

\* A provider's routes change, and the table is built anew from all of them.
Update(p, announced) ==
    /\ messages' = [messages EXCEPT ![p] = announced]
    /\ \E o \in Orders :
         LET all == Merged(messages', o)
         IN  /\ routes' = [h \in Hosts |-> ByPathDesc(Named(all, h))]
             /\ regexRoutes' = PatternGroups(all)

Init ==
    /\ messages = [p \in Providers |-> <<>>]
    /\ routes = [h \in Hosts |-> <<>>]
    /\ regexRoutes = <<>>

Next == \E p \in Providers : \E announced \in Announcements[p] : Update(p, announced)

Spec == Init /\ [][Next]_vars

-----------------------------------------------------------------------------
(* Resolve and HasHost, under the read lock. *)

Drop(s, n) == SubSeq(s, n + 1, Len(s))

\* path == route.Path || HasPrefix(path, route.Path + "/")
PathMatches(r, path) ==
    \/ r.path = Root
    \/ Len(path) >= Len(r.path) /\ SubSeq(path, 1, Len(r.path)) = r.path

\* What is forwarded, as its segments and whether it begins with a slash.
Absolute(segments) == [slash |-> TRUE, segments |-> segments]
Relative(segments) == [slash |-> FALSE, segments |-> segments]

\* TrimPrefix(path, route.Path).  All of the path: "/" is put in its place.
\* Of a path under "/" the first slash goes.
NotRepaired(r, path) == Absolute(Drop(path, Len(r.path))) \* mutant
Stripped(r, path) ==
    CASE path = r.path                      -> Absolute(Root)
      [] path # r.path /\ r.path # Root     -> Absolute(Drop(path, Len(r.path)))
      [] path # r.path /\ r.path = Root     ->
            IF path[1] = Empty THEN Absolute(Tail(path)) ELSE Relative(path)

Rewritten(r, path) == IF r.strip THEN Stripped(r, path) ELSE Absolute(path)

\* The members of the pool of the route that matches.
SameName(r, chosen) == r.host = chosen.host /\ r.path = chosen.path \* mutant
SamePool(r, chosen) ==
    /\ r.host = chosen.host /\ r.pool = chosen.pool
    /\ r.path = chosen.path /\ r.strip = chosen.strip

\* matchRoutes and matchPool: the targets that may answer, <<>> if none.
NoAnswer == [route |-> <<>>, targets |-> <<>>]
Matching(list, path) == {i \in DOMAIN list : PathMatches(list[i], path)}
Members(list, chosen) == Only(list, {i \in DOMAIN list : SamePool(list[i], chosen)})
Targets(list) == [i \in DOMAIN list |-> list[i].target]
MatchPool(list, path) ==
    LET matching == Matching(list, path)
        chosen   == list[Min(matching)]
    IN  IF matching = {} THEN NoAnswer
        ELSE [route |-> <<chosen>>,
              targets |-> IF chosen.pool = NoPool THEN <<chosen.target>>
                          ELSE Targets(Members(list, chosen))]

\* Exact hosts first, then the patterns that match, in order.
Answering(host, path) ==
    {i \in DOMAIN regexRoutes : /\ host \in HostsOf[regexRoutes[i].pattern]
                                /\ MatchPool(regexRoutes[i].routes, path) # NoAnswer}
Resolve(host, path) ==
    LET exact     == MatchPool(routes[host], path)
        answering == Answering(host, path)
    IN  IF exact # NoAnswer THEN exact
        ELSE IF answering = {} THEN NoAnswer
        ELSE MatchPool(regexRoutes[Min(answering)].routes, path)

ExactOnly(host) == routes[host] # <<>>                \* mutant
HasHost(host) ==
    \/ routes[host] # <<>>
    \/ \E i \in DOMAIN regexRoutes : host \in HostsOf[regexRoutes[i].pattern]

-----------------------------------------------------------------------------
(* Properties.  They speak of the routes that were announced, in no order. *)

\* Every variable keeps its type.
TypeOK ==
    /\ \A p \in Providers : messages[p] \in Seq(Route)
    /\ \A h \in Hosts : routes[h] \in Seq(Route)
    /\ \A i \in DOMAIN regexRoutes : /\ regexRoutes[i].pattern \in Patterns \ Invalid
                                     /\ regexRoutes[i].routes \in Seq(Route)

\* A request lies under a route's path: the path is "/", the same, or a prefix
\* up to a slash.
Under(r, path) == r.path = Root \/ \E n \in 1..Len(path) : r.path = SubSeq(path, 1, n)
Serves(host, r) == r.host = host \/ (r.host \in Patterns \ Invalid /\ host \in HostsOf[r.host])

Announced(host, path) ==
    {r \in {At(messages, e) : e \in Entries(messages)} : Serves(host, r) /\ Under(r, path)}

\* The most specific route answers: every request that some announced route
\* serves is answered, by an exact host before a pattern, and among the routes of
\* that hostname by the longest path, whatever the order they were merged in.
MostSpecificAnswers ==
    \A host \in Hosts, path \in Requests :
        LET candidates == Announced(host, path)
            exact      == {r \in candidates : r.host = host}
            answer     == Resolve(host, path).route
        IN  IF candidates = {} THEN answer = <<>>
            ELSE /\ answer # <<>>
                 /\ answer[1] \in (IF exact = {} THEN candidates ELSE exact)
                 /\ \A r \in candidates : r.host = answer[1].host =>
                        \/ r.path = Root
                        \/ answer[1].path # Root /\ Len(r.path) <= Len(answer[1].path)

\* A pool is complete and pure: a request that it answers goes to the targets that
\* were announced for the pool under that hostname, each as often as announced.
PoolIsComplete ==
    \A host \in Hosts, path \in Requests :
        LET answer == Resolve(host, path)
            pool   == {e \in Entries(messages) :
                          /\ At(messages, e).host = answer.route[1].host
                          /\ At(messages, e).pool = answer.route[1].pool}
        IN  (answer.route # <<>> /\ answer.route[1].pool # NoPool) =>
                /\ Len(answer.targets) = Cardinality(pool)
                /\ \A e \in pool : At(messages, e).target \in ToSet(answer.targets)

\* "Strip path prefix before forwarding": the prefix and what is forwarded make up
\* the request, which stays in origin form unless the prefix is "/" itself.
StripRemovesThePrefix ==
    \A host \in Hosts, path \in Requests :
        LET r == Resolve(host, path).route[1]
            forwarded == Rewritten(r, path)
        IN  Resolve(host, path).route # <<>> =>
            CASE ~r.strip                    -> forwarded = Absolute(path)
              [] r.strip /\ r.path = path    -> forwarded = Absolute(Root)
              [] r.strip /\ r.path # path /\ r.path # Root ->
                    forwarded.slash /\ r.path \o forwarded.segments = path
              [] OTHER -> forwarded.slash <=> path[1] = Empty

\* The SNI router keeps a connection here when HasHost says so: exactly when
\* there is a path of that host that is answered.
HasHostIsAnswered ==
    \A host \in Hosts :
        HasHost(host) <=> \E e \in Entries(messages) :
                              Resolve(host, At(messages, e).path).route # <<>>

\* Every answer follows from what was announced: its route, its pool, the path that is
\* forwarded, and whether the SNI router sends the connection here at all.
AnswersFollowAnnouncements ==
    /\ TypeOK
    /\ MostSpecificAnswers /\ PoolIsComplete /\ StripRemovesThePrefix /\ HasHostIsAnswered

\* A reload does not disturb others: a request whose only routes are one
\* provider's and stay as they are keeps its answer, although the reload of the
\* other provider shuffles the merged routes.  Its routes must have one
\* hostname: the order of two patterns depends on other routes of theirs.
Candidates(p, host, path) ==
    Only(messages[p], {i \in DOMAIN messages[p] : Serves(host, messages[p][i])
                                                  /\ Under(messages[p][i], path)})
OneHostname(s) == \A i, j \in DOMAIN s : s[i].host = s[j].host

ReloadsLeaveOthersAlone ==
    [][\A host \in Hosts, path \in Requests, p \in Providers :
          LET mine == Candidates(p, host, path)
          IN  (/\ OneHostname(mine)
               /\ \A q \in Providers \ {p} : /\ Candidates(q, host, path) = <<>>
                                             /\ Candidates(q, host, path)' = <<>>
               /\ Candidates(p, host, path)' = mine)
              => Resolve(host, path)' = Resolve(host, path)]_vars
=============================================================================
