---------------------------- MODULE ActivityPage ----------------------------
(***************************************************************************)
(* The activity page of the dashboard (ActivityPage.tsx, FilterBar.tsx)    *)
(* over the recorded requests: it polls the latest ones, filters them by   *)
(* age and by host, and sorts them.  The rows are memoised, so that the    *)
(* clock is only read when a new list, a filter or a sort order comes in.  *)
(*                                                                         *)
(* PollingResource models the polling itself; what is used of it here is   *)
(* that one read at a time publishes, and that an error stays until a read *)
(* succeeds.  An answer arrives at the moment it was given.  PollLag is    *)
(* the time between two reads that settle, that is the interval and the    *)
(* time a read takes.  The browser and the proxy are taken to share a      *)
(* clock.  The method, status and duration filters work like that of the   *)
(* host, and the other sort keys like the duration.                        *)
(***************************************************************************)
EXTENDS RequestStats

CONSTANTS
    Ranges,   \* the time ranges, but for "all"
    PollLag,  \* the longest time between two reads that settle
    Limit,    \* how many requests a read asks for (1000)
    All       \* no filter

ASSUME PageAssumption ==
    /\ Ranges \subseteq Nat /\ All \notin Ranges /\ All \notin Hosts
    /\ PollLag \in Nat \ {0} /\ Limit \in Nat \ {0}

VARIABLES
    requests,    \* the list on the page
    failed,      \* the page shows an error
    sinceRead,   \* time since a read settled
    filters,     \* [range, host]
    sort,        \* [key, dir]
    filteredAt   \* when the rows were last computed

pageVars == <<requests, failed, sinceRead, filters, sort, filteredAt>>
activityVars == <<statsVars, pageVars>>

PageInit ==
    /\ StatsInit
    /\ requests = Nothing
    /\ failed = FALSE
    /\ sinceRead = 0
    /\ filters = [range |-> All, host |-> All]
    /\ sort = [key |-> "time", dir |-> "desc"]
    /\ filteredAt = 0

-----------------------------------------------------------------------------
(* Rows *)

\* A range of All admits every age.
InRange(record) == filters.range = All \/ filteredAt - record.at <= filters.range

Matches(record) == InRange(record) /\ filters.host \in {All, record.kind.host}

Filtered ==
    IF requests = Nothing THEN <<>>
    ELSE Only(requests, {i \in DOMAIN requests : Matches(requests[i])})

KeyOf(record) == IF sort.key = "time" THEN record.at ELSE record.kind.ms

\* Mutant: the list is taken to be in the order of time already.
TimeIsSorted(a, b) ==
    IF sort.key = "time" THEN FALSE
    ELSE IF sort.dir = "asc" THEN a.kind.ms < b.kind.ms ELSE a.kind.ms > b.kind.ms

\* compareRequests
ComesFirst(a, b) == IF sort.dir = "asc" THEN KeyOf(a) < KeyOf(b) ELSE KeyOf(a) > KeyOf(b)

\* The sort is stable: equal rows keep their order.
IsAbove(list, i, j) ==
    ComesFirst(list[i], list[j]) \/ (~ComesFirst(list[j], list[i]) /\ i < j)

Above(list) == {p \in (DOMAIN list) \X (DOMAIN list) : IsAbove(list, p[1], p[2])}

Rows == Sorted(Above(Filtered), Filtered)

-----------------------------------------------------------------------------
(* The page *)

\* Mutant: a list that equals the last one does not count as new.
OnlyIfNew == filteredAt' = IF requests' = requests THEN filteredAt ELSE clock

\* A new list is a new object, so that the rows are computed again.
Recompute == filteredAt' = clock

ReceiveRequests ==
    /\ requests' = RecentRequests(Limit)
    /\ failed' = FALSE
    /\ sinceRead' = 0
    /\ Recompute
    /\ UNCHANGED <<statsVars, filters, sort>>

\* An error leaves the list, and with it the rows, as they are.
ReadFails ==
    /\ failed' = TRUE
    /\ sinceRead' = 0
    /\ UNCHANGED <<statsVars, requests, filters, sort, filteredAt>>

SetRange ==
    /\ \E range \in Ranges \cup {All} : filters' = [filters EXCEPT !.range = range]
    /\ filteredAt' = clock
    /\ UNCHANGED <<statsVars, requests, failed, sinceRead, sort>>

\* The hosts of the list on the page are on offer.
UniqueHosts == IF requests = Nothing THEN {} ELSE {r.kind.host : r \in ToSet(requests)}

SetHost ==
    /\ \E host \in UniqueHosts \cup {All} : filters' = [filters EXCEPT !.host = host]
    /\ filteredAt' = clock
    /\ UNCHANGED <<statsVars, requests, failed, sinceRead, sort>>

NextSort(key) ==
    IF sort.key # key THEN [key |-> key, dir |-> IF key = "time" THEN "desc" ELSE "asc"]
    ELSE [key |-> key, dir |-> IF sort.dir = "asc" THEN "desc" ELSE "asc"]

\* The headers are there while there are rows.
SortBy == \E key \in {"time", "duration"} :
    /\ Filtered # <<>>
    /\ sort' = NextSort(key)
    /\ filteredAt' = clock
    /\ UNCHANGED <<statsVars, requests, failed, sinceRead, filters>>

PageTimePasses ==
    /\ clock < MaxTime /\ sinceRead < PollLag
    /\ clock' = clock + 1
    /\ sinceRead' = sinceRead + 1
    /\ UNCHANGED <<handlerVars, buffer, hostStats, edgeStats, report, requests,
                   failed, filters, sort, filteredAt>>

PageNext ==
    \/ StatsStep /\ UNCHANGED pageVars
    \/ ReceiveRequests \/ ReadFails
    \/ SetRange \/ SetHost \/ SortBy
    \/ PageTimePasses

PageSpec == PageInit /\ [][PageNext]_activityVars

-----------------------------------------------------------------------------
(* Properties *)

PageTypeOK ==
    /\ StatsTypeOK
    /\ requests # Nothing => ToSet(requests) \subseteq Records
    /\ failed \in BOOLEAN
    /\ sinceRead \in 0 .. PollLag
    /\ filters \in [range : Ranges \cup {All}, host : Hosts \cup {All}]
    /\ sort \in [key : {"time", "duration"}, dir : {"asc", "desc"}]
    /\ filteredAt \in 0 .. clock

\* Every record is counted once, and counters, report and buffer agree as far as separate
\* locks allow, although a request may leave no record or two (proxy.go:79-83, 118-145).
BooksAreSound == PageTypeOK /\ NoRecordIsLost /\ BooksBalance /\ ReportIsCovered

\* In the order the page starts with, no row is newer than the one above it, although
\* the list it got need not be in the order of time (ActivityPage.tsx:25-26, 283,
\* stats.go:101).
NewestRowsFirst ==
    sort = [key |-> "time", dir |-> "desc"] =>
        LET rows == Rows
        IN  \A i, j \in DOMAIN rows : i < j => rows[i].at >= rows[j].at

\* A row that is older than the selected range, by more than the time between two reads,
\* is only there while the page says that it could not refresh (ActivityPage.tsx:264-284).
StaleRowsAreExplained ==
    filters.range # All /\ ~failed =>
        \A r \in ToSet(Filtered) : clock - r.at <= filters.range + PollLag
=============================================================================
