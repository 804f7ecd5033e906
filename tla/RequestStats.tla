---------------------------- MODULE RequestStats ----------------------------
(***************************************************************************)
(* internal/stats/stats.go with its callers: the goroutines of the proxy   *)
(* handler, which take the time and then record under the lock, and        *)
(* /api/stats, which takes the lock once for every part of its report.     *)
(* Records may therefore come in another order than that of their times,   *)
(* and while a report is made.                                             *)
(*                                                                         *)
(* A request is not a record: one whose route has a target that does not   *)
(* parse leaves none, and one whose response switches protocols leaves two *)
(* if the switch fails, since ReverseProxy calls ErrorHandler after        *)
(* ModifyResponse.  That a response is such a one is left open.            *)
(*                                                                         *)
(* Mean durations are left out.  A counter of zero stands for a host or an *)
(* edge that has no entry in its map.                                      *)
(***************************************************************************)
EXTENDS Lists, SequencesExt

CONSTANTS
    Workers,        \* goroutines that serve requests
    Kinds,          \* kinds of records: [host, target, failed, ms]
    NoTarget,       \* the target of a request that is not forwarded
    DashboardHost,  \* requests to the dashboard are not recorded
    BufferSize,     \* records that are kept (1000)
    MaxRecords,     \* bound: records made
    MaxTime,        \* bound of the clock
    Nothing         \* a goroutine without a request, a page without data

Hosts   == {kind.host : kind \in Kinds}
EdgeOf(kind) == <<kind.host, kind.target>>
Edges   == {EdgeOf(kind) : kind \in Kinds}
Records == {[at |-> t, kind |-> kind] : t \in 0 .. MaxTime, kind \in Kinds}

ASSUME StatsAssumption ==
    /\ IsFiniteSet(Workers) /\ IsFiniteSet(Kinds)
    /\ \A kind \in Kinds : kind.failed \in BOOLEAN /\ kind.ms \in Nat
    /\ BufferSize \in Nat \ {0} /\ MaxRecords \in Nat /\ MaxTime \in Nat
    /\ Nothing \notin Records /\ Nothing \notin Kinds

VARIABLES
    clock,      \* time.Now()
    responded,  \* for every goroutine the response it forwards, as it was recorded
    held,       \* for every goroutine the record it is about to hand over
    handed,     \* history: [total, errors] of all records made, by edge
    buffer,     \* the records that are kept, oldest first
    hostStats, edgeStats,  \* [total, errors] by host and by edge
    report      \* the report in the making: its parts by name

handlerVars == <<responded, held, handed>>
statsVars == <<clock, handlerVars, buffer, hostStats, edgeStats, report>>

Zero == [total |-> 0, errors |-> 0]

StatsInit ==
    /\ clock = 0
    /\ responded = [w \in Workers |-> Nothing]
    /\ held = [w \in Workers |-> Nothing]
    /\ handed = [e \in Edges |-> Zero]
    /\ buffer = <<>>
    /\ hostStats = [h \in Hosts |-> Zero]
    /\ edgeStats = [e \in Edges |-> Zero]
    /\ report = <<>>

-----------------------------------------------------------------------------
(* The handler *)

Updated(stats, kind) ==
    [total |-> stats.total + 1, errors |-> stats.errors + IF kind.failed THEN 1 ELSE 0]

Totals(stats) == [k \in DOMAIN stats |-> stats[k].total]

\* A record is made, with the time it is; one for the dashboard goes no further.
HandOver(w, kind) ==
    IF kind.host = DashboardHost THEN UNCHANGED <<held, handed>>
    ELSE /\ Total(Totals(handed), Edges) < MaxRecords
         /\ held' = [held EXCEPT ![w] = [at |-> clock, kind |-> kind]]
         /\ handed' = [handed EXCEPT ![EdgeOf(kind)] = Updated(@, kind)]

Refused   == {kind \in Kinds : kind.target = NoTarget /\ kind.failed}
Forwarded == {kind \in Kinds : kind.target # NoTarget}

\* No route, or no healthy backend: 404 or 503.
RefuseRequest(w) ==
    /\ \E kind \in Refused : HandOver(w, kind)
    /\ responded' = [responded EXCEPT ![w] = Nothing]

\* The target is no URL: 502, of which there is no record.
RejectTarget(w) ==
    /\ responded' = [responded EXCEPT ![w] = Nothing]
    /\ UNCHANGED <<held, handed>>

\* ModifyResponse: the upstream has answered.
ModifyResponse(w) == \E kind \in Forwarded :
    /\ HandOver(w, kind)
    /\ responded' = [responded EXCEPT ![w] = IF kind.failed THEN Nothing ELSE kind]

\* ErrorHandler: the upstream cannot be reached ...
UpstreamFails(w) == \E kind \in Forwarded :
    /\ kind.failed
    /\ HandOver(w, kind)
    /\ responded' = [responded EXCEPT ![w] = Nothing]

\* ... or its response, which is recorded already, switches protocols and the switch fails.
SwitchFails(w) == \E kind \in Forwarded :
    /\ responded[w] # Nothing
    /\ kind.failed /\ EdgeOf(kind) = EdgeOf(responded[w])
    /\ HandOver(w, kind)
    /\ responded' = [responded EXCEPT ![w] = Nothing]

HandlerStep(w) ==
    /\ held[w] = Nothing
    /\ \/ RefuseRequest(w) \/ RejectTarget(w) \/ ModifyResponse(w)
       \/ UpstreamFails(w) \/ SwitchFails(w)
    /\ UNCHANGED <<clock, buffer, hostStats, edgeStats, report>>

-----------------------------------------------------------------------------
(* Recording *)

\* Mutant: the buffer grows by one beyond its size.
GrownBeyond(records) ==
    IF Len(records) > BufferSize + 1 THEN Tail(records) ELSE records

\* Mutant: the buffer is trimmed when it is full, not when it overflows.
TrimmedEarly(records) == IF Len(records) >= BufferSize THEN Tail(records) ELSE records

Trimmed(records) == IF Len(records) > BufferSize THEN Tail(records) ELSE records

\* What Record does under the lock.
CountRecord(record) == LET kind == record.kind
    IN  /\ buffer' = Trimmed(Append(buffer, record))
        /\ hostStats' = [hostStats EXCEPT ![kind.host] = Updated(@, kind)]
        /\ edgeStats' = [edgeStats EXCEPT ![EdgeOf(kind)] = Updated(@, kind)]

\* Mutant: a record is lost.
Lost(w) ==
    /\ held[w] # Nothing
    /\ held' = [held EXCEPT ![w] = Nothing]
    /\ UNCHANGED <<clock, responded, handed, buffer, hostStats, edgeStats, report>>

\* Mutant: a record can be counted again.
Again(w) ==
    /\ held[w] # Nothing /\ Total(Totals(edgeStats), Edges) < MaxRecords
    /\ CountRecord(held[w])
    /\ UNCHANGED <<clock, responded, held, handed, report>>

Record(w) ==
    /\ held[w] # Nothing
    /\ held' = [held EXCEPT ![w] = Nothing]
    /\ CountRecord(held[w])
    /\ UNCHANGED <<clock, responded, handed, report>>

\* GetRecentRequests: the newest records first.
RecentRequests(limit) ==
    [n \in 1 .. Min({limit, Len(buffer)}) |-> buffer[Len(buffer) - n + 1]]

-----------------------------------------------------------------------------
(* GET /api/stats *)

SumOfTotals(stats) == Total(Totals(stats), DOMAIN stats)

\* Mutant: the report reads the details before the total.
DetailsFirst ==
    \/ report = <<>> /\ report' = <<Totals(edgeStats)>>
    \/ Len(report) = 1 /\ report' = <<Totals(hostStats), report[1]>>
    \/ Len(report) = 2 /\ report' = <<SumOfTotals(hostStats)>> \o report

\* GetTotalRequests, GetHostStats and GetEdgeStats, each under a lock of its own.
ReadPart ==
    \/ report = <<>> /\ report' = <<SumOfTotals(hostStats)>>
    \/ Len(report) = 1 /\ report' = Append(report, Totals(hostStats))
    \/ Len(report) = 2 /\ report' = Append(report, Totals(edgeStats))

HandleStats ==
    /\ ReadPart
    /\ UNCHANGED <<clock, handlerVars, buffer, hostStats, edgeStats>>

SendReport ==
    /\ Len(report) = 3
    /\ report' = <<>>
    /\ UNCHANGED <<clock, handlerVars, buffer, hostStats, edgeStats>>

StatsStep ==
    \/ \E w \in Workers : HandlerStep(w) \/ Record(w)
    \/ HandleStats \/ SendReport

-----------------------------------------------------------------------------
(* Properties *)

StatsTypeOK ==
    /\ clock \in 0 .. MaxTime
    /\ responded \in [Workers -> Kinds \cup {Nothing}]
    /\ held \in [Workers -> Records \cup {Nothing}]
    /\ \A i \in DOMAIN buffer : buffer[i] \in Records
    /\ Len(buffer) <= BufferSize
    /\ Len(report) <= 3

OfHost(h) == {e \in Edges : e[1] = h}

Errors(stats) == [k \in DOMAIN stats |-> stats[k].errors]

\* The records of an edge that wait for the lock.
Unrecorded(e)       == {w \in Workers : held[w] # Nothing /\ EdgeOf(held[w].kind) = e}
UnrecordedErrors(e) == {w \in Unrecorded(e) : held[w].kind.failed}

\* Every record that was made is counted once for its edge or still waits for the lock:
\* none is lost, none counted twice, and an error counts as one (stats.go:46-85).
NoRecordIsLost ==
    \A e \in Edges :
        /\ handed[e].total = edgeStats[e].total + Cardinality(Unrecorded(e))
        /\ handed[e].errors = edgeStats[e].errors + Cardinality(UnrecordedErrors(e))

\* The counters of a host are the sums of those of its edges, the buffer has as many
\* records as were counted, up to its size, and none is the dashboard's, however
\* goroutines interleave (stats.go:56-85).
BooksBalance ==
    /\ \A h \in Hosts :
           /\ hostStats[h].total = Total(Totals(edgeStats), OfHost(h))
           /\ hostStats[h].errors = Total(Errors(edgeStats), OfHost(h))
    /\ Len(buffer) = Min({BufferSize, SumOfTotals(hostStats)})
    /\ DashboardHost \in Hosts => hostStats[DashboardHost] = Zero

\* The parts of a report need not agree, but a later part never knows less than an
\* earlier one: the total is covered by the hosts, and a host by its edges
\* (api.go:243-250).
ReportIsCovered ==
    Len(report) = 3 =>
        /\ report[1] <= Total(report[2], Hosts)
        /\ \A h \in Hosts : report[2][h] <= Total(report[3], OfHost(h))
=============================================================================
