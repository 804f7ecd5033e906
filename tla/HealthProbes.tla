---------------------------- MODULE HealthProbes ----------------------------
(***************************************************************************)
(* The health half of the router (internal/router/health.go) together with *)
(* the pool selection that reads it (internal/router/router.go).           *)
(*                                                                         *)
(* One runner goroutine (RunHealth) sweeps the health-checked backends of  *)
(* the current route table with at most MaxWorkers probes at a time, while *)
(* route reloads (Router.Update), requests (Router.Resolve) and process    *)
(* shutdown happen at any point.  A reload installs a new table, replaces  *)
(* every health record and cancels the context of the generation before    *)
(* it; a probe that is still in flight then belongs to the past and must   *)
(* not be believed.                                                        *)
(*                                                                         *)
(* The table is one pool of one hostname and path: a sequence of backends  *)
(* that is either health-gated (every route has a HealthCheck) or not.     *)
(* The empty table is the router as New leaves it, without a route.        *)
(***************************************************************************)
EXTENDS Naturals, Sequences, FiniteSets

CONSTANTS
    Backends,       \* the targets a pool may list
    Tables,         \* the route tables a reload may install
    MaxWorkers,     \* capacity of the slots channel: 4 in the code
    MaxGeneration,  \* bound of the model: no Update at this generation
    CursorCycle     \* the pool counter is kept modulo this number

ASSUME WorkersAssumption    == MaxWorkers \in Nat \ {0}
ASSUME GenerationAssumption == MaxGeneration \in Nat
ASSUME TablesAssumption     == Tables \subseteq [members: Seq(Backends), gated: BOOLEAN]
\* The pool counter is only ever used modulo the length of a member list.
ASSUME CycleAssumption      ==
    /\ CursorCycle \in Nat \ {0}
    /\ \A t \in Tables : \A n \in 1..Len(t.members) : CursorCycle % n = 0

VARIABLES
    table,       \* the installed pool: r.routes
    cursor,      \* the pool's atomic counter: r.pools
    served,      \* history: positions picked in the current rotation over the members
    health,      \* r.health: the record of every gated member
    generation,  \* r.healthGeneration, which also names r.healthContext
    cancelled,   \* the generations whose context is done
    wake,        \* r.healthWake holds its token
    shutdown,    \* the process context is done
    runner,      \* control point of RunHealth
    sweep,       \* the context captured by the sweep under way
    jobs,        \* due backends of the sweep that are not spawned yet
    slots,       \* the slots channel: the sweep's workers
    phase,       \* control point of the probe of every <<generation, backend>>
    ready,       \* environment: the backend answers 2xx within its timeout
    observed     \* history: last answer to a probe of the current generation

tableVars  == <<table, cursor, served>>
recordVars == <<health, generation, cancelled, wake, observed>>
sweepVars  == <<runner, sweep, jobs, slots>>
vars == <<tableVars, recordVars, sweepVars, shutdown, phase, ready>>

-----------------------------------------------------------------------------
Generations == 0..(MaxGeneration + 1)
Probes      == Generations \X Backends
NoRoutes    == [members |-> <<>>, gated |-> FALSE]

Members(t)      == {t.members[i] : i \in DOMAIN t.members}
GatedMembers(t) == IF t.gated THEN Members(t) ELSE {}

\* A record as resetHealthLocked builds it: the zero `next` makes it due.
Unchecked   == [healthy |-> FALSE, checked |-> FALSE, due |-> TRUE]
HealthState == [healthy: BOOLEAN, checked: BOOLEAN, due: BOOLEAN]

GenerationDone(g) == g \in cancelled            \* generation.Err() != nil
HealthRunning     == runner \notin {"unstarted", "stopped"}
InFlight          == {p \in Probes : phase[p] # "idle"}

\* The members matchPool keeps: those without a check and those last seen healthy.
Eligible(b) == table.gated => health[b].healthy
Turns       == {i \in DOMAIN table.members : Eligible(table.members[i])}
EligibleSet == {b \in Members(table) : Eligible(b)}

\* A history starts a new rotation whenever the set of eligible members changes.
Rotation(eligible) == IF eligible = EligibleSet THEN served ELSE <<>>

-----------------------------------------------------------------------------
Init ==
    /\ table = NoRoutes
    /\ cursor = 0
    /\ served = <<>>
    /\ health = [b \in {} |-> Unchecked]
    /\ generation = 0
    /\ cancelled = {}
    /\ wake = FALSE
    /\ shutdown = FALSE
    /\ runner = "unstarted"
    /\ sweep = 0
    /\ jobs = {}
    /\ slots = {}
    /\ phase = [p \in Probes |-> "idle"]
    /\ ready \in [Backends -> BOOLEAN]
    /\ observed = [b \in Backends |-> "none"]

\* The records resetHealthLocked builds: one for every gated member of t.
FreshRecords(t) == [b \in GatedMembers(t) |-> Unchecked]

\* The contexts a reset ends: the one of the generation it replaces.
NothingEnded(g) == {}                                        \* mutant: no healthCancel()
Superseded(g)   == {g}

\* resetHealthLocked, for the table t.  The new context is derived from the
\* process context once RunHealth has stored it in healthParent.
ResetHealth(t, parented) ==
    /\ generation' = generation + 1
    /\ cancelled' = cancelled \cup Superseded(generation)
          \cup (IF parented /\ shutdown THEN {generation + 1} ELSE {})
    /\ health' = FreshRecords(t)
    /\ wake' = TRUE
    /\ observed' = [b \in Backends |-> "none"]

\* Router.Update: a new table, new pool counters, new health records.
Update(t) ==
    /\ generation < MaxGeneration
    /\ table' = t
    /\ cursor' = 0
    /\ served' = <<>>
    /\ ResetHealth(t, runner # "unstarted")
    /\ UNCHANGED <<sweepVars, shutdown, phase, ready>>

\* counter.Add(1)
StuckCursor == cursor                                        \* mutant: Load instead of Add
NextCursor  == (cursor + 1) % CursorCycle

\* Router.Resolve on the pool: of the n eligible members in table order, the
\* one at offset cursor % n; the counter moves by one.  Without an eligible
\* member the request is Unavailable and nothing changes.
Resolve ==
    /\ \E i \in Turns :
          /\ Cardinality({j \in Turns : j < i}) = cursor % Cardinality(Turns)
          /\ served' = IF Len(served) = Cardinality(Turns)
                       THEN <<i>> ELSE Append(served, i)
    /\ cursor' = NextCursor
    /\ UNCHANGED <<table, recordVars, sweepVars, shutdown, phase, ready>>

-----------------------------------------------------------------------------
(* The runner. *)

\* Entry of RunHealth: one critical section adopts the process context.
StartRunner ==
    /\ runner = "unstarted"
    /\ runner' = "select"
    /\ ResetHealth(table, TRUE)
    /\ served' = Rotation(IF table.gated THEN {} ELSE EligibleSet)
    /\ UNCHANGED <<table, cursor, sweep, jobs, slots, shutdown, phase, ready>>

\* The outer select: the wake token or the 250 ms ticker starts a sweep.
TakeWake ==
    /\ runner = "select"
    /\ wake
    /\ wake' = FALSE
    /\ runner' = "capture"
    /\ UNCHANGED <<tableVars, health, generation, cancelled, observed,
                   sweep, jobs, slots, shutdown, phase, ready>>

TakeTick ==
    /\ runner = "select"
    /\ runner' = "capture"
    /\ UNCHANGED <<tableVars, recordVars, sweep, jobs, slots, shutdown, phase, ready>>

\* The records whose `next` has come.
OnceOnly   == {b \in DOMAIN health : ~health[b].checked}     \* mutant: no second probe
DownOnly   == {b \in DOMAIN health : ~health[b].healthy}     \* mutant: trust the healthy
DueRecords == {b \in DOMAIN health : health[b].due}

\* Under the read lock: the context of this sweep and the records that are due.
Capture ==
    /\ runner = "capture"
    /\ sweep' = generation
    /\ jobs' = DueRecords
    /\ slots' = {}
    /\ runner' = "dispatch"
    /\ UNCHANGED <<tableVars, recordVars, shutdown, phase, ready>>

\* The inner select takes a slot and starts the worker of one job.  The jobs
\* are sorted by key; the model allows every order.
Spawn(b) ==
    /\ runner = "dispatch"
    /\ b \in jobs
    /\ Cardinality(slots) < MaxWorkers
    /\ jobs' = jobs \ {b}
    /\ slots' = slots \cup {<<sweep, b>>}
    /\ phase' = [phase EXCEPT ![<<sweep, b>>] = "spawned"]
    /\ runner' = "check"
    /\ UNCHANGED <<tableVars, recordVars, sweep, shutdown, ready>>

\* The inner select sees generation.Done(): its break leaves the select, and
\* the test of generation.Err() that follows leaves the loop.
ObserveCancel ==
    /\ runner = "dispatch"
    /\ jobs # {}
    /\ GenerationDone(sweep)
    /\ jobs' = {}
    /\ runner' = "wait"
    /\ UNCHANGED <<tableVars, recordVars, sweep, slots, shutdown, phase, ready>>

\* The test of generation.Err() after a spawn.
CheckGeneration ==
    /\ runner = "check"
    /\ IF GenerationDone(sweep)
       THEN runner' = "wait" /\ jobs' = {}
       ELSE runner' = "dispatch" /\ jobs' = jobs
    /\ UNCHANGED <<tableVars, recordVars, sweep, slots, shutdown, phase, ready>>

FinishDispatch ==
    /\ runner = "dispatch"
    /\ jobs = {}
    /\ runner' = "wait"
    /\ UNCHANGED <<tableVars, recordVars, sweep, jobs, slots, shutdown, phase, ready>>

\* Mutant of AwaitWorkers: the next sweep does not wait for this one.
NoWait ==
    /\ runner = "wait"
    /\ runner' = "select"
    /\ UNCHANGED <<tableVars, recordVars, sweep, jobs, slots, shutdown, phase, ready>>

\* Mutant of AwaitWorkers: a token that came during the sweep is dropped.
SweepDrainsWake ==
    /\ runner = "wait"
    /\ slots = {}
    /\ runner' = "select"
    /\ wake' = FALSE
    /\ UNCHANGED <<tableVars, health, generation, cancelled, observed,
                   sweep, jobs, slots, shutdown, phase, ready>>

\* workers.Wait(): every worker of the sweep has returned.
AwaitWorkers ==
    /\ runner = "wait"
    /\ slots = {}
    /\ runner' = "select"
    /\ UNCHANGED <<tableVars, recordVars, sweep, jobs, slots, shutdown, phase, ready>>

\* What the deferred function leaves in the records.
KeepRecords == health                                        \* mutant: nothing is cleared
NoneHealthy == [b \in DOMAIN health |-> [health[b] EXCEPT !.healthy = FALSE]]

\* ctx.Done() in the outer select, then the deferred critical section.
StopRunner ==
    /\ runner = "select"
    /\ shutdown
    /\ runner' = "stopped"
    /\ cancelled' = cancelled \cup {generation}
    /\ health' = NoneHealthy
    /\ served' = Rotation(IF table.gated THEN {} ELSE EligibleSet)
    /\ UNCHANGED <<table, cursor, generation, wake, observed,
                   sweep, jobs, slots, shutdown, phase, ready>>

-----------------------------------------------------------------------------
(* One probe p = <<generation, backend>>: the worker the runner spawned. *)

\* Mutant of Retire: the slot is not given back.
LeakSlot(p) ==
    /\ phase' = [phase EXCEPT ![p] = "idle"]
    /\ UNCHANGED <<table, cursor, generation, cancelled, wake, observed,
                   sweepVars, shutdown, ready>>

\* The worker's deferred calls: it gives its slot back and is done.
Retire(p) ==
    /\ phase' = [phase EXCEPT ![p] = "idle"]
    /\ slots' = slots \ {p}
    /\ UNCHANGED <<table, cursor, generation, cancelled, wake, observed,
                   runner, sweep, jobs, shutdown, ready>>

\* generation.Err() on entry of probe.
AbandonProbe(p) ==
    /\ phase[p] = "spawned"
    /\ GenerationDone(p[1])
    /\ Retire(p)
    /\ UNCHANGED <<served, health>>

\* Mutant of CheckProbe: the context is not looked at.
NoCheck(p) ==
    /\ phase[p] = "spawned"
    /\ phase' = [phase EXCEPT ![p] = "cleared"]
    /\ UNCHANGED <<tableVars, recordVars, sweepVars, shutdown, ready>>

CheckProbe(p) ==
    /\ phase[p] = "spawned"
    /\ ~GenerationDone(p[1])
    /\ phase' = [phase EXCEPT ![p] = "cleared"]
    /\ UNCHANGED <<tableVars, recordVars, sweepVars, shutdown, ready>>

\* client.Do, under no lock: a reload or a signal may have come since the check.  That
\* the client may notice and send nothing is left out, since the answer is "down" then.
SendProbe(p) ==
    /\ phase[p] = "cleared"
    /\ phase' = [phase EXCEPT ![p] = "asked"]
    /\ UNCHANGED <<tableVars, recordVars, sweepVars, shutdown, ready>>

\* The request returns: a 2xx answer counts only while its context is alive.
AnswerProbe(p) ==
    /\ phase[p] = "asked"
    /\ LET result == IF ready[p[2]] /\ ~GenerationDone(p[1]) THEN "ready" ELSE "down"
       IN  /\ phase' = [phase EXCEPT ![p] = result]
           /\ observed' = IF p[1] = generation
                          THEN [observed EXCEPT ![p[2]] = result] ELSE observed
    /\ UNCHANGED <<tableVars, health, generation, cancelled, wake,
                   sweepVars, shutdown, ready>>

\* The fence of probe: the record it holds is still the router's record.
SameKey(p) == p[2] \in DOMAIN health                         \* mutant: the key is enough
IsCurrent(p) ==
    /\ ~GenerationDone(p[1])
    /\ p[1] = generation
    /\ p[2] \in DOMAIN health

\* The critical section at the end of probe.
PublishProbe(p) ==
    /\ phase[p] \in {"ready", "down"}
    /\ IF IsCurrent(p)
       THEN /\ health' = [health EXCEPT ![p[2]] =
                            [healthy |-> phase[p] = "ready", checked |-> TRUE, due |-> FALSE]]
            /\ served' = IF health[p[2]].healthy = (phase[p] = "ready")
                         THEN served ELSE <<>>
       ELSE UNCHANGED <<health, served>>
    /\ Retire(p)

-----------------------------------------------------------------------------
(* The environment. *)

\* IntervalSeconds have passed since the record was last written.
IntervalElapses(b) ==
    /\ b \in DOMAIN health
    /\ ~health[b].due
    /\ health' = [health EXCEPT ![b].due = TRUE]
    /\ UNCHANGED <<tableVars, generation, cancelled, wake, observed,
                   sweepVars, shutdown, phase, ready>>

BackendChanges(b) ==
    /\ ready' = [ready EXCEPT ![b] = ~ready[b]]
    /\ UNCHANGED <<tableVars, recordVars, sweepVars, shutdown, phase>>

\* SIGINT or SIGTERM: the process context is done ...
Signal ==
    /\ ~shutdown
    /\ shutdown' = TRUE
    /\ UNCHANGED <<tableVars, recordVars, sweepVars, phase, ready>>

\* ... and a moment later so is the context derived from it.
PropagateCancel ==
    /\ shutdown
    /\ runner # "unstarted"
    /\ generation \notin cancelled
    /\ cancelled' = cancelled \cup {generation}
    /\ UNCHANGED <<tableVars, health, generation, wake, observed,
                   sweepVars, shutdown, phase, ready>>

-----------------------------------------------------------------------------
RunnerStep ==
    \/ StartRunner \/ TakeWake \/ TakeTick \/ Capture
    \/ (\E b \in Backends : Spawn(b))
    \/ ObserveCancel \/ CheckGeneration \/ FinishDispatch \/ AwaitWorkers \/ StopRunner

ProbeStep(p) ==
    \/ AbandonProbe(p) \/ CheckProbe(p) \/ SendProbe(p) \/ AnswerProbe(p) \/ PublishProbe(p)

Next ==
    \/ \E t \in Tables : Update(t)
    \/ Resolve
    \/ RunnerStep
    \/ \E p \in Probes : ProbeStep(p)
    \/ \E b \in Backends : IntervalElapses(b) \/ BackendChanges(b)
    \/ Signal
    \/ PropagateCancel

Spec == Init /\ [][Next]_vars

(***************************************************************************)
(* Goroutines are scheduled, requests have a timeout, time passes and a    *)
(* cancelled parent cancels its child.  StopRunner needs strong fairness:  *)
(* the ticker competes with ctx.Done() in a select, which picks at random. *)
(* Nothing obliges a reload, a request, a signal or a backend to act.      *)
(***************************************************************************)
Fairness ==
    /\ WF_vars(RunnerStep)
    /\ SF_vars(StopRunner)
    /\ WF_vars(PropagateCancel)
    /\ \A p \in Probes : WF_vars(ProbeStep(p))
    /\ \A b \in Backends : WF_vars(IntervalElapses(b))

FairSpec == Spec /\ Fairness

-----------------------------------------------------------------------------
(* Properties. *)

\* Every variable keeps its type, and the router holds a health record for
\* exactly the gated members of the installed table.
TypeOK ==
    /\ table \in Tables \cup {NoRoutes}
    /\ cursor \in 0..(CursorCycle - 1)
    /\ served \in Seq(Nat)
    /\ health \in [GatedMembers(table) -> HealthState]
    /\ generation \in Generations
    /\ cancelled \subseteq Generations
    /\ wake \in BOOLEAN
    /\ shutdown \in BOOLEAN
    /\ runner \in {"unstarted", "select", "capture", "dispatch", "check", "wait", "stopped"}
    /\ sweep \in Generations
    /\ jobs \subseteq Backends
    /\ slots \subseteq Probes
    /\ phase \in [Probes -> {"idle", "spawned", "cleared", "asked", "ready", "down"}]
    /\ ready \in [Backends -> BOOLEAN]
    /\ observed \in [Backends -> {"none", "ready", "down"}]

\* "RunHealth owns at most four concurrent read-only probes": however reloads
\* fall among the sweeps, probes of an old table never add to those of the new.
ProbeBound == Cardinality(InFlight) <= MaxWorkers

\* A backend receives traffic only after it answered a probe of the current
\* generation, and a record says what the last answer said unless an answer
\* still waits for the lock: no late or overtaken result is ever believed.
AdmissionFollowsObservation ==
    \A b \in DOMAIN health :
        /\ health[b].healthy => observed[b] # "none"
        /\ (/\ health[b].checked
            /\ ~GenerationDone(generation)
            /\ phase[<<generation, b>>] \notin {"ready", "down"})
           => (health[b].healthy <=> observed[b] = "ready")

\* What SnapshotHealth reports for a backend.
SnapshotState(b) ==
    IF health[b].checked /\ HealthRunning
    THEN IF health[b].healthy THEN "ready" ELSE "down"
    ELSE "unknown"

\* The operator's view and the traffic agree in every state: the rows that
\* read "ready" are the members Resolve may pick.  In particular none is
\* picked, of the old table or a new one, before RunHealth or after its end.
SnapshotAgreesWithTraffic ==
    table.gated => {b \in DOMAIN health : SnapshotState(b) = "ready"} = EligibleSet

\* Requests rotate: while the eligible members stay the same, none is picked
\* a second time before every other one has been picked.  A backend that the
\* pool lists twice has two turns.
RotationIsFair ==
    /\ {served[i] : i \in DOMAIN served} \subseteq Turns
    /\ Cardinality({served[i] : i \in DOMAIN served}) = Len(served)

\* A reload is never left to the ticker: when the runner is back at its select
\* and the last sweep was of an older table, the wake token is there.
NoLostWake == (runner = "select" /\ sweep < generation) => wake

\* Probes past their check although their table is replaced or probing is over.
Late == {p \in Probes : /\ phase[p] \in {"cleared", "asked"}
                        /\ p[1] # generation \/ GenerationDone(p[1])}

\* A worker that is past its check may send its request after a reload or the end, but
\* those are all: no other one of that table gets that far any more, and they are gone
\* before the first worker of the new table starts (health.go:97-118, 130).
ReplacedTableDriesUp ==
    [][/\ UNCHANGED <<generation, cancelled>> => Late' \subseteq Late
       /\ sweep' = generation' => \A p \in InFlight' : p[1] = generation']_vars

\* A gated backend that stays ready is admitted, whatever happened before.
EventuallyAdmitted ==
    \A b \in Backends :
        <>[](b \in DOMAIN health /\ ready[b] /\ ~shutdown)
            => <>[](b \in DOMAIN health /\ health[b].healthy)

\* A backend that stays down gets no traffic from some point on.
EventuallyExcluded ==
    \A b \in Backends :
        <>[](b \in DOMAIN health /\ ~ready[b])
            => <>[](b \in DOMAIN health => ~health[b].healthy)

\* Traffic follows the backends both ways, however reloads and probes interleave
\* before they settle (health.go:83-146).
BackendsAreFollowed == EventuallyAdmitted /\ EventuallyExcluded

\* main waits for RunHealth before it returns: after the signal the runner
\* ends, with no probe left in flight.
RunnerStops == shutdown ~> (runner = "stopped" /\ InFlight = {})
=============================================================================
