------------------------------ MODULE Readiness ------------------------------
(***************************************************************************)
(* The backend readiness table of the dashboard (BackendReadiness.tsx)     *)
(* over the polled topology: what it says about a backend is computed from *)
(* the snapshot received last and from a clock of its own, which an        *)
(* interval reads and which therefore lags behind real time.  Both times   *)
(* are kept as what has passed since: since the snapshot was received      *)
(* (api.ts stamps it) and since the table last read the clock.             *)
(*                                                                         *)
(* One backend stands for all: rows do not depend on each other.           *)
(***************************************************************************)
EXTENDS PollingResource, Integers

CONSTANTS
    Snapshot,    \* for every version of the topology, the backend's health in it
    StaleAfter,  \* snapshots older than this are called out (30 s)
    TickLag,     \* the longest the table goes without reading the clock (1 s)
    Day,         \* ages are capped at this (24 h)
    MaxAge       \* bound: time is not told apart beyond this

States == {"unknown", "ready", "down"}

\* lastCheckAgeMs is null before the first probe; here that is a negative age.
NotChecked == -1

ASSUME ReadinessAssumption ==
    /\ StaleAfter \in Nat /\ TickLag \in Nat /\ Day \in Nat
    /\ MaxAge \in Nat /\ MaxAge > StaleAfter + TickLag
    /\ Snapshot \in [Versions -> [running: BOOLEAN, state: States,
                                  age: {NotChecked} \cup 0 .. Day]]

VARIABLES
    sinceReceived,  \* time since the snapshot on display was received
    sinceTick       \* time since the table last read the clock

tableVars == <<vars, sinceReceived, sinceTick>>

ReadinessTypeOK ==
    /\ TypeOK
    /\ sinceReceived \in 0 .. MaxAge
    /\ sinceTick \in 0 .. TickLag

ReadinessInit == Init /\ sinceReceived = 0 /\ sinceTick = 0

-----------------------------------------------------------------------------
(* What the table says *)

Displayed == ~disposed /\ view.data # None

AtLeastZero(n) == IF n < 0 THEN 0 ELSE n
AtMostDay(n)   == IF n > Day THEN Day ELSE n

\* The clock the table reads may lie before the snapshot was received.
Elapsed == AtLeastZero(sinceReceived - sinceTick)

Stale == Elapsed > StaleAfter

\* Mutant: the state is shown as it was sent.
StateAsSent(health) ==
    [state |-> health.state, lastKnown |-> Stale /\ health.state # "unknown"]

\* Without running checks nothing is known; the label is marked when it is old.
Label(health) ==
    LET state == IF health.running THEN health.state ELSE "unknown"
    IN  [state |-> state, lastKnown |-> Stale /\ state # "unknown"]

\* Mutant: the time since the snapshot was received is not added.
AgeAsSent(health) ==
    IF health.age = NotChecked THEN NotChecked ELSE AtMostDay(health.age)

ShownAge(health) ==
    IF health.age = NotChecked THEN NotChecked ELSE AtMostDay(health.age + Elapsed)

-----------------------------------------------------------------------------
(* Steps *)

\* Mutant: only the first snapshot is stamped.
StampedOnce(r) == Resolve(r) /\ UNCHANGED <<sinceReceived, sinceTick>>

\* A successful read of the mounted resource brings a snapshot and its time.
Receive(r) ==
    /\ Resolve(r)
    /\ sinceReceived' = IF Owns(r) THEN 0 ELSE sinceReceived
    /\ UNCHANGED sinceTick

SnapshotSettles(r) ==
    \/ Receive(r)
    \/ (Serve(r) \/ Reject(r)) /\ UNCHANGED <<sinceReceived, sinceTick>>

PollSnapshot == Poll /\ UNCHANGED <<sinceReceived, sinceTick>>

OtherPollingStep ==
    /\ Mount \/ Retry \/ Unmount \/ ServerChanges \/ OutageStartsOrEnds
    /\ UNCHANGED <<sinceReceived, sinceTick>>

\* The interval of one second, or a table that was just mounted.
ReadClock ==
    /\ sinceTick > 0
    /\ sinceTick' = 0
    /\ UNCHANGED <<vars, sinceReceived>>

TimePasses ==
    /\ Displayed
    /\ sinceTick < TickLag
    /\ sinceTick' = sinceTick + 1
    /\ sinceReceived' = IF sinceReceived < MaxAge THEN sinceReceived + 1 ELSE MaxAge
    /\ UNCHANGED vars

ReadinessNext ==
    \/ PollSnapshot
    \/ OtherPollingStep
    \/ \E r \in Reads : SnapshotSettles(r)
    \/ ReadClock
    \/ TimePasses

ReadinessFairness ==
    /\ WF_tableVars(PollSnapshot)
    /\ \A r \in Reads : WF_tableVars(SnapshotSettles(r))

ReadinessSpec == ReadinessInit /\ [][ReadinessNext]_tableVars /\ ReadinessFairness

-----------------------------------------------------------------------------
(* Properties *)

\* A backend is called ready or down without "last known" only if its checks are
\* running and the answer came within the last 30 seconds, one tick aside
\* (BackendReadiness.tsx:15-16, 57, 74).
PlainLabelIsRecent ==
    Displayed /\ Label(Snapshot[view.data]).state # "unknown"
              /\ ~Label(Snapshot[view.data]).lastKnown
    => Snapshot[view.data].running /\ sinceReceived <= StaleAfter + TickLag

\* The age on display is the age of the probe when the snapshot was received plus the
\* time since: never more, and less by one tick at most, up to the cap of a day
\* (BackendReadiness.tsx:15, 54-56, 78-82).
AgeIsHonest ==
    Displayed /\ Snapshot[view.data].age # NotChecked /\ sinceReceived < MaxAge =>
        LET age == Snapshot[view.data].age + sinceReceived
        IN  /\ ShownAge(Snapshot[view.data]) <= age
            /\ ShownAge(Snapshot[view.data]) >= AtMostDay(age - TickLag)

\* Neither the label nor the age passes an old observation off as a new one.
AgesAreHonest == ReadinessTypeOK /\ PlainLabelIsRecent /\ AgeIsHonest

\* No table that has been shown while the API answers stays marked as old for good.
StaleTableRecovers ==
    <>[](up /\ ~disposed) => [](Stale => <>(~Stale))

\* The view recovers from an outage in what it shows and in how old it calls it.
ViewRecovers == CatchesUp /\ StaleTableRecovers
=============================================================================
