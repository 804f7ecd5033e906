--------------------------- MODULE PollingResource ---------------------------
(***************************************************************************)
(* The read side of the dashboard: createPollingResource of                *)
(* ui/src/polling.ts with the hook usePolling of ui/src/hooks.ts that      *)
(* mounts one, polls it on an interval, retries on demand and disposes it. *)
(*                                                                         *)
(* A read is named by its resource and its generation.  The code counts    *)
(* generations up and only ever compares them for equality, so a new one   *)
(* is any name that no unsettled read of the resource bears.  What the API *)
(* would answer is a version number that grows; a read fetches the version *)
(* at the moment the server handles it.  A read that was aborted normally  *)
(* rejects, but the resource does not rely on it (nor do its tests), so an *)
(* aborted read may still answer.                                          *)
(***************************************************************************)
EXTENDS Naturals, FiniteSets

CONSTANTS
    Resources,    \* names for the resources that successive mounts create
    Generations,  \* names for the reads of one resource
    MaxVersion,   \* bound: how often what the API answers changes
    MaxRetries,   \* bound: how often the user asks for a retry
    None,         \* no data
    Unused,       \* no such read
    Waiting       \* a read without an answer

ASSUME PollingAssumption ==
    /\ MaxVersion \in Nat
    /\ MaxRetries \in Nat
    /\ {None, Unused, Waiting} \cap Nat = {}
    /\ Unused # Waiting

VARIABLES
    server,      \* the version the API would answer with now
    up,          \* whether the API answers reads rather than failing them
    resource,    \* the resource of the last mount
    disposed,    \* whether it was disposed, i.e. the component is unmounted
    generation,  \* its newest generation
    inFlight,    \* whether its newest read has not settled
    view,        \* the state it last published, which is what React renders
    answer,      \* for every read: unused, waiting, or the version answered
    aborted,     \* the unsettled reads that were told to abort
    retries,     \* the retries so far
    outcome      \* history: how the last read of this resource ended

vars == <<server, up, resource, disposed, generation, inFlight, view, answer,
          aborted, retries, outcome>>

Reads    == Resources \X Generations
Versions == 0 .. MaxVersion
View     == [data: Versions \cup {None}, isLoading: BOOLEAN, isRefreshing: BOOLEAN,
             error: BOOLEAN]
Loading  == [data |-> None, isLoading |-> TRUE, isRefreshing |-> FALSE, error |-> FALSE]

\* The unsettled reads, of this mount and of earlier ones.
Outstanding == {r \in Reads : answer[r] # Unused}

TypeOK ==
    /\ server \in Versions
    /\ up \in BOOLEAN
    /\ resource \in Resources
    /\ disposed \in BOOLEAN
    /\ generation \in Generations
    /\ inFlight \in BOOLEAN
    /\ view \in View
    /\ answer \in [Reads -> Versions \cup {Unused, Waiting}]
    /\ aborted \subseteq Outstanding
    /\ retries \in 0 .. MaxRetries
    /\ outcome \in {"none", "ok", "failed"}

Newest == <<resource, generation>>

Init ==
    /\ server = 0
    /\ up \in BOOLEAN
    /\ resource \in Resources
    /\ disposed = TRUE
    /\ generation \in Generations
    /\ inFlight = FALSE
    /\ view = Loading
    /\ answer = [r \in Reads |-> Unused]
    /\ aborted = {}
    /\ retries = 0
    /\ outcome = "none"

-----------------------------------------------------------------------------
(* Reading *)

Fresh(res) == {g \in Generations \ {generation} : answer[<<res, g>>] = Unused}

\* Mutant: a refresh does not say that it is one.
SilentRefresh(state) ==
    [data |-> state.data, isLoading |-> state.data = None, isRefreshing |-> FALSE,
     error |-> state.data # None /\ state.error]

\* Mutant: a new attempt hides the error of the last one.
ClearsError(state) ==
    [data |-> state.data, isLoading |-> state.data = None,
     isRefreshing |-> state.data # None, error |-> FALSE]

\* What a read publishes before it asks: data stays, an error stays beside it.
Busy(state) ==
    [data         |-> state.data,
     isLoading    |-> state.data = None,
     isRefreshing |-> state.data # None,
     error        |-> state.data # None /\ state.error]

\* Mutants: no abort at all; and a controller that is not cleared when its read ends.
NoAbort == UNCHANGED aborted
AbortAlways == aborted' = aborted \cup {Newest}

\* controller?.abort(): the controller is that of the unsettled newest read.
AbortNewest == aborted' = IF inFlight THEN aborted \cup {Newest} ELSE aborted

\* The body of read() after its early returns.
Read(res, state) == \E g \in Fresh(res) :
    /\ generation' = g
    /\ view' = Busy(state)
    /\ answer' = [answer EXCEPT ![<<res, g>>] = Waiting]
    /\ inFlight' = TRUE

\* The effect of usePolling: a resource of its own, and the first poll.
Mount == \E res \in Resources :
    /\ disposed
    /\ \A g \in Generations : answer[<<res, g>>] = Unused
    /\ resource' = res
    /\ disposed' = FALSE
    /\ Read(res, Loading)
    /\ outcome' = "none"
    /\ UNCHANGED <<server, up, aborted, retries>>

\* The interval: a read in flight is left alone, so that polls never overlap.
Poll ==
    /\ ~disposed
    /\ ~inFlight
    /\ Read(resource, view)
    /\ UNCHANGED <<server, up, resource, disposed, aborted, retries, outcome>>

\* The user's retry takes over from a read in flight.
Retry ==
    /\ ~disposed
    /\ retries < MaxRetries
    /\ retries' = retries + 1
    /\ AbortNewest
    /\ Read(resource, view)
    /\ UNCHANGED <<server, up, resource, disposed, outcome>>

\* The cleanup of the effect: clearInterval and dispose().
Unmount ==
    /\ ~disposed
    /\ disposed' = TRUE
    /\ generation' \in Fresh(resource)
    /\ AbortNewest
    /\ inFlight' = FALSE
    /\ UNCHANGED <<server, up, resource, view, answer, retries, outcome>>

-----------------------------------------------------------------------------
(* Answers *)

\* Mutants: no check of the generation; no check of disposed either.
AnyOfTheResource(r) == ~disposed /\ r[1] = resource
NoCheck(r) == r[1] = resource

\* Only the newest read of a resource that is not disposed may publish.
Owns(r) == ~disposed /\ r = Newest

Publish(r, state, how) ==
    IF Owns(r)
    THEN view' = state /\ outcome' = how
    ELSE UNCHANGED <<view, outcome>>

\* Mutant: finally is forgotten.
KeepsInFlight(r) ==
    /\ answer' = [answer EXCEPT ![r] = Unused]
    /\ aborted' = aborted \ {r}
    /\ UNCHANGED inFlight

\* finally: the read is over, and the resource is free if it was the newest.
Finish(r) ==
    /\ answer' = [answer EXCEPT ![r] = Unused]
    /\ aborted' = aborted \ {r}
    /\ inFlight' = IF Owns(r) THEN FALSE ELSE inFlight

\* The server handles the read.
Serve(r) ==
    /\ answer[r] = Waiting
    /\ up
    /\ answer' = [answer EXCEPT ![r] = server]
    /\ UNCHANGED <<server, up, resource, disposed, generation, inFlight, view,
                   aborted, retries, outcome>>

Resolve(r) ==
    /\ answer[r] \in Versions
    /\ Publish(r, [data |-> answer[r], isLoading |-> FALSE, isRefreshing |-> FALSE,
                   error |-> FALSE], "ok")
    /\ Finish(r)
    /\ UNCHANGED <<server, up, resource, disposed, generation, retries>>

\* No connection, an error status, a broken body, or the abort.
Reject(r) ==
    /\ answer[r] # Unused
    /\ ~up \/ r \in aborted
    /\ Publish(r, [data |-> view.data, isLoading |-> FALSE, isRefreshing |-> FALSE,
                   error |-> TRUE], "failed")
    /\ Finish(r)
    /\ UNCHANGED <<server, up, resource, disposed, generation, retries>>

-----------------------------------------------------------------------------
(* The API *)

ServerChanges ==
    /\ server < MaxVersion
    /\ server' = server + 1
    /\ UNCHANGED <<up, resource, disposed, generation, inFlight, view, answer,
                   aborted, retries, outcome>>

OutageStartsOrEnds ==
    /\ up' = ~up
    /\ UNCHANGED <<server, resource, disposed, generation, inFlight, view, answer,
                   aborted, retries, outcome>>

ReadStep(r) == Serve(r) \/ Resolve(r) \/ Reject(r)

Next ==
    \/ Mount \/ Poll \/ Retry \/ Unmount
    \/ \E r \in Reads : ReadStep(r)
    \/ ServerChanges \/ OutageStartsOrEnds

Spec == Init /\ [][Next]_vars

\* The interval fires and every read settles; nothing obliges the user or the API.
PollingFairness ==
    /\ WF_vars(Poll)
    /\ \A r \in Reads : WF_vars(ReadStep(r))

FairSpec == Spec /\ PollingFairness

-----------------------------------------------------------------------------
(* Properties *)

\* Of all reads of all resources, at most one is unsettled and not told to abort:
\* polls, retries and mounts never pile up requests (polling.ts:27-28, 71).
OneLiveRead ==
    \A r \in Outstanding \ aborted : ~disposed /\ inFlight /\ r = Newest

\* A mounted view says it is busy exactly while its newest read is unsettled, so it
\* neither hangs in "loading" nor starts a second read (polling.ts:32-37, 53-57).
BusyIffReading ==
    ~disposed =>
        /\ inFlight <=> answer[Newest] # Unused
        /\ inFlight <=> view.isLoading \/ view.isRefreshing
        /\ view.isLoading => view.data = None

\* After a failed read the view shows the error beside the last good data, or, with
\* no data yet, the error or a new attempt: never old data as if it were current.
StaleIsMarked ==
    ~disposed /\ outcome = "failed" => view.error \/ view.isLoading

\* Reads and what the view says of them match: none runs unseen, none is only claimed,
\* and none fails unmarked.
ReadsAreAccountedFor == TypeOK /\ OneLiveRead /\ BusyIffReading /\ StaleIsMarked

\* Data that was shown is only ever replaced by data of the same or a later version
\* until the next mount, whatever the order in which overlapping reads answer.
DataNeverGoesBack ==
    view.data # None /\ ~disposed => view'.data # None /\ view'.data >= view.data

\* Nothing is published after dispose, however late a read answers.
SilentAfterDispose == disposed /\ disposed' => view' = view

\* An answer that comes late, after a retry, a newer read or dispose, changes nothing
\* for the worse (polling.ts:41-57).
LateAnswersAreIgnored == [][DataNeverGoesBack /\ SilentAfterDispose]_vars

\* If the API recovers for good, a view that stays mounted ends up with its last
\* version and without an error.
CatchesUp ==
    <>[](up /\ ~disposed) => <>[](view.data = server /\ ~view.error)
=============================================================================
