--------------------------- MODULE DashboardProofs ---------------------------
(***************************************************************************)
(* Proofs about the polled resource of the dashboard, about the two        *)
(* modules that are built on it, the shell and the readiness table, and    *)
(* about the activity page with the statistics it shows and the diagram    *)
(* of the routes.                                                          *)
(*                                                                         *)
(* PollingResource, for any number of resources, overlapping reads,        *)
(* versions and retries: at most one read is live and the view says so,    *)
(* failures stay marked, and late answers neither take the view back nor   *)
(* reach it after dispose.                                                 *)
(*                                                                         *)
(* AppShell, for any pages and sizes: the shell uses the polled resource   *)
(* as PollingResource assumes (UsesPolling), so that its invariant IInv    *)
(* holds here.  To it ShellInv adds that an error is on the view exactly   *)
(* when the last read failed (ErrorInv), and that what is stored is what   *)
(* would be loaded (StoredInv).                                            *)
(*                                                                         *)
(* Readiness, for any snapshots, ages and lags: the table uses the polled  *)
(* resource in the same way (TableUsesPolling).                            *)
(*                                                                         *)
(* ActivityPage, for any requests, goroutines, sizes and ranges: StatsInv  *)
(* holds of the counters, the buffer and a report that is half made, and   *)
(* PageInv adds that the rows were computed when the last list came.       *)
(*                                                                         *)
(* FlowDiagram, for any topologies, reports and searches: AreDrawable,     *)
(* AreBuckets and RowsAreApart say what routes, groups and their rows are, *)
(* RoutedIs and ShownByItsGroup which nodes are drawn for them; from these *)
(* and from DiagramInv, that the expanded keys are keys of the grouping in *)
(* use, the properties of the layout follow.                               *)
(***************************************************************************)
EXTENDS AppShell, Readiness, ActivityPage, FlowDiagram, ListProofs, TLAPS

(* The polled resource *)

\* What is answered, and so what is shown, was the server's at some moment ...
FromServer ==
    /\ \A r \in Reads : answer[r] \in Versions => answer[r] <= server
    /\ view.data # None => view.data <= server

\* ... and the read that may still publish asked after all that is shown was answered.
NewestIsNewer ==
    ~disposed /\ answer[Newest] \in Versions /\ view.data # None
        => view.data <= answer[Newest]

IInv ==
    /\ TypeOK /\ OneLiveRead /\ BusyIffReading
    /\ StaleIsMarked /\ FromServer /\ NewestIsNewer

-----------------------------------------------------------------------------
\* The names of no data, no read and no answer are not versions.
LEMMA NotVersions ==
    /\ Versions \subseteq Nat
    /\ None \notin Versions /\ Unused \notin Versions /\ Waiting \notin Versions
    /\ Unused # Waiting
<1>1. None \notin Nat /\ Unused \notin Nat /\ Waiting \notin Nat
  BY PollingAssumption
<1> QED BY <1>1, PollingAssumption DEF Versions

\* What a read publishes before it asks is a busy view of the same data.
LEMMA BusyView ==
    ASSUME NEW state \in View
    PROVE  /\ Busy(state) \in View
           /\ Busy(state).data = state.data
           /\ Busy(state).isLoading <=> state.data = None
           /\ Busy(state).isRefreshing <=> state.data # None
           /\ Busy(state).error <=> state.data # None /\ state.error
<1>1. /\ state.data \in Versions \cup {None} /\ state.error \in BOOLEAN
  BY DEF View
<1> QED BY <1>1 DEF View, Busy

LEMMA LoadingView == Loading \in View /\ Loading.data = None
BY DEF View, Loading

\* The first state satisfies the invariant.
LEMMA InitHolds == Init => IInv
<1> SUFFICES ASSUME Init PROVE IInv
  OBVIOUS
<1> USE NotVersions, LoadingView, PollingAssumption DEF Init
<1>1. TypeOK
  <2>1. server \in Versions /\ retries \in 0 .. MaxRetries
    BY DEF Versions
  <2>2. answer \in [Reads -> Versions \cup {Unused, Waiting}] /\ aborted \subseteq Outstanding
    OBVIOUS
  <2> QED BY <2>1, <2>2 DEF TypeOK
<1>2. OneLiveRead
  BY DEF OneLiveRead, Outstanding
<1>3. BusyIffReading /\ StaleIsMarked /\ NewestIsNewer
  BY DEF BusyIffReading, StaleIsMarked, NewestIsNewer
<1>4. FromServer
  BY DEF FromServer
<1> QED BY <1>1, <1>2, <1>3, <1>4 DEF IInv

-----------------------------------------------------------------------------
(* The steps that start or end reading *)

\* A new read is the only live one and leaves all answers as they are: Mount, Poll and
\* Retry have in common that every unsettled read is aborted before it starts.
LEMMA ReadPreserves ==
    ASSUME IInv, NEW res \in Resources, NEW state \in View,
           Read(res, state),
           disposed' = FALSE, resource' = res, server' = server,
           \A r \in Outstanding : r \in aborted',
           aborted' \subseteq Outstanding
    PROVE  /\ answer' \in [Reads -> Versions \cup {Unused, Waiting}]
           /\ generation' \in Generations /\ inFlight' /\ view' = Busy(state)
           /\ answer'[Newest'] = Waiting
           /\ aborted' \subseteq Outstanding'
           /\ OneLiveRead' /\ BusyIffReading' /\ NewestIsNewer'
           /\ \A r \in Reads : answer'[r] \in Versions => answer'[r] <= server'
<1> USE NotVersions
<1>1. PICK g \in Fresh(res) :
        /\ generation' = g /\ view' = Busy(state) /\ inFlight' = TRUE
        /\ answer' = [answer EXCEPT ![<<res, g>>] = Waiting]
  BY DEF Read
<1>2. /\ g \in Generations /\ Newest' = <<res, g>> /\ <<res, g>> \in Reads
      /\ answer[<<res, g>>] = Unused
      /\ answer \in [Reads -> Versions \cup {Unused, Waiting}]
  BY <1>1 DEF Fresh, Newest, Reads, IInv, TypeOK
<1>3. /\ answer' \in [Reads -> Versions \cup {Unused, Waiting}]
      /\ answer'[Newest'] = Waiting
      /\ \A r \in Reads : r # Newest' => answer'[r] = answer[r]
  BY <1>1, <1>2
<1>4. Outstanding' = Outstanding \cup {Newest'}
  BY <1>2, <1>3 DEF Outstanding, Reads
<1>5. OneLiveRead'
  BY <1>1, <1>4 DEF OneLiveRead
<1>6. BusyIffReading'
  BY <1>1, <1>3, BusyView DEF BusyIffReading
<1>7. NewestIsNewer'
  BY <1>3 DEF NewestIsNewer
<1>8. \A r \in Reads : answer'[r] \in Versions => answer'[r] <= server'
  BY <1>3 DEF IInv, FromServer
<1> QED BY <1>1, <1>2, <1>3, <1>4, <1>5, <1>6, <1>7, <1>8

\* Aborting the newest read leaves no live read of a mounted resource.
LEMMA AbortLeavesNone ==
    ASSUME IInv, ~disposed, AbortNewest
    PROVE  Outstanding \subseteq aborted' /\ aborted' \subseteq Outstanding
<1>1. \A r \in Outstanding \ aborted : inFlight /\ r = Newest
  BY DEF IInv, OneLiveRead
<1>2. inFlight => Newest \in Outstanding
  BY DEF IInv, BusyIffReading, Outstanding, Newest, Reads, TypeOK
<1>3. aborted' = IF inFlight THEN aborted \cup {Newest} ELSE aborted
  BY DEF AbortNewest
<1>4. aborted \subseteq Outstanding
  BY DEF IInv, TypeOK
<1> QED BY <1>1, <1>2, <1>3, <1>4

-----------------------------------------------------------------------------
(* One lemma per step *)

\* Mount, Poll and Retry: the conjuncts that ReadPreserves leaves open.
LEMMA MountHolds == IInv /\ Mount => IInv'
<1> SUFFICES ASSUME IInv, Mount PROVE IInv'
  OBVIOUS
<1> USE NotVersions
<1>1. PICK res \in Resources :
        /\ disposed /\ resource' = res /\ disposed' = FALSE
        /\ Read(res, Loading) /\ outcome' = "none"
        /\ UNCHANGED <<server, up, aborted, retries>>
  BY DEF Mount
<1>2. Outstanding \subseteq aborted
  BY <1>1 DEF IInv, OneLiveRead
<1>3. /\ answer' \in [Reads -> Versions \cup {Unused, Waiting}]
      /\ generation' \in Generations /\ inFlight' /\ view' = Busy(Loading)
      /\ aborted' \subseteq Outstanding'
      /\ OneLiveRead' /\ BusyIffReading' /\ NewestIsNewer'
      /\ \A r \in Reads : answer'[r] \in Versions => answer'[r] <= server'
  <2>1. aborted' \subseteq Outstanding /\ \A r \in Outstanding : r \in aborted'
    BY <1>1, <1>2 DEF IInv, TypeOK
  <2> QED BY <1>1, <2>1, LoadingView, ReadPreserves
<1>4. view' \in View /\ view'.data = None
  BY <1>3, LoadingView, BusyView
<1>5. TypeOK'
  BY <1>1, <1>3, <1>4 DEF IInv, TypeOK, Read
<1>6. StaleIsMarked' /\ FromServer'
  BY <1>1, <1>3, <1>4 DEF StaleIsMarked, FromServer
<1> QED BY <1>3, <1>5, <1>6 DEF IInv

LEMMA AgainHolds ==
    ASSUME IInv, ~disposed, Read(resource, view), Outstanding \subseteq aborted',
           aborted' \subseteq Outstanding, retries' \in 0 .. MaxRetries,
           UNCHANGED <<server, up, resource, disposed, outcome>>
    PROVE  IInv' /\ DataNeverGoesBack
<1> USE NotVersions
<1>1. view \in View /\ resource \in Resources /\ disposed \in BOOLEAN
  BY DEF IInv, TypeOK
<1>2. disposed' = FALSE /\ resource' = resource /\ server' = server
  BY <1>1
<1>3. /\ answer' \in [Reads -> Versions \cup {Unused, Waiting}]
      /\ generation' \in Generations /\ inFlight' /\ view' = Busy(view)
      /\ aborted' \subseteq Outstanding'
      /\ OneLiveRead' /\ BusyIffReading' /\ NewestIsNewer'
      /\ \A r \in Reads : answer'[r] \in Versions => answer'[r] <= server'
  BY <1>1, <1>2, ReadPreserves
<1>4. /\ view' \in View /\ view'.data = view.data
      /\ view'.isLoading <=> view.data = None
      /\ view'.error <=> view.data # None /\ view.error
  BY <1>1, <1>3, BusyView
<1>5. TypeOK'
  BY <1>2, <1>3, <1>4 DEF IInv, TypeOK, Read
<1>6. FromServer'
  BY <1>2, <1>3, <1>4 DEF IInv, FromServer
<1>7. StaleIsMarked'
  BY <1>2, <1>4 DEF IInv, StaleIsMarked, BusyIffReading
<1>8. DataNeverGoesBack
  <2>1. view.data \in Nat \cup {None}
    BY <1>1 DEF View
  <2> QED BY <1>4, <2>1 DEF DataNeverGoesBack
<1> QED BY <1>3, <1>5, <1>6, <1>7, <1>8 DEF IInv

LEMMA PollHolds == IInv /\ Poll => IInv' /\ DataNeverGoesBack
<1> SUFFICES ASSUME IInv, Poll PROVE IInv' /\ DataNeverGoesBack
  OBVIOUS
<1>1. Outstanding \subseteq aborted' /\ aborted' \subseteq Outstanding
  BY DEF Poll, IInv, OneLiveRead, TypeOK
<1>2. retries' \in 0 .. MaxRetries
  BY DEF Poll, IInv, TypeOK
<1> QED BY <1>1, <1>2, AgainHolds DEF Poll

LEMMA RetryHolds == IInv /\ Retry => IInv' /\ DataNeverGoesBack
<1> SUFFICES ASSUME IInv, Retry PROVE IInv' /\ DataNeverGoesBack
  OBVIOUS
<1>1. Outstanding \subseteq aborted' /\ aborted' \subseteq Outstanding
  BY AbortLeavesNone DEF Retry
<1>2. retries' \in 0 .. MaxRetries
  BY PollingAssumption DEF Retry, IInv, TypeOK
<1> QED BY <1>1, <1>2, AgainHolds DEF Retry

LEMMA UnmountHolds == IInv /\ Unmount => IInv'
<1> SUFFICES ASSUME IInv, Unmount PROVE IInv'
  OBVIOUS
<1>1. Outstanding \subseteq aborted' /\ aborted' \subseteq Outstanding
  BY AbortLeavesNone DEF Unmount
<1>2. disposed' /\ ~inFlight' /\ Outstanding' = Outstanding
  BY DEF Unmount, Outstanding
<1>3. TypeOK'
  BY <1>1, <1>2 DEF Unmount, IInv, TypeOK, Fresh
<1>4. OneLiveRead' /\ BusyIffReading' /\ StaleIsMarked' /\ NewestIsNewer'
  BY <1>1, <1>2 DEF OneLiveRead, BusyIffReading, StaleIsMarked, NewestIsNewer
<1>5. FromServer'
  BY DEF Unmount, IInv, FromServer
<1> QED BY <1>3, <1>4, <1>5 DEF IInv

\* An answer is the version the server is at.
LEMMA ServeHolds == ASSUME NEW r \in Reads PROVE IInv /\ Serve(r) => IInv'
<1> SUFFICES ASSUME IInv, Serve(r) PROVE IInv'
  OBVIOUS
<1> USE NotVersions
<1>1. /\ answer[r] = Waiting /\ answer' = [answer EXCEPT ![r] = server]
      /\ server \in Versions
      /\ answer \in [Reads -> Versions \cup {Unused, Waiting}]
  BY DEF Serve, IInv, TypeOK
<1>2. /\ answer' \in [Reads -> Versions \cup {Unused, Waiting}]
      /\ answer'[r] = server
      /\ \A x \in Reads : x # r => answer'[x] = answer[x]
  BY <1>1
<1>3. Outstanding' = Outstanding
  BY <1>1, <1>2 DEF Outstanding
<1>4. Newest' = Newest /\ Newest \in Reads
  BY DEF Serve, Newest, Reads, IInv, TypeOK
<1>5. answer'[Newest] # Unused <=> answer[Newest] # Unused
  BY <1>1, <1>2, <1>4
<1>6. TypeOK'
  BY <1>2, <1>3 DEF Serve, IInv, TypeOK
<1>7. OneLiveRead' /\ StaleIsMarked'
  BY <1>3, <1>4 DEF Serve, IInv, OneLiveRead, StaleIsMarked
<1>8. BusyIffReading'
  BY <1>4, <1>5 DEF Serve, IInv, BusyIffReading
<1>9. FromServer' /\ NewestIsNewer'
  BY <1>1, <1>2, <1>4 DEF Serve, IInv, FromServer, NewestIsNewer
<1> QED BY <1>6, <1>7, <1>8, <1>9 DEF IInv

\* A read that settles publishes only when it is the newest one of a mounted resource.
\* This is what Resolve and Reject have in common.
LEMMA SettleHolds ==
    ASSUME IInv, NEW r \in Outstanding, NEW state \in View, NEW how \in {"ok", "failed"},
           Publish(r, state, how), Finish(r),
           ~state.isLoading /\ ~state.isRefreshing,
           how = "failed" => state.error,
           Owns(r) => /\ state.data # None => state.data <= server
                      /\ view.data # None =>
                             state.data # None /\ state.data >= view.data,
           UNCHANGED <<server, up, resource, disposed, generation, retries>>
    PROVE  IInv' /\ DataNeverGoesBack /\ SilentAfterDispose
<1> USE NotVersions
<1>1. /\ answer \in [Reads -> Versions \cup {Unused, Waiting}] /\ r \in Reads
      /\ disposed \in BOOLEAN /\ inFlight \in BOOLEAN /\ view \in View
      /\ aborted \subseteq Outstanding
  BY DEF IInv, TypeOK, Outstanding
<1>2. /\ answer' \in [Reads -> Versions \cup {Unused, Waiting}]
      /\ answer'[r] = Unused
      /\ \A x \in Reads : x # r => answer'[x] = answer[x]
  BY <1>1 DEF Finish
<1>3. Outstanding' = Outstanding \ {r} /\ aborted' = aborted \ {r}
  BY <1>1, <1>2 DEF Outstanding, Finish
<1>4. Newest' = Newest /\ Newest \in Reads
  BY DEF Newest, Reads, IInv, TypeOK
<1>5. FromServer'
  <2>1. \A x \in Reads : answer'[x] \in Versions => answer'[x] <= server'
    BY <1>2 DEF IInv, FromServer
  <2>2. view'.data # None => view'.data <= server'
    BY DEF Publish, IInv, FromServer
  <2> QED BY <2>1, <2>2 DEF FromServer
<1>6. CASE Owns(r)
  <2>1. ~disposed /\ r = Newest
    BY <1>6 DEF Owns
  <2>2. view' = state /\ outcome' = how /\ inFlight' = FALSE
    BY <1>6 DEF Publish, Finish
  <2>3. TypeOK'
    BY <1>1, <1>2, <1>3, <2>2 DEF IInv, TypeOK
  <2>4. OneLiveRead'
    BY <1>3, <2>1 DEF IInv, OneLiveRead
  <2>5. BusyIffReading'
    BY <1>2, <1>4, <2>1, <2>2 DEF BusyIffReading
  <2>6. StaleIsMarked' /\ NewestIsNewer'
    BY <1>2, <1>4, <2>1, <2>2 DEF StaleIsMarked, NewestIsNewer
  <2>7. DataNeverGoesBack /\ SilentAfterDispose
    BY <1>6, <2>1, <2>2 DEF DataNeverGoesBack, SilentAfterDispose
  <2> QED BY <1>5, <2>3, <2>4, <2>5, <2>6, <2>7 DEF IInv
<1>7. CASE ~Owns(r)
  <2>1. view' = view /\ outcome' = outcome /\ inFlight' = inFlight
    BY <1>7 DEF Publish, Finish
  <2>2. disposed' = disposed /\ (~disposed => r # Newest)
    BY <1>7 DEF Owns
  <2>3. TypeOK'
    BY <1>1, <1>2, <1>3, <2>1 DEF IInv, TypeOK
  <2>4. OneLiveRead'
    BY <1>3, <1>4, <2>1, <2>2 DEF IInv, OneLiveRead
  <2>5. BusyIffReading'
    BY <1>2, <1>4, <2>1, <2>2 DEF IInv, BusyIffReading
  <2>6. StaleIsMarked' /\ NewestIsNewer'
    BY <1>2, <1>4, <2>1, <2>2 DEF IInv, StaleIsMarked, NewestIsNewer
  <2>7. DataNeverGoesBack /\ SilentAfterDispose
    <3>1. view.data \in Nat \cup {None}
      BY <1>1 DEF View
    <3> QED BY <2>1, <3>1 DEF DataNeverGoesBack, SilentAfterDispose
  <2> QED BY <1>5, <2>3, <2>4, <2>5, <2>6, <2>7 DEF IInv
<1> QED BY <1>6, <1>7

LEMMA ResolveHolds ==
    ASSUME NEW r \in Reads
    PROVE  IInv /\ Resolve(r) => IInv' /\ DataNeverGoesBack /\ SilentAfterDispose
<1> SUFFICES ASSUME IInv, Resolve(r)
             PROVE  IInv' /\ DataNeverGoesBack /\ SilentAfterDispose
  OBVIOUS
<1> USE NotVersions
<1> DEFINE state == [data |-> answer[r], isLoading |-> FALSE, isRefreshing |-> FALSE,
                     error |-> FALSE]
<1>1. answer[r] \in Versions /\ r \in Outstanding
  BY DEF Resolve, Outstanding
<1>2. /\ state \in View /\ state.data = answer[r]
      /\ ~state.isLoading /\ ~state.isRefreshing
  BY <1>1 DEF View
<1>3. state.data # None => state.data <= server
  BY <1>1, <1>2 DEF IInv, FromServer
<1>4. Owns(r) /\ view.data # None => state.data # None /\ state.data >= view.data
  <2>1. view.data \in Nat \cup {None}
    BY DEF IInv, TypeOK, View
  <2> QED BY <1>1, <1>2, <2>1 DEF Owns, IInv, NewestIsNewer
<1>5. /\ Publish(r, state, "ok") /\ Finish(r)
      /\ UNCHANGED <<server, up, resource, disposed, generation, retries>>
  BY DEF Resolve
<1> HIDE DEF state
<1> QED BY <1>1, <1>2, <1>3, <1>4, <1>5, SettleHolds

LEMMA RejectHolds ==
    ASSUME NEW r \in Reads
    PROVE  IInv /\ Reject(r) => IInv' /\ DataNeverGoesBack /\ SilentAfterDispose
<1> SUFFICES ASSUME IInv, Reject(r)
             PROVE  IInv' /\ DataNeverGoesBack /\ SilentAfterDispose
  OBVIOUS
<1> USE NotVersions
<1> DEFINE state == [data |-> view.data, isLoading |-> FALSE, isRefreshing |-> FALSE,
                     error |-> TRUE]
<1>1. r \in Outstanding
  BY DEF Reject, Outstanding
<1>2. view.data \in Versions \cup {None}
  BY DEF IInv, TypeOK, View
<1>3. /\ state \in View /\ state.data = view.data /\ state.error
      /\ ~state.isLoading /\ ~state.isRefreshing
  BY <1>2 DEF View
<1>4. /\ state.data # None => state.data <= server
      /\ view.data # None => state.data # None /\ state.data >= view.data
  <2>1. view.data # None => view.data \in Nat
    BY <1>2
  <2> QED BY <1>3, <2>1 DEF IInv, FromServer
<1>5. /\ Publish(r, state, "failed") /\ Finish(r)
      /\ UNCHANGED <<server, up, resource, disposed, generation, retries>>
  BY DEF Reject
<1> HIDE DEF state
<1> QED BY <1>1, <1>3, <1>4, <1>5, SettleHolds

\* Versions only grow.
LEMMA ServerChangesHolds == IInv /\ ServerChanges => IInv'
<1> SUFFICES ASSUME IInv, ServerChanges PROVE IInv'
  OBVIOUS
<1> USE NotVersions
<1>1. server \in 0 .. MaxVersion /\ server' = server + 1 /\ server' \in Versions
  BY PollingAssumption DEF ServerChanges, IInv, TypeOK, Versions
<1>2. TypeOK'
  BY <1>1 DEF ServerChanges, IInv, TypeOK, Outstanding
<1>3. OneLiveRead' /\ BusyIffReading' /\ StaleIsMarked' /\ NewestIsNewer'
  BY DEF ServerChanges, IInv, OneLiveRead, Outstanding, BusyIffReading, StaleIsMarked,
         NewestIsNewer, Newest
<1>4. FromServer'
  <2>1. server \in Nat /\ view.data \in Nat \cup {None}
    BY DEF IInv, TypeOK, View
  <2>2. \A r \in Reads : answer[r] \in Versions => answer[r] <= server + 1
    <3> SUFFICES ASSUME NEW r \in Reads, answer[r] \in Versions PROVE answer[r] <= server + 1
      OBVIOUS
    <3>1. answer[r] \in Nat /\ answer[r] <= server
      BY DEF IInv, FromServer
    <3> QED BY <2>1, <3>1
  <2>3. view.data # None => view.data <= server + 1
    <3>1. view.data # None => view.data <= server
      BY DEF IInv, FromServer
    <3> QED BY <2>1, <3>1
  <2> QED BY <1>1, <2>2, <2>3 DEF ServerChanges, FromServer
<1> QED BY <1>2, <1>3, <1>4 DEF IInv

LEMMA OutageHolds == IInv /\ OutageStartsOrEnds => IInv'
<1> SUFFICES ASSUME IInv, OutageStartsOrEnds PROVE IInv'
  OBVIOUS
<1>1. TypeOK'
  BY DEF OutageStartsOrEnds, IInv, TypeOK, Outstanding
<1>2. OneLiveRead' /\ BusyIffReading' /\ StaleIsMarked' /\ FromServer' /\ NewestIsNewer'
  BY DEF OutageStartsOrEnds, IInv, OneLiveRead, Outstanding, BusyIffReading, StaleIsMarked,
         FromServer, NewestIsNewer, Newest
<1> QED BY <1>1, <1>2 DEF IInv

\* A step that leaves the view alone, or starts another mount, takes nothing back.
LEMMA QuietStep ==
    ASSUME IInv, view' = view \/ (disposed /\ ~disposed')
    PROVE  DataNeverGoesBack /\ SilentAfterDispose
<1> USE NotVersions
<1>1. view.data \in Nat \cup {None}
  BY DEF IInv, TypeOK, View
<1> QED BY <1>1 DEF DataNeverGoesBack, SilentAfterDispose

LEMMA NextHolds ==
    IInv /\ [Next]_vars => IInv' /\ ((DataNeverGoesBack /\ SilentAfterDispose) \/ UNCHANGED vars)
<1> SUFFICES ASSUME IInv, [Next]_vars
             PROVE  IInv' /\ ((DataNeverGoesBack /\ SilentAfterDispose) \/ UNCHANGED vars)
  OBVIOUS
<1>1. CASE Mount
  <2>1. disposed /\ ~disposed'
    BY <1>1 DEF Mount
  <2> QED BY <1>1, <2>1, MountHolds, QuietStep
<1>2. CASE Poll
  <2>1. ~disposed
    BY <1>2 DEF Poll
  <2> QED BY <1>2, <2>1, PollHolds DEF SilentAfterDispose
<1>3. CASE Retry
  <2>1. ~disposed
    BY <1>3 DEF Retry
  <2> QED BY <1>3, <2>1, RetryHolds DEF SilentAfterDispose
<1>4. CASE Unmount
  <2>1. view' = view
    BY <1>4 DEF Unmount
  <2> QED BY <1>4, <2>1, UnmountHolds, QuietStep
<1>5. ASSUME NEW r \in Reads, ReadStep(r)
      PROVE  IInv' /\ DataNeverGoesBack /\ SilentAfterDispose
  <2>1. CASE Serve(r)
    <3>1. view' = view
      BY <2>1 DEF Serve
    <3> QED BY <2>1, <3>1, ServeHolds, QuietStep
  <2>2. CASE Resolve(r)
    BY <2>2, ResolveHolds
  <2>3. CASE Reject(r)
    BY <2>3, RejectHolds
  <2> QED BY <1>5, <2>1, <2>2, <2>3 DEF ReadStep
<1>6. CASE ServerChanges
  <2>1. view' = view
    BY <1>6 DEF ServerChanges
  <2> QED BY <1>6, <2>1, ServerChangesHolds, QuietStep
<1>7. CASE OutageStartsOrEnds
  <2>1. view' = view
    BY <1>7 DEF OutageStartsOrEnds
  <2> QED BY <1>7, <2>1, OutageHolds, QuietStep
<1>8. CASE UNCHANGED vars
  BY <1>8 DEF vars, IInv, TypeOK, Outstanding, OneLiveRead, BusyIffReading, StaleIsMarked,
              FromServer, NewestIsNewer, Newest
<1> QED BY <1>1, <1>2, <1>3, <1>4, <1>5, <1>6, <1>7, <1>8 DEF Next

\* The invariant holds throughout.
THEOREM Invariance == Spec => []IInv
<1>1. Init => IInv
  BY InitHolds
<1>2. IInv /\ [Next]_vars => IInv'
  BY NextHolds
<1> QED BY <1>1, <1>2, PTL DEF Spec

-----------------------------------------------------------------------------
\* At most one read is unsettled and not told to abort, a mounted view is busy exactly
\* while it is, and a failure stays marked (polling.ts:27-57, 71).
THEOREM ReadsAccounted == Spec => []ReadsAreAccountedFor
<1>1. IInv => ReadsAreAccountedFor
  BY DEF IInv, ReadsAreAccountedFor
<1> QED BY <1>1, Invariance, PTL

\* Late answers never take a mounted view back to older data, and change nothing after
\* dispose (polling.ts:41-57).
THEOREM LateIgnored == Spec => LateAnswersAreIgnored
<1>1. IInv /\ [Next]_vars => [DataNeverGoesBack /\ SilentAfterDispose]_vars
  BY NextHolds
<1> QED BY <1>1, Invariance, PTL DEF Spec, LateAnswersAreIgnored

-----------------------------------------------------------------------------
(* The shell *)

\* A view that is not loading shows an error exactly after a failed read, and always if
\* it has no data.
ErrorInv ==
    ~disposed /\ ~view.isLoading =>
        /\ view.error <=> outcome = "failed"
        /\ view.data = None => view.error

\* A reload would load the settings that are in use.
StoredInv == theme = stored.theme /\ size = ParsedSize(stored.size)

ShellInv ==
    /\ IInv
    /\ ShellTypeOK
    /\ ErrorInv
    /\ StoredInv
    /\ ThemeIsApplied
    /\ PageFollowsHash

-----------------------------------------------------------------------------
(* The polled resource *)

\* Every step of the shell is one of the resource or leaves it alone.
LEMMA StepIsPolling == [ShellNext]_allVars => [Next]_vars
  <1> SUFFICES ASSUME [ShellNext]_allVars PROVE [Next]_vars
    OBVIOUS
  <1>1. CASE Open
    BY <1>1 DEF Open, Next
  <1>2. CASE Close
    BY <1>2 DEF Close, Next
  <1>3. CASE SetTheme \/ SetFontSize \/ MediaChanges \/ ToggleMenu \/ ClickOutside
    BY <1>3 DEF SetTheme, SetFontSize, MediaChanges, ToggleMenu, ClickOutside
  <1>4. CASE Navigate \/ EditUrl \/ HashChange
    BY <1>4 DEF Navigate, EditUrl, HashChange, GoTo
  <1>5. CASE PollAgain
    BY <1>5 DEF PollAgain, Next
  <1>6. CASE RetryConnection
    BY <1>6 DEF RetryConnection, Next
  <1>7. CASE Unseen
    BY <1>7 DEF Unseen, Next
  <1>8. ASSUME NEW r \in Reads, Settle(r) \/ Answered(r) PROVE [Next]_vars
    BY <1>8 DEF Settle, Answered, ReadStep, Next
  <1>9. CASE UNCHANGED allVars
    BY <1>9 DEF allVars
  <1> QED BY <1>1, <1>2, <1>3, <1>4, <1>5, <1>6, <1>7, <1>8, <1>9 DEF ShellNext

\* Without a mount or an unmount in between, the resource stays as mounted as it was.
LEMMA MountedStays ==
    ASSUME ShellNext, ~Open, ~Close PROVE disposed' = disposed
  <1>1. CASE SetTheme \/ SetFontSize \/ MediaChanges \/ ToggleMenu \/ ClickOutside
    BY <1>1 DEF SetTheme, SetFontSize, MediaChanges, ToggleMenu, ClickOutside, vars
  <1>2. CASE Navigate \/ EditUrl \/ HashChange
    BY <1>2 DEF Navigate, EditUrl, HashChange, GoTo, vars
  <1>3. CASE PollAgain \/ RetryConnection \/ Unseen
    BY <1>3 DEF PollAgain, Poll, RetryConnection, Retry, Unseen, ServerChanges,
                OutageStartsOrEnds
  <1>4. ASSUME NEW r \in Reads, Settle(r) \/ Answered(r) PROVE disposed' = disposed
    BY <1>4 DEF Settle, Answered, Resolve, Reject, Serve
  <1> QED BY <1>1, <1>2, <1>3, <1>4 DEF ShellNext

\* A new read keeps the error of the last one beside the data.
LEMMA ReadKeepsError ==
    ASSUME IInv, ErrorInv, ~disposed, Read(resource, view), outcome' = outcome
    PROVE  ErrorInv'
  <1>1. view \in View /\ view' = Busy(view)
    BY DEF IInv, TypeOK, Read
  <1>2. view.isLoading => view.data = None
    BY DEF IInv, BusyIffReading
  <1>3. view'.isLoading <=> view.data = None
    BY <1>1, BusyView
  <1>4. view'.data = view.data /\ (view'.error <=> view.data # None /\ view.error)
    BY <1>1, BusyView
  <1> QED BY <1>2, <1>3, <1>4 DEF ErrorInv

\* What a read that ends publishes says how it ended.
LEMMA EndSetsError ==
    ASSUME IInv, ErrorInv, NEW r \in Reads, Resolve(r) \/ Reject(r)
    PROVE  ErrorInv'
  <1>1. CASE Owns(r) /\ Resolve(r)
    <2>1. /\ outcome' = "ok"
          /\ view' = [data |-> answer[r], isLoading |-> FALSE, isRefreshing |-> FALSE,
                      error |-> FALSE]
          /\ answer[r] \in Versions
      BY <1>1 DEF Resolve, Publish
    <2>2. view'.data # None /\ ~view'.error
      BY <2>1, NotVersions
    <2> QED BY <2>1, <2>2 DEF ErrorInv
  <1>2. CASE Owns(r) /\ Reject(r)
    <2>1. /\ outcome' = "failed"
          /\ view' = [data |-> view.data, isLoading |-> FALSE, isRefreshing |-> FALSE,
                      error |-> TRUE]
      BY <1>2 DEF Reject, Publish
    <2> QED BY <2>1 DEF ErrorInv
  <1>3. CASE ~Owns(r)
    <2>1. view' = view /\ outcome' = outcome /\ disposed' = disposed
      BY <1>3 DEF Resolve, Reject, Publish
    <2> QED BY <2>1 DEF ErrorInv
  <1> QED BY <1>1, <1>2, <1>3

LEMMA ErrorStep == ASSUME IInv, ErrorInv, [ShellNext]_allVars PROVE ErrorInv'
  <1>1. CASE Open
    <2>1. view' = Busy(Loading)
      BY <1>1 DEF Open, Mount, Read
    <2>2. view'.isLoading
      BY <2>1, LoadingView, BusyView
    <2> QED BY <2>2 DEF ErrorInv
  <1>2. CASE Close
    BY <1>2 DEF Close, Unmount, ErrorInv
  <1>3. CASE PollAgain \/ RetryConnection
    BY <1>3, ReadKeepsError DEF PollAgain, Poll, RetryConnection, Retry
  <1>4. ASSUME NEW r \in Reads, Settle(r) PROVE ErrorInv'
    BY <1>4, EndSetsError DEF Settle
  <1>5. ASSUME NEW r \in Reads, Answered(r) PROVE ErrorInv'
    BY <1>5 DEF Answered, Serve, ErrorInv
  <1>6. CASE Unseen
    BY <1>6 DEF Unseen, ServerChanges, OutageStartsOrEnds, ErrorInv
  <1>7. CASE UNCHANGED vars
    BY <1>7 DEF vars, ErrorInv
  <1>8. CASE SetTheme \/ SetFontSize \/ MediaChanges \/ ToggleMenu \/ ClickOutside
    BY <1>7, <1>8 DEF SetTheme, SetFontSize, MediaChanges, ToggleMenu, ClickOutside
  <1>9. CASE Navigate \/ EditUrl \/ HashChange
    BY <1>7, <1>9 DEF Navigate, EditUrl, HashChange, GoTo
  <1>10. CASE UNCHANGED allVars
    BY <1>7, <1>10 DEF allVars
  <1> QED BY <1>1, <1>2, <1>3, <1>4, <1>5, <1>6, <1>8, <1>9, <1>10 DEF ShellNext

-----------------------------------------------------------------------------
(* Settings, pages and what is drawn *)

LEMMA PagesAndSizes ==
    /\ \A h : HashToPage(h) \in Pages
    /\ \A s : ParsedSize(s) \in Sizes
    /\ \A s \in Sizes : ParsedSize(s) = s
    /\ \A t : \A prefers \in BOOLEAN : IsDark(t, prefers) \in BOOLEAN
  BY ShellAssumption DEF ShellAssumption, HashToPage, ParsedSize, IsDark

\* What the screen does to the menu and the diagram keeps them well typed.
LEMMA DrawnType ==
    ASSUME ShellTypeOK, dark' \in BOOLEAN,
           Render \/ UNCHANGED drawn
    PROVE  drawn' \in BOOLEAN \cup {NotDrawn}
  BY DEF ShellTypeOK, Render

\* The part of ShellInv that is about the settings and the page.
SettingsInv == ShellTypeOK /\ StoredInv /\ ThemeIsApplied /\ PageFollowsHash

LEMMA OpenSettings == ASSUME SettingsInv, TypeOK', Open PROVE SettingsInv'
  <1>1. /\ hash' = hash /\ hashChanged' = FALSE /\ page' = HashToPage(hash)
        /\ theme' = stored.theme /\ size' = ParsedSize(stored.size)
        /\ stored' = [theme |-> theme', size |-> size']
        /\ prefersDark' = prefersDark /\ dark' = IsDark(theme', prefersDark)
        /\ Render /\ menu' \in BOOLEAN
    BY DEF Open, MenuStays
  <1>2. /\ stored.theme \in Themes \cup {"unknown"} /\ prefersDark \in BOOLEAN
        /\ size' \in Sizes /\ ParsedSize(size') = size' /\ page' \in Pages
        /\ dark' \in BOOLEAN
    BY <1>1, PagesAndSizes DEF SettingsInv, ShellTypeOK
  <1>3. ShellTypeOK'
    BY <1>1, <1>2, DrawnType DEF SettingsInv, ShellTypeOK
  <1>4. StoredInv' /\ ThemeIsApplied' /\ PageFollowsHash'
    BY <1>1, <1>2 DEF StoredInv, ThemeIsApplied, PageFollowsHash, IsDark
  <1> QED BY <1>3, <1>4 DEF SettingsInv

\* The steps that leave hash, page and settings alone.
LEMMA OtherSettings ==
    ASSUME SettingsInv, TypeOK',
           UNCHANGED <<hash, hashChanged, page, theme, size, stored, prefersDark, dark>>,
           Render \/ UNCHANGED drawn, menu' \in BOOLEAN,
           disposed' = disposed \/ disposed'
    PROVE  SettingsInv'
  <1>1. dark' \in BOOLEAN
    BY DEF SettingsInv, ShellTypeOK
  <1>2. ShellTypeOK'
    BY <1>1, DrawnType DEF SettingsInv, ShellTypeOK
  <1>3. StoredInv'
    BY DEF SettingsInv, StoredInv
  <1>4. ThemeIsApplied' /\ PageFollowsHash'
    BY DEF SettingsInv, ThemeIsApplied, PageFollowsHash
  <1> QED BY <1>2, <1>3, <1>4 DEF SettingsInv

LEMMA SetThemeSettings == ASSUME SettingsInv, TypeOK', SetTheme PROVE SettingsInv'
  <1>1. PICK t \in Themes :
            /\ theme' = t
            /\ dark' = IsDark(t, prefersDark)
            /\ stored' = [stored EXCEPT !.theme = t]
            /\ UNCHANGED <<vars, hash, hashChanged, page, size, prefersDark, menu>>
            /\ RenderIf(t # theme)
    BY DEF SetTheme
  <1>2. dark' \in BOOLEAN /\ (Render \/ UNCHANGED drawn)
    BY <1>1, PagesAndSizes DEF RenderIf, SettingsInv, ShellTypeOK
  <1>3. /\ stored' \in [theme : Themes \cup {"unknown"}, size : Sizes \cup {0}]
        /\ stored'.theme = t /\ stored'.size = stored.size
    BY <1>1 DEF SettingsInv, ShellTypeOK
  <1>4. ShellTypeOK'
    BY <1>1, <1>2, <1>3, DrawnType DEF SettingsInv, ShellTypeOK
  <1>5. StoredInv'
    BY <1>1, <1>3 DEF SettingsInv, StoredInv
  <1>6. ThemeIsApplied' /\ PageFollowsHash'
    BY <1>1 DEF SettingsInv, ThemeIsApplied, PageFollowsHash, IsDark, vars
  <1> QED BY <1>4, <1>5, <1>6 DEF SettingsInv

LEMMA SetFontSizeSettings == ASSUME SettingsInv, TypeOK', SetFontSize PROVE SettingsInv'
  <1>1. PICK s \in Sizes :
            /\ size' = s
            /\ stored' = [stored EXCEPT !.size = s]
            /\ UNCHANGED <<vars, hash, hashChanged, page, theme, prefersDark, dark, menu>>
            /\ RenderIf(s # size)
    BY DEF SetFontSize, StoreSize
  <1>2. dark' \in BOOLEAN /\ (Render \/ UNCHANGED drawn)
    BY <1>1 DEF RenderIf, SettingsInv, ShellTypeOK
  <1>3. /\ stored' \in [theme : Themes \cup {"unknown"}, size : Sizes \cup {0}]
        /\ stored'.theme = stored.theme /\ stored'.size = s
    BY <1>1 DEF SettingsInv, ShellTypeOK
  <1>4. ShellTypeOK'
    BY <1>1, <1>2, <1>3, DrawnType DEF SettingsInv, ShellTypeOK
  <1>5. StoredInv'
    BY <1>1, <1>3, PagesAndSizes DEF SettingsInv, StoredInv
  <1>6. ThemeIsApplied' /\ PageFollowsHash'
    BY <1>1 DEF SettingsInv, ThemeIsApplied, PageFollowsHash, vars
  <1> QED BY <1>4, <1>5, <1>6 DEF SettingsInv

LEMMA MediaSettings == ASSUME SettingsInv, TypeOK', MediaChanges PROVE SettingsInv'
  <1>1. /\ prefersDark' = ~prefersDark
        /\ dark' = IF theme = "system" THEN prefersDark' ELSE dark
        /\ UNCHANGED <<vars, hash, hashChanged, page, theme, size, stored, menu, drawn>>
    BY DEF MediaChanges, OnMediaChange
  <1>2. ShellTypeOK'
    BY <1>1 DEF SettingsInv, ShellTypeOK
  <1>3. StoredInv' /\ PageFollowsHash'
    BY <1>1 DEF SettingsInv, StoredInv, PageFollowsHash, vars
  <1>4. ThemeIsApplied'
    BY <1>1 DEF SettingsInv, ThemeIsApplied, vars
  <1> QED BY <1>2, <1>3, <1>4 DEF SettingsInv

\* A hash that differs has its event to come; one that does not is the page's already.
LEMMA GoToSettings ==
    ASSUME SettingsInv, TypeOK', NEW h \in Hashes, GoTo(h), menu' \in BOOLEAN
    PROVE  SettingsInv'
  <1>1. /\ hash' = h /\ hashChanged' = (hashChanged \/ h # hash)
        /\ UNCHANGED <<vars, page, theme, size, stored, prefersDark, dark, drawn>>
    BY DEF GoTo
  <1>2. ShellTypeOK'
    BY <1>1 DEF SettingsInv, ShellTypeOK
  <1>3. StoredInv' /\ ThemeIsApplied'
    BY <1>1 DEF SettingsInv, StoredInv, ThemeIsApplied, vars
  <1>4. PageFollowsHash'
    BY <1>1 DEF SettingsInv, PageFollowsHash, vars
  <1> QED BY <1>2, <1>3, <1>4 DEF SettingsInv

LEMMA HashChangeSettings == ASSUME SettingsInv, TypeOK', HashChange PROVE SettingsInv'
  <1>1. /\ hashChanged' = FALSE /\ page' = HashToPage(hash)
        /\ UNCHANGED <<vars, hash, theme, size, stored, prefersDark, dark, menu>>
        /\ RenderIf(page' # page)
    BY DEF HashChange, FollowHash
  <1>2. dark' \in BOOLEAN /\ (Render \/ UNCHANGED drawn) /\ page' \in Pages
    BY <1>1, PagesAndSizes DEF RenderIf, SettingsInv, ShellTypeOK
  <1>3. ShellTypeOK'
    BY <1>1, <1>2, DrawnType DEF SettingsInv, ShellTypeOK
  <1>4. StoredInv' /\ ThemeIsApplied' /\ PageFollowsHash'
    BY <1>1 DEF SettingsInv, StoredInv, ThemeIsApplied, PageFollowsHash, vars
  <1> QED BY <1>3, <1>4 DEF SettingsInv

LEMMA SettingsStep ==
    ASSUME SettingsInv, TypeOK', [ShellNext]_allVars PROVE SettingsInv'
  <1>1. menu \in BOOLEAN
    BY DEF SettingsInv, ShellTypeOK
  <1>2. CASE Open
    BY <1>2, OpenSettings
  <1>3. CASE Close
    BY <1>3, OtherSettings DEF Close, Unmount, MenuStays
  <1>4. CASE SetTheme
    BY <1>4, SetThemeSettings
  <1>5. CASE SetFontSize
    BY <1>5, SetFontSizeSettings
  <1>6. CASE MediaChanges
    BY <1>6, MediaSettings
  <1>7. CASE ToggleMenu \/ ClickOutside
    BY <1>1, <1>7, OtherSettings DEF ToggleMenu, ClickOutside, vars
  <1>8. CASE Navigate
    BY <1>8, GoToSettings DEF Navigate, Hashes
  <1>9. CASE EditUrl
    BY <1>1, <1>9, GoToSettings DEF EditUrl
  <1>10. CASE HashChange
    BY <1>10, HashChangeSettings
  <1>11. CASE PollAgain
    BY <1>11, OtherSettings DEF PollAgain, Poll, Polled, MenuStays
  <1>12. CASE RetryConnection
    BY <1>12, OtherSettings DEF RetryConnection, Retry
  <1>13. CASE Unseen
    BY <1>1, <1>13, OtherSettings DEF Unseen, shellVars, ServerChanges, OutageStartsOrEnds
  <1>14. ASSUME NEW r \in Reads, Settle(r) PROVE SettingsInv'
    BY <1>14, OtherSettings DEF Settle, Polled, MenuStays, RenderIf, Resolve, Reject
  <1>15. ASSUME NEW r \in Reads, Answered(r) PROVE SettingsInv'
    BY <1>1, <1>15, OtherSettings DEF Answered, shellVars, Serve
  <1>16. CASE UNCHANGED allVars
    BY <1>1, <1>16, OtherSettings DEF allVars, vars, shellVars
  <1> QED BY <1>2, <1>3, <1>4, <1>5, <1>6, <1>7, <1>8, <1>9, <1>10, <1>11, <1>12, <1>13,
             <1>14, <1>15, <1>16 DEF ShellNext

-----------------------------------------------------------------------------
(* The invariant and what follows from it *)

LEMMA ShellInitHolds == ShellInit => ShellInv
  <1> SUFFICES ASSUME ShellInit PROVE ShellInv
    OBVIOUS
  <1>1. IInv
    BY InitHolds DEF ShellInit
  <1>2. ShellTypeOK
    BY <1>1, PagesAndSizes DEF ShellInit, ShellTypeOK, IInv
  <1>3. ErrorInv /\ StoredInv /\ ThemeIsApplied /\ PageFollowsHash
    BY DEF ShellInit, Init, ErrorInv, StoredInv, ThemeIsApplied, PageFollowsHash
  <1> QED BY <1>1, <1>2, <1>3 DEF ShellInv

LEMMA ShellStepHolds == ShellInv /\ [ShellNext]_allVars => ShellInv'
  <1> SUFFICES ASSUME ShellInv, [ShellNext]_allVars PROVE ShellInv'
    OBVIOUS
  <1>1. IInv'
    BY StepIsPolling, NextHolds DEF ShellInv
  <1>2. ErrorInv'
    BY ErrorStep DEF ShellInv
  <1>3. SettingsInv'
    BY <1>1, SettingsStep DEF ShellInv, SettingsInv, IInv
  <1> QED BY <1>1, <1>2, <1>3 DEF ShellInv, SettingsInv

\* A loading screen has a read, a page of errors an error.
LEMMA NoDeadEndFollows == ASSUME ShellInv PROVE NoDeadEnd
  <1>1. ~disposed => (view.isLoading => inFlight /\ view.data = None)
    BY DEF ShellInv, IInv, BusyIffReading
  <1>2. Screen = "loading" => inFlight
    BY <1>1 DEF Screen, ScreenOf
  <1>3. Screen = "unavailable" => view.error /\ outcome = "failed"
    BY DEF Screen, ScreenOf, ShellInv, ErrorInv
  <1>4. Screen = "content" => (Banner <=> outcome = "failed")
    BY DEF Screen, ScreenOf, Banner, ShellInv, ErrorInv
  <1> QED BY <1>2, <1>3, <1>4 DEF NoDeadEnd

\* Data does not go and does not come back to loading; a reload loads what was stored.
LEMMA NothingLostStep ==
    ShellInv /\ [ShellNext]_allVars => [ContentStays /\ SettingsSurvive]_allVars
  <1> SUFFICES ASSUME ShellInv, ShellNext PROVE ContentStays /\ SettingsSurvive
    OBVIOUS
  <1>1. ShellInv' /\ IInv /\ [Next]_vars
    BY ShellStepHolds, StepIsPolling DEF ShellInv
  <1>2. ContentStays
    <2> SUFFICES ASSUME Screen = "content", ~disposed' PROVE Screen' = "content"
      BY DEF ContentStays
    <2>1. ~disposed /\ view.data # None
      BY DEF Screen, ScreenOf
    <2>2. view'.data # None
      BY <1>1, <2>1, NextHolds DEF DataNeverGoesBack, vars
    <2>3. ~view'.isLoading
      BY <1>1, <2>2 DEF ShellInv, IInv, BusyIffReading
    <2> QED BY <2>2, <2>3 DEF Screen, ScreenOf
  <1>3. SettingsSurvive
    <2>1. CASE Open
      BY <2>1 DEF Open, ShellInv, StoredInv, SettingsSurvive
    <2>2. CASE Close
      BY <2>2 DEF Close, SettingsSurvive
    <2>3. CASE ~Open /\ ~Close
      BY <2>3, MountedStays DEF SettingsSurvive
    <2> QED BY <2>1, <2>2, <2>3
  <1> QED BY <1>2, <1>3

-----------------------------------------------------------------------------

\* The shell drives the polled resource as its own proofs assume (hooks.ts:6-37,
\* App.tsx:45-80).
THEOREM UsesPolling == ShellSpec => Spec
  <1>1. ShellInit => Init
    BY DEF ShellInit
  <1> QED BY <1>1, StepIsPolling, PTL DEF ShellSpec, Spec

THEOREM ShellInvariance == ShellSpec => []ShellInv
  BY ShellInitHolds, ShellStepHolds, PTL DEF ShellSpec

\* Document and page are those that settings and URL ask for, however themes, the
\* system's preference, edits of the URL and reloads follow one another.
THEOREM ShellStaysInSync == ShellSpec => []ShellInSync
  <1>1. ShellInv => ShellInSync
    BY DEF ShellInv, ShellInSync
  <1> QED BY <1>1, ShellInvariance, PTL

\* No screen is a dead end, and the banner tells how the last read ended.
THEOREM NoScreenIsADeadEnd == ShellSpec => []NoDeadEnd
  <1>1. ShellInv => NoDeadEnd
    BY NoDeadEndFollows
  <1> QED BY <1>1, ShellInvariance, PTL

\* Neither routes that are shown nor settings that were made are lost.
THEOREM NothingGetsLost == ShellSpec => NothingIsLost
  BY NothingLostStep, ShellInvariance, PTL DEF ShellSpec, NothingIsLost

-----------------------------------------------------------------------------
(* The readiness table *)

LEMMA StepIsPollingOfTable == [ReadinessNext]_tableVars => [Next]_vars
  <1> SUFFICES ASSUME [ReadinessNext]_tableVars PROVE [Next]_vars
    OBVIOUS
  <1>1. CASE PollSnapshot \/ OtherPollingStep
    BY <1>1 DEF PollSnapshot, OtherPollingStep, Next
  <1>2. ASSUME NEW r \in Reads, SnapshotSettles(r) PROVE [Next]_vars
    BY <1>2 DEF SnapshotSettles, Receive, ReadStep, Next
  <1>3. CASE ReadClock \/ TimePasses \/ UNCHANGED tableVars
    BY <1>3 DEF ReadClock, TimePasses, tableVars
  <1> QED BY <1>1, <1>2, <1>3 DEF ReadinessNext

\* The two times stay in their bounds.
TimesOK == sinceReceived \in 0 .. MaxAge /\ sinceTick \in 0 .. TickLag

LEMMA TimesStep == ASSUME TimesOK, [ReadinessNext]_tableVars PROVE TimesOK'
  <1> USE ReadinessAssumption DEF TimesOK
  <1>1. CASE PollSnapshot \/ OtherPollingStep
    BY <1>1 DEF PollSnapshot, OtherPollingStep
  <1>2. ASSUME NEW r \in Reads, SnapshotSettles(r) PROVE TimesOK'
    BY <1>2 DEF SnapshotSettles, Receive
  <1>3. CASE ReadClock
    BY <1>3 DEF ReadClock
  <1>4. CASE TimePasses
    BY <1>4 DEF TimePasses
  <1>5. CASE UNCHANGED tableVars
    BY <1>5 DEF tableVars
  <1> QED BY <1>1, <1>2, <1>3, <1>4, <1>5 DEF ReadinessNext

\* What is displayed is the health of the backend in some version.
LEMMA SnapshotType ==
    ASSUME TypeOK, Displayed
    PROVE  /\ Snapshot[view.data].running \in BOOLEAN
           /\ Snapshot[view.data].age = NotChecked \/ Snapshot[view.data].age \in Nat
  <1>1. view.data \in Versions
    BY DEF TypeOK, View, Displayed
  <1> QED BY <1>1, ReadinessAssumption

\* The clock of the table lags by a tick at most.
LEMMA ElapsedIsClose ==
    ASSUME TimesOK
    PROVE  /\ Elapsed \in Nat
           /\ Elapsed <= sinceReceived /\ sinceReceived <= Elapsed + TickLag
BY ReadinessAssumption DEF TimesOK, Elapsed, AtLeastZero

LEMMA AgesFollow == ASSUME TypeOK, TimesOK PROVE AgesAreHonest
  <1> USE ReadinessAssumption DEF TimesOK
  <1>1. PlainLabelIsRecent
    <2> SUFFICES ASSUME Displayed, Label(Snapshot[view.data]).state # "unknown",
                        ~Label(Snapshot[view.data]).lastKnown
                 PROVE  Snapshot[view.data].running /\ sinceReceived <= StaleAfter + TickLag
      BY DEF PlainLabelIsRecent
    <2>1. Snapshot[view.data].running /\ ~Stale
      BY SnapshotType DEF Label
    <2> QED BY <2>1, ElapsedIsClose DEF Stale
  <1>2. AgeIsHonest
    <2>1. /\ Elapsed \in Nat /\ sinceReceived \in Nat /\ TickLag \in Nat /\ Day \in Nat
          /\ Elapsed <= sinceReceived /\ sinceReceived <= Elapsed + TickLag
      BY ElapsedIsClose
    <2>2. \A age, e, s, lag \in Nat : e <= s /\ s <= e + lag =>
              /\ AtMostDay(age + e) <= age + s
              /\ AtMostDay(age + e) >= AtMostDay((age + s) - lag)
      BY <2>1 DEF AtMostDay
    <2>3. ASSUME Displayed, Snapshot[view.data].age # NotChecked
          PROVE  /\ Snapshot[view.data].age \in Nat
                 /\ ShownAge(Snapshot[view.data]) = AtMostDay(Snapshot[view.data].age + Elapsed)
      BY <2>3, SnapshotType DEF ShownAge
    <2> QED BY <2>1, <2>2, <2>3 DEF AgeIsHonest
  <1> QED BY <1>1, <1>2 DEF AgesAreHonest, ReadinessTypeOK

\* The readiness table drives the polled resource as its own proofs assume
\* (BackendReadiness.tsx:9-16, hooks.ts:40-42).
THEOREM TableUsesPolling == ReadinessSpec => Spec
  <1>1. ReadinessInit => Init
    BY DEF ReadinessInit
  <1> QED BY <1>1, StepIsPollingOfTable, PTL DEF ReadinessSpec, Spec

\* No observation is passed off as newer than it is, whatever polls, outages, remounts
\* and the ticks of the table's own clock do to each other.
THEOREM AgesStayHonest == ReadinessSpec => []AgesAreHonest
  <1>1. ReadinessInit => TimesOK
    BY ReadinessAssumption DEF ReadinessInit, TimesOK
  <1>2. TimesOK /\ [ReadinessNext]_tableVars => TimesOK'
    BY TimesStep
  <1>3. ReadinessSpec => []TimesOK
    BY <1>1, <1>2, PTL DEF ReadinessSpec
  <1>4. TimesOK /\ IInv => AgesAreHonest
    BY AgesFollow DEF IInv
  <1> QED BY <1>3, <1>4, TableUsesPolling, Invariance, PTL

-----------------------------------------------------------------------------
(* The books *)

Counters == [total: Nat, errors: Nat]

\* Nothing of the dashboard's is about to be recorded.
HeldInv == \A w \in Workers : held[w] # Nothing => held[w].kind.host # DashboardHost

Parts == Nat \cup [Hosts -> Nat] \cup [Edges -> Nat]

\* What the parts of an unfinished report know, the counters know too.
ReportInv ==
    /\ report \in Seq(Parts)
    /\ Len(report) <= 3
    /\ Len(report) >= 1 => report[1] \in Nat
    /\ Len(report) >= 2 => report[2] \in [Hosts -> Nat]
    /\ Len(report) = 3 => report[3] \in [Edges -> Nat]
    /\ Len(report) = 1 => report[1] <= SumOfTotals(hostStats)
    /\ Len(report) = 2 => /\ report[1] <= Total(report[2], Hosts)
                          /\ \A h \in Hosts : report[2][h] <= hostStats[h].total

StatsInv ==
    /\ StatsTypeOK
    /\ buffer \in Seq(Records)
    /\ hostStats \in [Hosts -> Counters]
    /\ edgeStats \in [Edges -> Counters]
    /\ handed \in [Edges -> Counters]
    /\ HeldInv /\ NoRecordIsLost /\ BooksBalance
    /\ ReportInv /\ ReportIsCovered

LEMMA FiniteKeys == IsFiniteSet(Hosts) /\ IsFiniteSet(Edges)
  <1> DEFINE host == [kind \in Kinds |-> kind.host]
             edge == [kind \in Kinds |-> EdgeOf(kind)]
  <1>1. IsFiniteSet({host[kind] : kind \in Kinds}) /\ IsFiniteSet({edge[kind] : kind \in Kinds})
    <2> HIDE DEF host, edge
    <2> QED BY ImageIsFinite, StatsAssumption
  <1>2. {host[kind] : kind \in Kinds} = Hosts /\ {edge[kind] : kind \in Kinds} = Edges
    BY DEF Hosts, Edges
  <1> QED BY <1>1, <1>2

LEMMA RecordType ==
    ASSUME NEW r \in Records
    PROVE  /\ r.at \in Nat /\ r.at <= MaxTime /\ r.kind \in Kinds
           /\ r.kind.failed \in BOOLEAN /\ r.kind.ms \in Nat
           /\ r.kind.host \in Hosts
           /\ EdgeOf(r.kind) \in Edges
           /\ r # Nothing
  <1>1. PICK t \in 0 .. MaxTime, kind \in Kinds : r = [at |-> t, kind |-> kind]
    BY DEF Records
  <1>2. r.at = t /\ r.kind = kind
    BY <1>1
  <1> QED BY <1>2, StatsAssumption DEF Hosts, Edges

LEMMA MinOfTwo ==
    ASSUME NEW m \in Nat, NEW n \in Nat PROVE Min({m, n}) = IF m <= n THEN m ELSE n
  <1>1. \E x \in {m, n} : \A y \in {m, n} : x <= y
    OBVIOUS
  <1>2. Min({m, n}) \in {m, n} /\ \A y \in {m, n} : Min({m, n}) <= y
    BY <1>1 DEF Min
  <1> QED BY <1>2

\* Counting one record of one key.
LEMMA CountOne ==
    ASSUME NEW K, IsFiniteSet(K), NEW s \in [K -> Counters], NEW k \in K,
           NEW kind, kind.failed \in BOOLEAN, NEW D \in SUBSET K,
           NEW t, DOMAIN t = K,
           \A a \in K : t[a] = IF a = k THEN Updated(s[a], kind) ELSE s[a]
    PROVE  /\ Total(Totals(s), D) \in Nat /\ Total(Errors(s), D) \in Nat
           /\ Total(Totals(t), D) =
                  IF k \in D THEN Total(Totals(s), D) + 1 ELSE Total(Totals(s), D)
           /\ Total(Errors(t), D) =
                  IF k \in D /\ kind.failed THEN Total(Errors(s), D) + 1
                  ELSE Total(Errors(s), D)
  <1>1. /\ Updated(s[k], kind) \in Counters
        /\ Updated(s[k], kind).total = s[k].total + 1
        /\ Updated(s[k], kind).errors = IF kind.failed THEN s[k].errors + 1 ELSE s[k].errors
    BY DEF Updated, Counters
  <1>3. IsFiniteSet(D)
    BY FS_Subset
  <1>4. \A a \in D : Totals(s)[a] \in Nat /\ Errors(s)[a] \in Nat
    BY DEF Totals, Errors, Counters
  <1>5. /\ \A a \in D : Totals(t)[a] = IF a = k THEN Totals(s)[a] + 1 ELSE Totals(s)[a]
        /\ \A a \in D : Errors(t)[a] = IF a = k /\ kind.failed THEN Errors(s)[a] + 1
                                       ELSE Errors(s)[a]
    BY <1>1 DEF Totals, Errors
  <1>6. Total(Totals(s), D) \in Nat /\ Total(Errors(s), D) \in Nat
    BY <1>3, <1>4, UnitsAreFinite
  <1>7. Total(Totals(t), D) = IF k \in D THEN Total(Totals(s), D) + 1 ELSE Total(Totals(s), D)
    <2>1. CASE k \in D
      BY <1>3, <1>4, <1>5, <2>1, TotalGrows
    <2>2. CASE k \notin D
      BY <1>5, <2>2, TotalSame
    <2> QED BY <2>1, <2>2
  <1>8. Total(Errors(t), D) = IF k \in D /\ kind.failed THEN Total(Errors(s), D) + 1
                              ELSE Total(Errors(s), D)
    <2>1. CASE k \in D /\ kind.failed
      <3>1. \A a \in D : Errors(t)[a] = IF a = k THEN Errors(s)[a] + 1 ELSE Errors(s)[a]
        BY <1>5, <2>1
      <3> QED BY <1>3, <1>4, <2>1, <3>1, TotalGrows
    <2>2. CASE ~(k \in D /\ kind.failed)
      <3>1. \A a \in D : Errors(t)[a] = Errors(s)[a]
        BY <1>5, <2>2
      <3> QED BY <2>2, <3>1, TotalSame
    <2> QED BY <2>1, <2>2
  <1> QED BY <1>6, <1>7, <1>8

\* What Record keeps.
LEMMA TrimmedKeeps ==
    ASSUME NEW list \in Seq(Records), Len(list) <= BufferSize, NEW r \in Records
    PROVE  LET kept == Trimmed(Append(list, r))
           IN  /\ kept \in Seq(Records)
               /\ Len(kept) = IF Len(list) < BufferSize THEN Len(list) + 1 ELSE BufferSize
  <1>1. Append(list, r) \in Seq(Records) /\ Len(Append(list, r)) = Len(list) + 1 /\ Len(list) \in Nat
    OBVIOUS
  <1>2. Append(list, r) # <<>>
    BY <1>1
  <1>3. /\ Tail(Append(list, r)) \in Seq(Records)
        /\ Len(Tail(Append(list, r))) = Len(list)
    BY <1>1, <1>2
  <1> QED BY <1>1, <1>3, StatsAssumption DEF Trimmed

LEMMA WaitingAreFinite ==
    ASSUME NEW e
    PROVE  /\ IsFiniteSet(Unrecorded(e)) /\ Cardinality(Unrecorded(e)) \in Nat
           /\ IsFiniteSet(UnrecordedErrors(e)) /\ Cardinality(UnrecordedErrors(e)) \in Nat
  <1>1. Unrecorded(e) \in SUBSET Workers /\ UnrecordedErrors(e) \in SUBSET Workers
    BY DEF Unrecorded, UnrecordedErrors
  <1>2. IsFiniteSet(Unrecorded(e)) /\ IsFiniteSet(UnrecordedErrors(e))
    BY <1>1, StatsAssumption, FS_Subset
  <1> QED BY <1>2, FS_CardinalityType

\* A record that is counted waits no longer.
LEMMA CountedOnce ==
    ASSUME StatsInv, NEW w \in Workers, Record(w)
    PROVE  NoRecordIsLost'
  <1> DEFINE kind == held[w].kind
             edge == EdgeOf(kind)
  <1>1. /\ held \in [Workers -> Records \cup {Nothing}]
        /\ held[w] \in Records
        /\ edgeStats \in [Edges -> Counters]
        /\ NoRecordIsLost
    BY DEF StatsInv, StatsTypeOK, Record
  <1>2. kind.failed \in BOOLEAN /\ edge \in Edges
    BY <1>1, RecordType
  <1>3. /\ held[w] # Nothing
        /\ held' = [held EXCEPT ![w] = Nothing]
        /\ handed' = handed
        /\ edgeStats' = [edgeStats EXCEPT ![edge] = Updated(@, kind)]
    BY DEF Record, CountRecord
  <1>4. SUFFICES ASSUME NEW e \in Edges
                 PROVE  /\ handed'[e].total = edgeStats'[e].total + Cardinality(Unrecorded(e)')
                        /\ handed'[e].errors =
                               edgeStats'[e].errors + Cardinality(UnrecordedErrors(e)')
    BY DEF NoRecordIsLost
  <1>5. /\ handed[e].total = edgeStats[e].total + Cardinality(Unrecorded(e))
        /\ handed[e].errors = edgeStats[e].errors + Cardinality(UnrecordedErrors(e))
    BY <1>1 DEF NoRecordIsLost
  <1>6. \A v \in Workers : held'[v] = IF v = w THEN Nothing ELSE held[v]
    BY <1>1, <1>3
  <1>7. CASE e = edge
    <2>1. Unrecorded(e)' = Unrecorded(e) \ {w} /\ w \in Unrecorded(e)
      BY <1>3, <1>6, <1>7 DEF Unrecorded
    <2>2. Cardinality(Unrecorded(e)') = Cardinality(Unrecorded(e)) - 1
      BY <2>1, WaitingAreFinite, FS_RemoveElement
    <2>3. Cardinality(UnrecordedErrors(e)') =
              Cardinality(UnrecordedErrors(e)) - IF kind.failed THEN 1 ELSE 0
      <3>1. CASE kind.failed
        <4>1. UnrecordedErrors(e)' = UnrecordedErrors(e) \ {w} /\ w \in UnrecordedErrors(e)
          BY <1>3, <1>6, <2>1, <3>1 DEF UnrecordedErrors, Unrecorded
        <4> QED BY <3>1, <4>1, WaitingAreFinite, FS_RemoveElement
      <3>2. CASE ~kind.failed
        <4>1. UnrecordedErrors(e)' = UnrecordedErrors(e)
          BY <1>3, <1>6, <2>1, <3>2 DEF UnrecordedErrors, Unrecorded
        <4> QED BY <3>2, <4>1, WaitingAreFinite
      <3> QED BY <3>1, <3>2
    <2>4. /\ edgeStats'[e].total = edgeStats[e].total + 1
          /\ edgeStats'[e].errors = edgeStats[e].errors + IF kind.failed THEN 1 ELSE 0
      <3>1. edgeStats'[e] = Updated(edgeStats[e], kind)
        BY <1>1, <1>3, <1>7
      <3> QED BY <3>1 DEF Updated
    <2>5. edgeStats[e].total \in Nat /\ edgeStats[e].errors \in Nat
      BY <1>1 DEF Counters
    <2>6. handed'[e] = handed[e]
      BY <1>3
    <2>7. Cardinality(Unrecorded(e)) \in Nat /\ Cardinality(UnrecordedErrors(e)) \in Nat
      BY WaitingAreFinite
    <2> HIDE DEF kind, edge
    <2>8. CASE kind.failed
      BY <1>5, <2>2, <2>3, <2>4, <2>5, <2>6, <2>7, <2>8
    <2>9. CASE ~kind.failed
      BY <1>5, <2>2, <2>3, <2>4, <2>5, <2>6, <2>7, <2>9
    <2> QED BY <2>8, <2>9
  <1>8. CASE e # edge
    <2>1. Unrecorded(e)' = Unrecorded(e)
      BY <1>3, <1>6, <1>8 DEF Unrecorded
    <2>2. UnrecordedErrors(e)' = UnrecordedErrors(e)
      BY <1>3, <1>6, <1>8, <2>1 DEF UnrecordedErrors, Unrecorded
    <2>3. edgeStats'[e] = edgeStats[e]
      BY <1>1, <1>3, <1>8
    <2> QED BY <1>3, <1>5, <2>1, <2>2, <2>3
  <1> QED BY <1>7, <1>8

LEMMA RecordStep == ASSUME StatsInv, NEW w \in Workers, Record(w) PROVE StatsInv'
  <1> DEFINE r == held[w]
             kind == held[w].kind
             edge == EdgeOf(kind)
  <1>1. r \in Records /\ r # Nothing
    BY DEF StatsInv, StatsTypeOK, Record
  <1>2. /\ kind \in Kinds /\ kind.failed \in BOOLEAN /\ kind.host \in Hosts /\ edge \in Edges
        /\ kind.host # DashboardHost
    BY <1>1, RecordType DEF StatsInv, HeldInv
  <1>3. /\ held' = [held EXCEPT ![w] = Nothing]
        /\ buffer' = Trimmed(Append(buffer, r))
        /\ hostStats' = [hostStats EXCEPT ![kind.host] = Updated(@, kind)]
        /\ edgeStats' = [edgeStats EXCEPT ![edge] = Updated(@, kind)]
        /\ UNCHANGED <<clock, responded, handed, report>>
    BY DEF Record, CountRecord
  <1>4. /\ hostStats \in [Hosts -> Counters] /\ edgeStats \in [Edges -> Counters]
        /\ buffer \in Seq(Records) /\ Len(buffer) <= BufferSize /\ BooksBalance
    BY DEF StatsInv, StatsTypeOK
  <1> HIDE DEF r, kind, edge
  <1>h. /\ hostStats' \in [Hosts -> Counters] /\ DOMAIN hostStats' = Hosts
            /\ \A h \in Hosts : hostStats'[h] = IF h = kind.host THEN Updated(hostStats[h], kind)
                                                ELSE hostStats[h]
    BY <1>2, <1>3, <1>4 DEF Updated, Counters
  <1>e. /\ edgeStats' \in [Edges -> Counters] /\ DOMAIN edgeStats' = Edges
            /\ \A e \in Edges : edgeStats'[e] = IF e = edge THEN Updated(edgeStats[e], kind)
                                                ELSE edgeStats[e]
    BY <1>2, <1>3, <1>4 DEF Updated, Counters
  <1>5. /\ hostStats' \in [Hosts -> Counters]
        /\ SumOfTotals(hostStats) \in Nat
        /\ SumOfTotals(hostStats)' = SumOfTotals(hostStats) + 1
    <2>1. DOMAIN hostStats = Hosts /\ DOMAIN hostStats' = Hosts
      BY <1>4, <1>h
    <2>2. /\ Total(Totals(hostStats), Hosts) \in Nat
          /\ Total(Totals(hostStats'), Hosts) = Total(Totals(hostStats), Hosts) + 1
      <3>1. IsFiniteSet(Hosts) /\ Hosts \in SUBSET Hosts
        BY FiniteKeys
      <3> QED BY <1>2, <1>4, <1>h, <3>1, CountOne
    <2> QED BY <1>h, <2>1, <2>2 DEF SumOfTotals
  <1>6. ASSUME NEW h \in Hosts
        PROVE  /\ hostStats'[h].total = Total(Totals(edgeStats'), OfHost(h))
               /\ hostStats'[h].errors = Total(Errors(edgeStats'), OfHost(h))
    <2>1. OfHost(h) \in SUBSET Edges /\ (edge \in OfHost(h) <=> h = kind.host)
      BY <1>2 DEF OfHost, EdgeOf, edge
    <2>2. /\ Total(Totals(edgeStats'), OfHost(h)) =
                 IF h = kind.host THEN Total(Totals(edgeStats), OfHost(h)) + 1
                 ELSE Total(Totals(edgeStats), OfHost(h))
          /\ Total(Errors(edgeStats'), OfHost(h)) =
                 IF h = kind.host /\ kind.failed THEN Total(Errors(edgeStats), OfHost(h)) + 1
                 ELSE Total(Errors(edgeStats), OfHost(h))
      <3>1. IsFiniteSet(Edges)
        BY FiniteKeys
      <3> QED BY <1>2, <1>4, <1>e, <2>1, <3>1, CountOne
    <2>3. /\ hostStats[h].total = Total(Totals(edgeStats), OfHost(h))
          /\ hostStats[h].errors = Total(Errors(edgeStats), OfHost(h))
      BY <1>4 DEF BooksBalance
    <2>4. hostStats[h] \in Counters
      BY <1>4
    <2>5. /\ hostStats'[h].total = IF h = kind.host THEN hostStats[h].total + 1
                                   ELSE hostStats[h].total
          /\ hostStats'[h].errors = IF h = kind.host /\ kind.failed THEN hostStats[h].errors + 1
                                    ELSE hostStats[h].errors
      BY <1>2, <1>3, <1>4, <2>4 DEF Updated, Counters
    <2> QED BY <2>2, <2>3, <2>5
  <1>7. edgeStats' \in [Edges -> Counters]
    BY <1>e
  <1>8. /\ buffer' \in Seq(Records)
        /\ Len(buffer') = Min({BufferSize, SumOfTotals(hostStats)'})
        /\ Len(buffer') <= BufferSize
    <2>1. Len(buffer) = Min({BufferSize, SumOfTotals(hostStats)})
      BY <1>4 DEF BooksBalance
    <2>2. /\ buffer' \in Seq(Records)
          /\ Len(buffer') = IF Len(buffer) < BufferSize THEN Len(buffer) + 1 ELSE BufferSize
      BY <1>1, <1>3, <1>4, TrimmedKeeps
    <2>3. BufferSize \in Nat
      BY StatsAssumption
    <2>4. Len(buffer) = IF BufferSize <= SumOfTotals(hostStats) THEN BufferSize
                        ELSE SumOfTotals(hostStats)
      BY <1>5, <2>1, <2>3, MinOfTwo
    <2>5. Min({BufferSize, SumOfTotals(hostStats)'}) =
              IF BufferSize <= SumOfTotals(hostStats)' THEN BufferSize
              ELSE SumOfTotals(hostStats)'
      BY <1>5, <2>3, MinOfTwo
    <2> QED BY <1>5, <2>2, <2>3, <2>4, <2>5
  <1>9. DashboardHost \in Hosts => hostStats'[DashboardHost] = Zero
    BY <1>2, <1>3, <1>4 DEF BooksBalance
  <1>10. BooksBalance'
    BY <1>6, <1>8, <1>9 DEF BooksBalance, OfHost
  <1>11. HeldInv' /\ held' \in [Workers -> Records \cup {Nothing}]
    BY <1>3 DEF StatsInv, StatsTypeOK, HeldInv
  <1>12. StatsTypeOK'
    <2>1. \A i \in DOMAIN buffer' : buffer'[i] \in Records
      BY <1>8
    <2> QED BY <1>3, <1>8, <1>11, <2>1 DEF StatsInv, StatsTypeOK
  <1>13. ReportInv' /\ ReportIsCovered'
    <2>1. \A h \in Hosts : hostStats[h].total <= hostStats'[h].total /\ hostStats[h].total \in Nat
                           /\ hostStats'[h].total \in Nat
      BY <1>2, <1>3, <1>4 DEF Updated, Counters
    <2>2. ReportInv
      BY DEF StatsInv
    <2>3. ReportInv'
      BY <1>3, <1>5, <2>1, <2>2 DEF ReportInv
    <2> QED BY <1>3, <2>3 DEF StatsInv, ReportIsCovered, OfHost
  <1>14. NoRecordIsLost' /\ handed' \in [Edges -> Counters]
    BY <1>3, CountedOnce DEF StatsInv
  <1> QED BY <1>5, <1>7, <1>8, <1>10, <1>11, <1>12, <1>13, <1>14 DEF StatsInv

\* A report that is made while requests are recorded.
LEMMA ReportStep == ASSUME StatsInv, HandleStats PROVE StatsInv'
  <1>1. /\ UNCHANGED <<clock, handlerVars, buffer, hostStats, edgeStats>>
        /\ hostStats \in [Hosts -> Counters] /\ edgeStats \in [Edges -> Counters]
        /\ ReportInv
    BY DEF HandleStats, StatsInv
  <1>2. /\ Totals(hostStats) \in [Hosts -> Nat] /\ Totals(edgeStats) \in [Edges -> Nat]
        /\ \A h \in Hosts : Totals(hostStats)[h] = hostStats[h].total
    BY <1>1 DEF Totals, Counters
  <1>3. SumOfTotals(hostStats) = Total(Totals(hostStats), Hosts) /\ SumOfTotals(hostStats) \in Nat
    BY <1>1, <1>2, FiniteKeys, UnitsAreFinite DEF SumOfTotals
  <1>part. /\ SumOfTotals(hostStats) \in Parts
           /\ Totals(hostStats) \in Parts /\ Totals(edgeStats) \in Parts
    BY <1>2, <1>3 DEF Parts
  <1>4. ReportInv' /\ ReportIsCovered'
    <2>1. CASE report = <<>> /\ report' = <<SumOfTotals(hostStats)>>
      BY <1>1, <1>3, <1>part, <2>1 DEF ReportInv, ReportIsCovered
    <2>2. CASE Len(report) = 1 /\ report' = Append(report, Totals(hostStats))
      <3>1. /\ Len(report') = 2 /\ report'[1] = report[1] /\ report'[2] = Totals(hostStats)
            /\ report' \in Seq(Parts)
        <4>1. report \in Seq(Parts)
          BY <1>1 DEF ReportInv
        <4> QED BY <1>part, <2>2, <4>1
      <3>2. report[1] \in Nat /\ report[1] <= Total(Totals(hostStats), Hosts)
        BY <1>1, <1>3, <2>2 DEF ReportInv
      <3>3. \A h \in Hosts : Totals(hostStats)[h] <= hostStats[h].total
        BY <1>1, <1>2 DEF Counters
      <3> QED BY <1>1, <1>2, <3>1, <3>2, <3>3 DEF ReportInv, ReportIsCovered
    <2>3. CASE Len(report) = 2 /\ report' = Append(report, Totals(edgeStats))
      <3>1. /\ Len(report') = 3 /\ report'[1] = report[1] /\ report'[2] = report[2]
            /\ report'[3] = Totals(edgeStats)
            /\ report' \in Seq(Parts)
        <4>1. report \in Seq(Parts)
          BY <1>1 DEF ReportInv
        <4>2. Totals(edgeStats) \in Parts
          BY <1>part
        <4> QED BY <2>3, <4>1, <4>2, SMTT(30)
      <3>2. /\ report[1] \in Nat /\ report[2] \in [Hosts -> Nat]
            /\ report[1] <= Total(report[2], Hosts)
            /\ \A h \in Hosts : report[2][h] <= hostStats[h].total
        BY <1>1, <2>3 DEF ReportInv
      <3>3. \A h \in Hosts : hostStats[h].total = Total(Totals(edgeStats), OfHost(h))
        BY DEF StatsInv, BooksBalance
      <3>4. ReportInv'
        BY <1>2, <3>1, <3>2 DEF ReportInv
      <3>5. ReportIsCovered'
        BY <3>1, <3>2, <3>3 DEF ReportIsCovered, OfHost
      <3> QED BY <3>4, <3>5
    <2> QED BY <2>1, <2>2, <2>3 DEF HandleStats, ReadPart
  <1>5. Len(report') <= 3
    BY <1>4 DEF ReportInv
  <1>6. HeldInv' /\ NoRecordIsLost'
    BY <1>1 DEF handlerVars, StatsInv, HeldInv, NoRecordIsLost, Unrecorded, UnrecordedErrors
  <1> QED BY <1>1, <1>4, <1>5, <1>6
          DEF handlerVars, StatsInv, StatsTypeOK, BooksBalance, SumOfTotals, OfHost

\* What leaves the counters alone.
LEMMA OtherStatsStep ==
    ASSUME StatsInv, UNCHANGED <<buffer, hostStats, edgeStats>>,
           clock' \in 0 .. MaxTime,
           responded' \in [Workers -> Kinds \cup {Nothing}],
           held' \in [Workers -> Records \cup {Nothing}], HeldInv',
           handed' \in [Edges -> Counters], NoRecordIsLost',
           report' = report \/ report' = <<>>
    PROVE  StatsInv'
  <1>1. BooksBalance'
    BY DEF StatsInv, BooksBalance, SumOfTotals, OfHost
  <1>2. ReportInv' /\ ReportIsCovered'
    <2>1. CASE report' = report
      BY <2>1 DEF StatsInv, ReportInv, ReportIsCovered, OfHost
    <2>2. CASE report' = <<>>
      BY <2>2 DEF ReportInv, ReportIsCovered
    <2> QED BY <2>1, <2>2
  <1>3. Len(report') <= 3
    BY <1>2 DEF ReportInv
  <1> QED BY <1>1, <1>2, <1>3 DEF StatsInv, StatsTypeOK

\* Neither the handler nor the counters move.
LEMMA StatsStay ==
    ASSUME StatsInv, UNCHANGED <<handlerVars, buffer, hostStats, edgeStats>>,
           clock' \in 0 .. MaxTime,
           report' = report \/ report' = <<>>
    PROVE  StatsInv'
  <1>1. /\ responded' = responded /\ held' = held /\ handed' = handed
        /\ edgeStats' = edgeStats
    BY DEF handlerVars
  <1>2. HeldInv'
    BY <1>1 DEF StatsInv, HeldInv
  <1>3. NoRecordIsLost'
    BY <1>1 DEF StatsInv, NoRecordIsLost, Unrecorded, UnrecordedErrors
  <1> QED BY <1>1, <1>2, <1>3, OtherStatsStep DEF StatsInv, StatsTypeOK

\* A record that is made waits for the lock.
LEMMA HandOverHolds ==
    ASSUME StatsInv, NEW w \in Workers, held[w] = Nothing,
           NEW kind \in Kinds, HandOver(w, kind),
           responded' \in [Workers -> Kinds \cup {Nothing}],
           UNCHANGED <<clock, buffer, hostStats, edgeStats, report>>
    PROVE  StatsInv'
  <1> DEFINE r == [at |-> clock, kind |-> kind]
             edge == EdgeOf(kind)
  <1>1. /\ held \in [Workers -> Records \cup {Nothing}] /\ HeldInv
        /\ handed \in [Edges -> Counters] /\ edgeStats \in [Edges -> Counters]
        /\ NoRecordIsLost /\ clock \in 0 .. MaxTime
    BY DEF StatsInv, StatsTypeOK
  <1>2. CASE kind.host = DashboardHost
    <2>1. held' = held /\ handed' = handed /\ edgeStats' = edgeStats
      BY <1>2 DEF HandOver
    <2>2. HeldInv'
      BY <1>1, <2>1 DEF HeldInv
    <2>3. NoRecordIsLost'
      BY <1>1, <2>1 DEF NoRecordIsLost, Unrecorded, UnrecordedErrors
    <2> QED BY <1>1, <2>1, <2>2, <2>3, OtherStatsStep
  <1>3. CASE kind.host # DashboardHost
    <2>1. /\ held' = [held EXCEPT ![w] = r]
          /\ handed' = [handed EXCEPT ![edge] = Updated(@, kind)]
          /\ edgeStats' = edgeStats
      BY <1>3 DEF HandOver
    <2>2. r \in Records /\ r # Nothing /\ r.kind = kind
      <3>1. r \in Records
        BY <1>1 DEF Records
      <3> QED BY <3>1, RecordType
    <2>3. edge \in Edges /\ kind.failed \in BOOLEAN
      BY StatsAssumption DEF Edges
    <2> HIDE DEF r, edge
    <2>4. /\ held' \in [Workers -> Records \cup {Nothing}]
          /\ \A v \in Workers : held'[v] = IF v = w THEN r ELSE held[v]
      BY <1>1, <2>1, <2>2
    <2>5. HeldInv'
      BY <1>1, <1>3, <2>2, <2>4 DEF HeldInv
    <2>6. /\ handed' \in [Edges -> Counters]
          /\ \A e \in Edges : handed'[e] = IF e = edge THEN Updated(handed[e], kind)
                                           ELSE handed[e]
      BY <1>1, <2>1, <2>3 DEF Updated, Counters
    <2>7. ASSUME NEW e \in Edges
          PROVE  /\ handed'[e].total = edgeStats'[e].total + Cardinality(Unrecorded(e)')
                 /\ handed'[e].errors =
                        edgeStats'[e].errors + Cardinality(UnrecordedErrors(e)')
      <3>1. /\ handed[e].total = edgeStats[e].total + Cardinality(Unrecorded(e))
            /\ handed[e].errors = edgeStats[e].errors + Cardinality(UnrecordedErrors(e))
        BY <1>1 DEF NoRecordIsLost
      <3>2. edgeStats[e].total \in Nat /\ edgeStats[e].errors \in Nat
        BY <1>1 DEF Counters
      <3>3. Cardinality(Unrecorded(e)) \in Nat /\ Cardinality(UnrecordedErrors(e)) \in Nat
        BY WaitingAreFinite
      <3>4. CASE e = edge
        <4>1. Unrecorded(e)' = Unrecorded(e) \cup {w} /\ w \notin Unrecorded(e)
          BY <2>2, <2>4, <3>4 DEF Unrecorded, edge
        <4>2. Cardinality(Unrecorded(e)') = Cardinality(Unrecorded(e)) + 1
          BY <4>1, WaitingAreFinite, FS_AddElement
        <4>3. /\ handed'[e].total = handed[e].total + 1
              /\ handed'[e].errors = handed[e].errors + IF kind.failed THEN 1 ELSE 0
          <5>1. handed'[e] = Updated(handed[e], kind)
            BY <2>6, <3>4
          <5> QED BY <5>1 DEF Updated
        <4>4. CASE kind.failed
          <5>1. /\ UnrecordedErrors(e)' = UnrecordedErrors(e) \cup {w}
                /\ w \notin UnrecordedErrors(e)
            BY <2>2, <2>4, <4>1, <4>4 DEF UnrecordedErrors, Unrecorded
          <5>2. Cardinality(UnrecordedErrors(e)') = Cardinality(UnrecordedErrors(e)) + 1
            BY <5>1, WaitingAreFinite, FS_AddElement
          <5> QED BY <2>1, <3>1, <3>2, <3>3, <4>2, <4>3, <4>4, <5>2
        <4>5. CASE ~kind.failed
          <5>1. UnrecordedErrors(e)' = UnrecordedErrors(e)
            BY <2>2, <2>4, <4>1, <4>5 DEF UnrecordedErrors, Unrecorded
          <5> QED BY <2>1, <3>1, <3>2, <3>3, <4>2, <4>3, <4>5, <5>1
        <4> QED BY <4>4, <4>5
      <3>5. CASE e # edge
        <4>1. Unrecorded(e)' = Unrecorded(e)
          BY <2>2, <2>4, <3>5 DEF Unrecorded, edge
        <4>2. UnrecordedErrors(e)' = UnrecordedErrors(e)
          BY <2>2, <2>4, <3>5, <4>1 DEF UnrecordedErrors, Unrecorded
        <4>3. handed'[e] = handed[e]
          BY <2>6, <3>5
        <4> QED BY <2>1, <3>1, <4>1, <4>2, <4>3
      <3> QED BY <3>4, <3>5
    <2>8. NoRecordIsLost'
      BY <2>7 DEF NoRecordIsLost
    <2> QED BY <1>1, <2>4, <2>5, <2>6, <2>8, OtherStatsStep
  <1> QED BY <1>2, <1>3

LEMMA HandlerHolds == ASSUME StatsInv, NEW w \in Workers, HandlerStep(w) PROVE StatsInv'
  <1>1. /\ held[w] = Nothing
        /\ UNCHANGED <<clock, buffer, hostStats, edgeStats, report>>
        /\ responded \in [Workers -> Kinds \cup {Nothing}]
        /\ Refused \subseteq Kinds /\ Forwarded \subseteq Kinds
    BY DEF HandlerStep, StatsInv, StatsTypeOK, Refused, Forwarded
  <1>2. CASE RefuseRequest(w)
    <2>1. PICK kind \in Refused : HandOver(w, kind)
      BY <1>2 DEF RefuseRequest
    <2>2. responded' \in [Workers -> Kinds \cup {Nothing}]
      BY <1>1, <1>2 DEF RefuseRequest
    <2> QED BY <1>1, <2>1, <2>2, HandOverHolds
  <1>3. CASE RejectTarget(w)
    <2>1. /\ held' = held /\ handed' = handed
          /\ responded' \in [Workers -> Kinds \cup {Nothing}]
      BY <1>1, <1>3 DEF RejectTarget
    <2>2. HeldInv' /\ NoRecordIsLost'
      BY <1>1, <2>1 DEF StatsInv, HeldInv, NoRecordIsLost, Unrecorded, UnrecordedErrors
    <2> QED BY <1>1, <2>1, <2>2, OtherStatsStep DEF StatsInv, StatsTypeOK
  <1>4. CASE ModifyResponse(w)
    <2>1. PICK kind \in Forwarded :
              /\ HandOver(w, kind)
              /\ responded' = [responded EXCEPT ![w] =
                                   IF kind.failed THEN Nothing ELSE kind]
      BY <1>4 DEF ModifyResponse
    <2>2. responded' \in [Workers -> Kinds \cup {Nothing}]
      BY <1>1, <2>1
    <2> QED BY <1>1, <2>1, <2>2, HandOverHolds
  <1>5. CASE UpstreamFails(w) \/ SwitchFails(w)
    <2>1. PICK kind \in Forwarded :
              HandOver(w, kind) /\ responded' = [responded EXCEPT ![w] = Nothing]
      BY <1>5 DEF UpstreamFails, SwitchFails
    <2>2. responded' \in [Workers -> Kinds \cup {Nothing}]
      BY <1>1, <2>1
    <2> QED BY <1>1, <2>1, <2>2, HandOverHolds
  <1> QED BY <1>2, <1>3, <1>4, <1>5 DEF HandlerStep

LEMMA StatsStepHolds == ASSUME StatsInv, StatsStep PROVE StatsInv'
  <1>1. CASE SendReport
    BY <1>1, StatsStay DEF SendReport, StatsInv, StatsTypeOK
  <1> QED BY <1>1, HandlerHolds, RecordStep, ReportStep DEF StatsStep

LEMMA StatsInitHolds == ASSUME StatsInit PROVE StatsInv
  <1> USE DEF StatsInit
  <1>1. /\ hostStats \in [Hosts -> Counters] /\ edgeStats \in [Edges -> Counters]
        /\ \A h \in Hosts : Totals(hostStats)[h] = 0
        /\ \A e \in Edges : Totals(edgeStats)[e] = 0 /\ Errors(edgeStats)[e] = 0
    BY DEF Zero, Counters, Totals, Errors
  <1>2. ASSUME NEW D, NEW f, \A a \in D : f[a] = 0 PROVE Total(f, D) = 0
    <2>1. Units(f, D) = {}
      BY <1>2 DEF Units
    <2> QED BY <2>1, FS_EmptySet DEF Total
  <1>3. SumOfTotals(hostStats) = 0
    <2>1. Total(Totals(hostStats), Hosts) = 0
      BY <1>1, <1>2
    <2> QED BY <2>1 DEF SumOfTotals
  <1>4. ASSUME NEW h \in Hosts
        PROVE  /\ hostStats[h].total = Total(Totals(edgeStats), OfHost(h))
               /\ hostStats[h].errors = Total(Errors(edgeStats), OfHost(h))
    <2>1. \A e \in OfHost(h) : Totals(edgeStats)[e] = 0 /\ Errors(edgeStats)[e] = 0
      BY <1>1 DEF OfHost
    <2>2. Total(Totals(edgeStats), OfHost(h)) = 0 /\ Total(Errors(edgeStats), OfHost(h)) = 0
      BY <1>2, <2>1
    <2> QED BY <2>2 DEF Zero
  <1>5. Len(buffer) = Min({BufferSize, SumOfTotals(hostStats)})
    BY <1>3, MinOfTwo, StatsAssumption
  <1>6. BooksBalance
    BY <1>4, <1>5 DEF BooksBalance
  <1>7. StatsTypeOK /\ HeldInv
    BY StatsAssumption DEF StatsTypeOK, HeldInv
  <1>9. NoRecordIsLost /\ handed \in [Edges -> Counters]
    <2>1. \A e \in Edges : Unrecorded(e) = {} /\ UnrecordedErrors(e) = {}
      BY DEF Unrecorded, UnrecordedErrors
    <2>2. \A e \in Edges : handed[e] = Zero /\ edgeStats[e] = Zero
      OBVIOUS
    <2>3. Cardinality({}) = 0
      BY FS_EmptySet
    <2>4. Zero.total = 0 /\ Zero.errors = 0
      BY DEF Zero
    <2>5. NoRecordIsLost
      <3> SUFFICES ASSUME NEW e \in Edges
                   PROVE  /\ handed[e].total = edgeStats[e].total + Cardinality(Unrecorded(e))
                          /\ handed[e].errors = edgeStats[e].errors
                                               + Cardinality(UnrecordedErrors(e))
        BY DEF NoRecordIsLost
      <3>1. Cardinality(Unrecorded(e)) = 0 /\ Cardinality(UnrecordedErrors(e)) = 0
        BY ONLY <2>1, <2>3, e \in Edges
      <3> QED BY ONLY <2>2, <2>4, <3>1, e \in Edges
    <2> QED BY <2>5 DEF Zero, Counters
  <1>8. ReportInv /\ ReportIsCovered
    BY DEF ReportInv, ReportIsCovered
  <1> QED BY <1>1, <1>6, <1>7, <1>8, <1>9 DEF StatsInv

-----------------------------------------------------------------------------
(* The page *)

\* The rows were computed when the list last came, or later; only an error lets more time
\* pass than that between two reads.
PageInv ==
    /\ StatsInv /\ PageTypeOK
    /\ requests # Nothing => requests \in Seq(Records)
    /\ requests # Nothing /\ ~failed => clock <= filteredAt + sinceRead

LEMMA RecentRequestsType ==
    ASSUME StatsInv PROVE RecentRequests(Limit) \in Seq(Records)
  <1> DEFINE n == Min({Limit, Len(buffer)})
  <1>1. Limit \in Nat /\ Len(buffer) \in Nat /\ buffer \in Seq(Records)
    BY PageAssumption DEF StatsInv
  <1>2. n \in Nat /\ n <= Len(buffer)
    BY <1>1, MinOfTwo
  <1>3. RecentRequests(Limit) = [i \in 1 .. n |-> buffer[Len(buffer) - i + 1]]
    BY DEF RecentRequests
  <1> HIDE DEF n
  <1>4. \A i \in 1 .. n : buffer[Len(buffer) - i + 1] \in Records
    BY <1>1, <1>2
  <1>5. RecentRequests(Limit) \in [1 .. n -> Records]
    BY <1>3, <1>4
  <1> QED BY <1>2, <1>5

LEMMA PageInitHolds == PageInit => PageInv
  <1> SUFFICES ASSUME PageInit PROVE PageInv
    OBVIOUS
  <1>1. StatsInv /\ StatsTypeOK
    BY StatsInitHolds DEF PageInit, StatsInv
  <1>2. PageTypeOK
    <2>1. filters \in [range : Ranges \cup {All}, host : Hosts \cup {All}]
      BY DEF PageInit
    <2>2. sort \in [key : {"time", "duration"}, dir : {"asc", "desc"}]
      BY DEF PageInit
    <2>3. clock = 0 /\ requests = Nothing /\ failed = FALSE /\ sinceRead = 0 /\ filteredAt = 0
      BY DEF PageInit, StatsInit
    <2>4. sinceRead \in 0 .. PollLag /\ filteredAt \in 0 .. clock
      BY <2>3, PageAssumption
    <2> QED BY <1>1, <2>1, <2>2, <2>3, <2>4 DEF PageTypeOK
  <1> QED BY <1>1, <1>2 DEF PageInit, PageInv

LEMMA PageStepHolds == PageInv /\ [PageNext]_activityVars => PageInv'
  <1> SUFFICES ASSUME PageInv, [PageNext]_activityVars PROVE PageInv'
    OBVIOUS
  <1>1. /\ StatsInv /\ StatsTypeOK /\ clock \in 0 .. MaxTime
        /\ requests # Nothing => ToSet(requests) \subseteq Records
        /\ failed \in BOOLEAN
        /\ sinceRead \in 0 .. PollLag
        /\ filters \in [range : Ranges \cup {All}, host : Hosts \cup {All}]
        /\ sort \in [key : {"time", "duration"}, dir : {"asc", "desc"}]
        /\ filteredAt \in 0 .. clock
        /\ requests # Nothing => requests \in Seq(Records)
        /\ requests # Nothing /\ ~failed => clock <= filteredAt + sinceRead
    BY DEF PageInv, StatsInv, StatsTypeOK, PageTypeOK
  <1>2. PollLag \in Nat /\ MaxTime \in Nat
    BY PageAssumption, StatsAssumption
  <1>3. CASE StatsStep /\ UNCHANGED pageVars
    <2>1. StatsInv' /\ StatsTypeOK'
      BY <1>1, <1>3, StatsStepHolds DEF StatsInv
    <2>2. clock' = clock
      BY <1>3 DEF StatsStep, HandlerStep, Record, HandleStats, SendReport
    <2> QED BY <1>1, <1>3, <2>1, <2>2 DEF PageInv, PageTypeOK, pageVars
  <1>4. ASSUME UNCHANGED statsVars PROVE StatsInv' /\ StatsTypeOK' /\ clock' = clock
    BY <1>1, <1>4, StatsStay DEF statsVars, StatsInv
  <1>5. CASE ReceiveRequests
    <2>1. requests' \in Seq(Records) /\ ToSet(requests') \subseteq Records
      BY <1>1, <1>5, RecentRequestsType DEF ReceiveRequests, ToSet
    <2>2. filteredAt' = clock /\ sinceRead' = 0
      BY <1>5 DEF ReceiveRequests, Recompute
    <2>3. UNCHANGED <<statsVars, filters, sort>> /\ failed' = FALSE
      BY <1>5 DEF ReceiveRequests
    <2>4. PageTypeOK'
      <3>1. sinceRead' \in 0 .. PollLag /\ filteredAt' \in 0 .. clock'
        BY <1>1, <1>2, <1>5, <1>4, <2>2, <2>3
      <3>2. (requests # Nothing => ToSet(requests) \subseteq Records)'
        BY <2>1
      <3>3. UNCHANGED <<filters, sort>> /\ failed' \in BOOLEAN /\ StatsTypeOK'
        BY <1>4, <2>3
      <3> QED BY <1>1, <3>1, <3>2, <3>3 DEF PageTypeOK
    <2> QED BY <1>1, <1>2, <1>4, <2>1, <2>2, <2>3, <2>4 DEF PageInv
  <1>6. CASE ReadFails
    BY <1>1, <1>2, <1>4, <1>6 DEF ReadFails, PageInv, PageTypeOK
  <1>7. CASE SetRange
    BY <1>1, <1>2, <1>4, <1>7 DEF SetRange, PageInv, PageTypeOK
  <1>8. CASE SetHost
    <2>1. UniqueHosts \subseteq Hosts
      BY <1>1, RecordType DEF UniqueHosts
    <2>2. filters' \in [range : Ranges \cup {All}, host : Hosts \cup {All}]
      BY <1>1, <1>8, <2>1 DEF SetHost
    <2> QED BY <1>1, <1>2, <1>4, <1>8, <2>2 DEF SetHost, PageInv, PageTypeOK
  <1>9. CASE SortBy
    <2>1. sort' \in [key : {"time", "duration"}, dir : {"asc", "desc"}]
      BY <1>1, <1>9 DEF SortBy, NextSort
    <2> QED BY <1>1, <1>2, <1>4, <1>9, <2>1 DEF SortBy, PageInv, PageTypeOK
  <1>10. CASE PageTimePasses
    <2>1. clock' \in 0 .. MaxTime /\ clock' = clock + 1
      BY <1>1, <1>2, <1>10 DEF PageTimePasses
    <2>2. StatsInv' /\ StatsTypeOK'
      BY <1>1, <1>10, <2>1, StatsStay DEF PageTimePasses, StatsInv
    <2> QED BY <1>1, <1>2, <1>10, <2>1, <2>2 DEF PageTimePasses, PageInv, PageTypeOK
  <1>11. CASE UNCHANGED activityVars
    BY <1>1, <1>4, <1>11 DEF activityVars, pageVars, PageInv, PageTypeOK
  <1> QED BY <1>3, <1>5, <1>6, <1>7, <1>8, <1>9, <1>10, <1>11 DEF PageNext

\* The rows are those of the list that pass the filters.
LEMMA FilteredType ==
    ASSUME PageInv
    PROVE  /\ Filtered \in Seq(Records)
           /\ \A r \in ToSet(Filtered) : requests # Nothing /\ Matches(r)
  <1>1. CASE requests = Nothing
    BY <1>1 DEF Filtered, ToSet
  <1>2. CASE requests # Nothing
    <2> DEFINE K == {i \in DOMAIN requests : Matches(requests[i])}
    <2>1. requests \in Seq(Records) /\ Filtered = Only(requests, K) /\ K \in SUBSET (DOMAIN requests)
      BY <1>2 DEF PageInv, Filtered
    <2>2. \A i \in K : Matches(requests[i])
      OBVIOUS
    <2> HIDE DEF K
    <2>3. Only(requests, K) \in Seq(Records)
      BY <2>1, OnlyKeeps
    <2>4. \A k \in DOMAIN Only(requests, K) : \E i \in K : Only(requests, K)[k] = requests[i]
      BY <2>1, OnlyKeeps
    <2> QED BY <1>2, <2>1, <2>2, <2>3, <2>4 DEF ToSet
  <1> QED BY <1>1, <1>2

\* Comparing by a key and then by position is a strict order.
LEMMA AboveIsStrict ==
    ASSUME NEW list \in Seq(Records)
    PROVE  IsStrictOrder(Above(list), DOMAIN list)
  <1> DEFINE key == [n \in DOMAIN list |-> KeyOf(list[n])]
  <1>1. DOMAIN list \in SUBSET Nat /\ \A n \in DOMAIN list : list[n] \in Records
    OBVIOUS
  <1>2. key \in [DOMAIN list -> Nat]
    BY <1>1, RecordType DEF KeyOf
  <1>3. ASSUME NEW i \in DOMAIN list, NEW j \in DOMAIN list
        PROVE  <<i, j>> \in Above(list) <=>
                   IF sort.dir = "asc"
                   THEN key[i] < key[j] \/ (~(key[j] < key[i]) /\ i < j)
                   ELSE key[i] > key[j] \/ (~(key[j] > key[i]) /\ i < j)
    <2>1. <<i, j>> \in Above(list) <=> IsAbove(list, i, j)
      BY DEF Above
    <2> QED BY <2>1 DEF IsAbove, ComesFirst
  <1> HIDE DEF key
  <1>4. CASE sort.dir = "asc"
    <2>1. ASSUME NEW i \in DOMAIN list, NEW j \in DOMAIN list
          PROVE  <<i, j>> \in Above(list) <=> (key[i] < key[j] \/ (key[i] = key[j] /\ i < j))
      <3>1. <<i, j>> \in Above(list) <=> key[i] < key[j] \/ (~(key[j] < key[i]) /\ i < j)
        BY <1>3, <1>4
      <3>2. key[i] \in Nat /\ key[j] \in Nat
        BY <1>2
      <3>3. ~(key[j] < key[i]) <=> key[i] < key[j] \/ key[i] = key[j]
        BY <3>2
      <3> QED BY <3>1, <3>3
    <2> QED BY <1>1, <1>2, <2>1, UpIsStrict
  <1>5. CASE sort.dir # "asc"
    <2>1. ASSUME NEW i \in DOMAIN list, NEW j \in DOMAIN list
          PROVE  <<i, j>> \in Above(list) <=> (key[i] > key[j] \/ (key[i] = key[j] /\ i < j))
      <3>1. <<i, j>> \in Above(list) <=> key[i] > key[j] \/ (~(key[j] > key[i]) /\ i < j)
        BY <1>3, <1>5
      <3>2. key[i] \in Nat /\ key[j] \in Nat
        BY <1>2
      <3>3. ~(key[j] > key[i]) <=> key[i] > key[j] \/ key[i] = key[j]
        BY <3>2
      <3> QED BY <3>1, <3>3
    <2> QED BY <1>1, <1>2, <2>1, DownIsStrict
  <1> QED BY <1>4, <1>5

LEMMA SortedRows ==
    ASSUME NEW list \in Seq(Records)
    PROVE  LET order == InOrder(Above(list), DOMAIN list)
           IN  /\ DOMAIN Sorted(Above(list), list) = DOMAIN list
               /\ \A n \in DOMAIN list : Sorted(Above(list), list)[n] = list[order[n]] /\ order[n] \in DOMAIN list
               /\ \A i, j \in DOMAIN list : i < j => <<order[i], order[j]>> \in Above(list)
  <1>1. Len(list) \in Nat /\ DOMAIN list = 1 .. Len(list)
    OBVIOUS
  <1>2. IsFiniteSet(DOMAIN list) /\ Cardinality(DOMAIN list) = Len(list)
    BY <1>1, FS_Interval
  <1>3. /\ InOrder(Above(list), DOMAIN list) \in [DOMAIN list -> DOMAIN list]
        /\ \A i, j \in DOMAIN list :
               i < j => <<InOrder(Above(list), DOMAIN list)[i],
                          InOrder(Above(list), DOMAIN list)[j]>> \in Above(list)
    BY <1>1, <1>2, AboveIsStrict, InOrderIsSorted
  <1> QED BY <1>3 DEF Sorted

LEMMA NewestFirstFollows == ASSUME PageInv PROVE NewestRowsFirst
  <1> SUFFICES ASSUME sort = [key |-> "time", dir |-> "desc"],
                      NEW i \in DOMAIN Rows, NEW j \in DOMAIN Rows, i < j
               PROVE  Rows[i].at >= Rows[j].at
    BY DEF NewestRowsFirst
  <1> DEFINE list == Filtered
             order == InOrder(Above(list), DOMAIN list)
  <1>1. list \in Seq(Records)
    BY FilteredType
  <1> HIDE DEF list
  <1>2. /\ i \in DOMAIN list /\ j \in DOMAIN list
        /\ Rows[i] = list[order[i]] /\ Rows[j] = list[order[j]]
        /\ order[i] \in DOMAIN list /\ order[j] \in DOMAIN list
        /\ <<order[i], order[j]>> \in Above(list)
    BY <1>1, SortedRows DEF Rows, list
  <1> HIDE DEF order
  <1>3. list[order[i]].at \in Nat /\ list[order[j]].at \in Nat
    <2>1. list[order[i]] \in Records /\ list[order[j]] \in Records
      BY <1>1, <1>2
    <2> QED BY <2>1, RecordType
  <1>4. \/ list[order[i]].at > list[order[j]].at
        \/ ~(list[order[j]].at > list[order[i]].at)
    BY <1>2 DEF Above, IsAbove, ComesFirst, KeyOf
  <1> QED BY <1>2, <1>3, <1>4

LEMMA StaleFollows == ASSUME PageInv PROVE StaleRowsAreExplained
  <1> SUFFICES ASSUME filters.range # All, ~failed, NEW r \in ToSet(Filtered)
               PROVE  clock - r.at <= filters.range + PollLag
    BY DEF StaleRowsAreExplained
  <1>1. /\ r \in Records /\ requests # Nothing /\ Matches(r)
    BY FilteredType DEF ToSet
  <1>2. filteredAt - r.at <= filters.range
    BY <1>1 DEF Matches, InRange
  <1>3. /\ clock \in Nat /\ filteredAt \in Nat /\ sinceRead \in Nat /\ sinceRead <= PollLag
        /\ filters.range \in Nat
    <2>1. clock \in 0 .. MaxTime /\ filteredAt \in 0 .. clock /\ sinceRead \in 0 .. PollLag
      BY DEF PageInv, PageTypeOK, StatsTypeOK
    <2>2. filters.range \in Ranges \cup {All}
      BY DEF PageInv, PageTypeOK
    <2>3. filters.range \in Nat
      BY <2>2, PageAssumption
    <2> QED BY <2>1, <2>3, PageAssumption, StatsAssumption
  <1>4. clock <= filteredAt + sinceRead
    BY <1>1 DEF PageInv
  <1>5. r.at \in Nat /\ PollLag \in Nat
    BY <1>1, RecordType, PageAssumption
  <1> QED BY <1>2, <1>3, <1>4, <1>5

-----------------------------------------------------------------------------

THEOREM PageInvariance == PageSpec => []PageInv
  BY PageInitHolds, PageStepHolds, PTL DEF PageSpec

\* However goroutines record, trim and report in between, the counters of a host are the
\* sums of its edges, every request is counted and buffered once, and the later parts of
\* a report cover the earlier ones (stats.go:56-85, api.go:243-250).
THEOREM BooksStaySound == PageSpec => []BooksAreSound
  <1>1. PageInv => BooksAreSound
    BY DEF PageInv, StatsInv, BooksAreSound
  <1> QED BY <1>1, PageInvariance, PTL

\* The page starts with the newest row on top, for records in any order
\* (ActivityPage.tsx:22-38, 283).
THEOREM NewestRowsComeFirst == PageSpec => []NewestRowsFirst
  <1>1. PageInv => NewestRowsFirst
    BY NewestFirstFollows
  <1> QED BY <1>1, PageInvariance, PTL

\* A row outlives its time range by more than a poll only beside an error
\* (ActivityPage.tsx:264-284).
THEOREM StaleRowsStayExplained == PageSpec => []StaleRowsAreExplained
  <1>1. PageInv => StaleRowsAreExplained
    BY StaleFollows
  <1> QED BY <1>1, PageInvariance, PTL

-----------------------------------------------------------------------------
(* The diagram: routes and groups *)

DiagramRoute == [host: Hostnames, source: DOMAIN Rank]

\* Routes that can be drawn: one for every host.
AreDrawable(V) ==
    /\ IsFiniteSet(V)
    /\ V \subseteq DiagramRoute
    /\ \A r, q \in V : r.host = q.host => r = q

LEMMA TopologyIs ==
    ASSUME NEW t \in Topologies
    PROVE  /\ t.routes \in Seq(DiagramRoute)
           /\ FirstRoutes[t] = UniqueRoutes(t.routes)
           /\ t.sni \in BOOLEAN /\ t.passthrough \in BOOLEAN
  <1>1. t.routes \in Seq([host: Hostnames, source: STRING])
    BY DiagramAssumption
  <1>2. \A i \in DOMAIN t.routes : t.routes[i] \in [host: Hostnames, source: STRING]
    BY <1>1, NarrowerList
  <1>3. \A i \in DOMAIN t.routes : t.routes[i] \in DiagramRoute
    <2> TAKE i \in DOMAIN t.routes
    <2>1. t.routes[i] \in [host: Hostnames, source: STRING]
      BY <1>2
    <2>2. t.routes[i].source \in DOMAIN Rank
      BY NamesAreDistinct
    <2>3. t.routes[i] = [host |-> t.routes[i].host, source |-> t.routes[i].source]
          /\ t.routes[i].host \in Hostnames
      BY <2>1
    <2> QED BY <2>2, <2>3 DEF DiagramRoute
  <1>4. t.routes \in Seq(DiagramRoute)
    BY <1>1, <1>3, NarrowerList
  <1>5. FirstRoutes[t] = UniqueRoutes(t.routes)
    BY DEF FirstRoutes
  <1> QED BY <1>4, <1>5, DiagramAssumption

LEMMA UniqueRoutesAre ==
    ASSUME NEW routes \in Seq(DiagramRoute)
    PROVE  /\ AreDrawable(UniqueRoutes(routes))
           /\ {r.host : r \in UniqueRoutes(routes)} = {routes[i].host : i \in DOMAIN routes}
           /\ \A r \in UniqueRoutes(routes) :
                 \E i \in DOMAIN routes : r = routes[i] /\ FirstAt(routes, i)
  <1> DEFINE First == {i \in DOMAIN routes : FirstAt(routes, i)}
  <1>1. Len(routes) \in Nat /\ DOMAIN routes = 1 .. Len(routes)
        /\ \A i \in DOMAIN routes : routes[i] \in DiagramRoute
    OBVIOUS
  <1>2. UniqueRoutes(routes) = {routes[i] : i \in First}
    BY DEF UniqueRoutes
  <1>3. IsFiniteSet(UniqueRoutes(routes))
    <2>1. IsFiniteSet(First)
      BY PositionsAreFinite
    <2> HIDE DEF First
    <2> QED BY <1>2, <2>1, ImageIsFinite
  <1>4. ASSUME NEW i \in First, NEW j \in First, routes[i].host = routes[j].host
        PROVE  i = j
    <2>1. i \in Nat /\ j \in Nat /\ i >= 1 /\ j >= 1
      BY <1>1
    <2>2. ~(i < j) /\ ~(j < i)
      BY <1>4, <2>1 DEF FirstAt
    <2> QED BY <2>1, <2>2
  <1>5. ASSUME NEW i \in DOMAIN routes
        PROVE  \E k \in First : routes[k].host = routes[i].host
    <2> DEFINE Same == {j \in DOMAIN routes : routes[j].host = routes[i].host}
    <2>1. IsFiniteSet(Same) /\ Same \in SUBSET Nat /\ Same # {}
      BY PositionsAreFinite
    <2>2. PICK k \in Same : \A j \in Same : k <= j
      <3> HIDE DEF Same
      <3> QED BY <2>1, HasLeast
    <2>3. k \in DOMAIN routes /\ routes[k].host = routes[i].host /\ k \in Nat
      BY <1>1
    <2>4. \A j \in 1 .. (k - 1) : routes[j].host # routes[k].host
      BY <1>1, <2>2, <2>3
    <2> QED BY <2>3, <2>4 DEF FirstAt
  <1>6. AreDrawable(UniqueRoutes(routes))
    BY <1>1, <1>2, <1>3, <1>4 DEF AreDrawable
  <1>7. {r.host : r \in UniqueRoutes(routes)} = {routes[i].host : i \in DOMAIN routes}
    BY <1>2, <1>5
  <1> QED BY <1>2, <1>6, <1>7

\* Every host has a place in the report, and no two have the same.
LEMMA PlacesInReport ==
    ASSUME NEW t \in Topologies
    PROVE  LET place == ReportedAt[t]
           IN  /\ \A r \in FirstRoutes[t] : place[r.host] \in Nat
               /\ \A r, q \in FirstRoutes[t] : place[r.host] = place[q.host] => r = q
  <1> DEFINE U == FirstRoutes[t]
             At(h) == CHOOSE i \in DOMAIN t.routes :
                          t.routes[i].host = h /\ FirstAt(t.routes, i)
  <1>1. t.routes \in Seq(DiagramRoute) /\ U = UniqueRoutes(t.routes)
    BY TopologyIs
  <1>2. \A r \in U : \E i \in DOMAIN t.routes : r = t.routes[i] /\ FirstAt(t.routes, i)
    BY <1>1, UniqueRoutesAre
  <1>3. \A r \in U : At(r.host) \in DOMAIN t.routes /\ t.routes[At(r.host)].host = r.host
    BY <1>2
  <1>4. \A r \in U : ReportedAt[t][r.host] = At(r.host)
    BY DEF ReportedAt
  <1>5. AreDrawable(U)
    BY <1>1, UniqueRoutesAre
  <1>6. DOMAIN t.routes \subseteq Nat
    BY <1>1
  <1> HIDE DEF At, U
  <1>7. /\ \A r \in U : ReportedAt[t][r.host] \in Nat
        /\ \A r, q \in U : ReportedAt[t][r.host] = ReportedAt[t][q.host] => r = q
    BY <1>3, <1>4, <1>5, <1>6 DEF AreDrawable
  <1> QED BY <1>7 DEF U

LEMMA NamesHavePlaces ==
    ASSUME NEW V, AreDrawable(V)
    PROVE  /\ \A r \in V : Rank[r.host] \in Nat
           /\ \A r, q \in V : Rank[r.host] = Rank[q.host] => r = q
BY NamesAreDistinct DEF AreDrawable, DiagramRoute

\* Routes with different places have different positions, from 0 up.
LEMMA PositionsDiffer ==
    ASSUME NEW V, IsFiniteSet(V), NEW place, \A r \in V : place[r.host] \in Nat,
           \A r, q \in V : place[r.host] = place[q.host] => r = q
    PROVE  /\ \A r \in V : Position(r, V, place) \in 0 .. (Cardinality(V) - 1)
           /\ \A r, q \in V : Position(r, V, place) = Position(q, V, place) => r = q
  <1> DEFINE R == {p \in V \X V : place[p[1].host] < place[p[2].host]}
  <1>1. IsStrictOrder(R, V)
    BY DEF IsStrictOrder
  <1>2. ASSUME NEW r \in V
        PROVE  Position(r, V, place) \in Nat /\ Place(R, V, r) = Position(r, V, place) + 1
    <2>1. {q \in V : <<q, r>> \in R} = {q \in V : place[q.host] < place[r.host]}
      OBVIOUS
    <2>2. IsFiniteSet({q \in V : place[q.host] < place[r.host]})
      BY FS_Subset
    <2> HIDE DEF R
    <2> QED BY <2>1, <2>2, FS_CardinalityType DEF Place, Position
  <1> HIDE DEF R
  <1>3. Cardinality(V) \in Nat
    BY FS_CardinalityType
  <1>4. \A r \in V : Place(R, V, r) \in 1 .. Cardinality(V)
    BY <1>1, PlacesAreOrdered
  <1>5. \A r, q \in V : Place(R, V, r) = Place(R, V, q) => r = q
    BY <1>1, PlacesDiffer
  <1> QED BY <1>2, <1>3, <1>4, <1>5

\* Groups that share the routes out among themselves.
AreBuckets(G, V) ==
    /\ IsFiniteSet(G)
    /\ \A g \in G : /\ g.key \in DOMAIN Rank \cup {Other}
                    /\ g.members # {} /\ g.members \subseteq V
    /\ \A g, h \in G : g.key = h.key => g = h
    /\ \A g, h \in G : g.members \cap h.members # {} => g = h
    /\ \A r \in V : \E g \in G : r \in g.members

LEMMA KeysAreNames ==
    ASSUME NEW r \in DiagramRoute, NEW mode
    PROVE  GroupKey(r, mode) \in DOMAIN Rank
BY NamesAreDistinct DEF DiagramRoute, GroupKey

\* A bucket has the key of its routes, but for the bucket of singles.
LEMMA KeysOfBuckets ==
    ASSUME NEW V, NEW mode, NEW g \in Buckets(V, mode)
    PROVE  \/ \E r \in V : g.key = GroupKey(r, mode)
           \/ g.key = Other /\ mode = "prefix"
  <1> DEFINE keys   == {GroupKey(r, mode) : r \in V}
             Of(k)  == {r \in V : GroupKey(r, mode) = k}
             single == {k \in keys : mode = "prefix" /\ Cardinality(Of(k)) = 1}
             tail   == UNION {Of(k) : k \in single}
  <1>1. g \in {[key |-> k, members |-> Of(k)] : k \in keys \ single} \cup
             (IF tail = {} THEN {} ELSE {[key |-> Other, members |-> tail]})
    BY DEF Buckets
  <1>2. tail # {} => mode = "prefix"
    <2> HIDE DEF Of
    <2> QED OBVIOUS
  <1> HIDE DEF tail, Of, single
  <1>3. \/ g.key \in keys
        \/ g.key = Other /\ tail # {}
    BY <1>1
  <1> QED BY <1>2, <1>3

LEMMA BucketsAre ==
    ASSUME NEW V, AreDrawable(V), NEW mode
    PROVE  AreBuckets(Buckets(V, mode), V)
  <1> DEFINE keys   == {GroupKey(r, mode) : r \in V}
             Of(k)  == {r \in V : GroupKey(r, mode) = k}
             single == {k \in keys : mode = "prefix" /\ Cardinality(Of(k)) = 1}
             tail   == UNION {Of(k) : k \in single}
             main   == {[key |-> k, members |-> Of(k)] : k \in keys \ single}
             rest   == IF tail = {} THEN {} ELSE {[key |-> Other, members |-> tail]}
             G      == main \cup rest
  <1>1. Buckets(V, mode) = G
    BY DEF Buckets
  <1>2. keys \subseteq DOMAIN Rank /\ Other \notin keys
    BY KeysAreNames, NamesAreDistinct DEF AreDrawable
  <1>3. IsFiniteSet(keys)
    <2> DEFINE key == [r \in V |-> GroupKey(r, mode)]
    <2>1. IsFiniteSet({key[r] : r \in V})
      <3> HIDE DEF key
      <3> QED BY ImageIsFinite DEF AreDrawable
    <2> QED BY <2>1
  <1>4. IsFiniteSet(G)
    <2> DEFINE bucket == [k \in keys \ single |-> [key |-> k, members |-> Of(k)]]
    <2>1. IsFiniteSet({bucket[k] : k \in keys \ single})
      <3>1. IsFiniteSet(keys \ single)
        <4> HIDE DEF keys, single
        <4> QED BY <1>3, FS_Difference
      <3> HIDE DEF bucket, keys, single
      <3> QED BY <3>1, ImageIsFinite
    <2>2. {bucket[k] : k \in keys \ single} = main
      <3> HIDE DEF keys, single
      <3> QED OBVIOUS
    <2>3. IsFiniteSet(rest)
      BY FS_EmptySet, FS_Singleton
    <2> HIDE DEF main, rest, bucket, keys, single
    <2> QED BY <2>1, <2>2, <2>3, FS_Union
  <1>5. \A k \in keys : Of(k) # {} /\ Of(k) \subseteq V
    OBVIOUS
  <1>6. \A r \in V : GroupKey(r, mode) \in keys /\ \A k : r \in Of(k) <=> GroupKey(r, mode) = k
    OBVIOUS
  <1>7. \A r \in V : r \in tail <=> GroupKey(r, mode) \in single
    <2> HIDE DEF Of, single
    <2> QED BY <1>6
  <1>8. tail \subseteq V /\ single \subseteq keys
    OBVIOUS
  <1>9. \A g \in G : \/ g.key \in keys \ single /\ g.members = Of(g.key)
                     \/ g.key = Other /\ g.members = tail /\ tail # {}
    <2> HIDE DEF keys, Of, single, tail
    <2> QED OBVIOUS
  <1>10. \A g \in G : g = [key |-> g.key, members |-> g.members]
    <2> HIDE DEF keys, Of, single, tail
    <2> QED OBVIOUS
  <1>11. ASSUME NEW r \in V PROVE \E g \in G : r \in g.members
    <2> DEFINE k == GroupKey(r, mode)
    <2>1. CASE k \in single
      <3>1. r \in tail
        BY <1>7, <2>1
      <3>2. [key |-> Other, members |-> tail] \in G
        BY <3>1
      <3> HIDE DEF tail, G
      <3> QED BY <3>1, <3>2
    <2>2. CASE k \notin single
      <3>1. [key |-> k, members |-> Of(k)] \in G
        BY <1>6, <2>2
      <3>2. r \in Of(k)
        OBVIOUS
      <3> HIDE DEF G, Of, k
      <3> QED BY <3>1, <3>2
    <2> QED BY <2>1, <2>2
  <1> HIDE DEF keys, Of, single, tail, main, rest, G
  <1>12. \A g \in G : /\ g.key \in DOMAIN Rank \cup {Other}
                      /\ g.members # {} /\ g.members \subseteq V
    BY <1>2, <1>5, <1>8, <1>9
  <1>13. \A g, h \in G : g.key = h.key => g.members = h.members
    BY <1>2, <1>9
  <1>14. ASSUME NEW g \in G, NEW h \in G, NEW r \in g.members, r \in h.members
         PROVE  g.key = h.key
    <2>1. r \in V
      BY <1>12
    <2>2. /\ \/ g.key \in keys \ single /\ GroupKey(r, mode) = g.key
             \/ g.key = Other /\ GroupKey(r, mode) \in single
          /\ \/ h.key \in keys \ single /\ GroupKey(r, mode) = h.key
             \/ h.key = Other /\ GroupKey(r, mode) \in single
      BY <1>6, <1>7, <1>9, <1>14, <2>1
    <2> QED BY <2>2
  <1>15. \A g, h \in G : g.key = h.key => g = h
    BY <1>10, <1>13
  <1>16. \A g, h \in G : g.members \cap h.members # {} => g = h
    BY <1>14, <1>15
  <1> QED BY <1>1, <1>4, <1>11, <1>12, <1>15, <1>16 DEF AreBuckets

LEMMA GroupsAreOrdered ==
    ASSUME NEW G, NEW V, AreBuckets(G, V)
    PROVE  /\ \A a \in G : ~GroupBefore(a, a)
           /\ \A a, b \in G : a = b \/ GroupBefore(a, b) \/ GroupBefore(b, a)
           /\ \A a, b, c \in G : GroupBefore(a, b) /\ GroupBefore(b, c) => GroupBefore(a, c)
BY NamesAreDistinct DEF AreBuckets, GroupBefore

-----------------------------------------------------------------------------
(* The diagram: rows and nodes *)

LEMMA HeightIs ==
    ASSUME NEW g, IsFiniteSet(g.members)
    PROVE  /\ Cardinality(g.members) \in Nat
           /\ Height(g) \in Nat /\ Height(g) >= 1
           /\ IsExpanded(g) => IsCollected(g) /\ Height(g) = Cardinality(g.members)
  <1>1. Cardinality(g.members) \in Nat
    BY FS_CardinalityType
  <1> QED BY <1>1 DEF Height, IsExpanded, IsCollected

\* A group starts below all groups that come before it, with all their rows.
LEMMA RowsAreApart ==
    ASSUME NEW G, NEW V, IsFiniteSet(V), AreBuckets(G, V), NEW g \in G, NEW h \in G,
           GroupBefore(g, h)
    PROVE  Row(g, G) \in Nat /\ Row(h, G) \in Nat /\ Row(g, G) + Height(g) <= Row(h, G)
  <1> DEFINE height    == [k \in G |-> Height(k)]
             before(a) == {k \in G : GroupBefore(k, a)}
             here(a)   == [k \in before(a) |-> Height(k)]
  <1>1. \A k \in G : height[k] = Height(k) /\ height[k] \in Nat
    <2>1. \A k \in G : IsFiniteSet(k.members)
      BY FS_Subset DEF AreBuckets
    <2> QED BY <2>1, HeightIs
  <1>2. \A a : before(a) \subseteq G /\ IsFiniteSet(before(a))
    BY FS_Subset DEF AreBuckets
  <1>3. ASSUME NEW a PROVE Row(a, G) = Total(height, before(a))
    <2>1. \A k \in before(a) : here(a)[k] = height[k]
      OBVIOUS
    <2>2. Row(a, G) = Total(here(a), before(a))
      BY DEF Row
    <2> HIDE DEF here, height, before
    <2> QED BY <2>1, <2>2, TotalSame
  <1>4. before(g) \subseteq before(h) /\ g \in before(h) /\ g \notin before(g)
    BY GroupsAreOrdered
  <1> HIDE DEF height, before, here
  <1>5. Total(height, before(g)) + height[g] <= Total(height, before(h))
    BY <1>1, <1>2, <1>4, TotalOfMore
  <1>6. Total(height, before(g)) \in Nat /\ Total(height, before(h)) \in Nat
    BY <1>1, <1>2, UnitsAreFinite
  <1> QED BY <1>1, <1>3, <1>5, <1>6

\* n is drawn as the service, or as the group.
AsService(n, r, col, row) ==
    /\ n.id = <<"svc", r.host>> /\ n.col = col /\ n.row = row
    /\ n.shows = {r.host} /\ n.dimmed = Dimmed({r}) /\ n.body = ServiceNode(stats[r.host])

AsGroup(n, g, row) ==
    /\ n.id = <<"grp", g.key>> /\ n.col = 3 /\ n.row = row
    /\ n.shows = {r.host : r \in g.members} /\ n.dimmed = Dimmed(g.members)
    /\ n.body = GroupNode(AggregateStats(g.members))

LEMMA RowIsNat ==
    ASSUME NEW G, NEW V, IsFiniteSet(V), AreBuckets(G, V), NEW g \in G
    PROVE  Row(g, G) \in Nat
  <1> DEFINE before == {k \in G : GroupBefore(k, g)}
             here   == [k \in before |-> Height(k)]
  <1>1. \A k \in before : here[k] \in Nat
    <2>1. \A k \in before : IsFiniteSet(k.members)
      BY FS_Subset DEF AreBuckets
    <2> QED BY <2>1, HeightIs
  <1>2. IsFiniteSet(before)
    BY FS_Subset DEF AreBuckets
  <1>3. Row(g, G) = Total(here, before)
    BY DEF Row
  <1> HIDE DEF here, before
  <1> QED BY <1>1, <1>2, <1>3, UnitsAreFinite

LEMMA ServiceIs ==
    ASSUME NEW r, NEW col, NEW row
    PROVE  \A n : n = Service(r, col, row) => AsService(n, r, col, row)
BY DEF Service, AsService

LEMMA GroupIs ==
    ASSUME NEW g, NEW row
    PROVE  \A n : n = Group(g, row) => AsGroup(n, g, row)
BY DEF Group, AsGroup

LEMMA ServiceHasId ==
    ASSUME NEW r, NEW col, NEW row
    PROVE  LET n == Service(r, col, row)
           IN  n.id = <<"svc", r.host>> /\ n.col = col /\ n.row = row /\ n.shows = {r.host}
BY DEF Service

LEMMA GroupHasId ==
    ASSUME NEW g, NEW row
    PROVE  LET n == Group(g, row)
           IN  /\ n.id = <<"grp", g.key>> /\ n.col = 3 /\ n.row = row
               /\ n.shows = {r.host : r \in g.members}
BY DEF Group

\* The three kinds of nodes of a group: its only host, itself, one of its hosts.
IsLone(n, g, G)  == ~IsCollected(g) /\ \E r \in g.members : n = Service(r, 3, Row(g, G))
IsGroup(n, g, G) == IsCollected(g) /\ n = Group(g, Row(g, G))
IsChild(n, g, G) ==
    /\ IsExpanded(g)
    /\ \E r \in g.members : n = Service(r, 4, Row(g, G) + Position(r, g.members, Rank))

Groups == Buckets(VisibleRoutes, EffectiveMode)

LEMMA VisibleRoutesAre ==
    ASSUME DiagramTypeOK
    PROVE  /\ AreDrawable(AllRoutes)
           /\ {r.host : r \in AllRoutes} =
                  {topology.routes[i].host : i \in DOMAIN topology.routes}
           /\ VisibleRoutes \subseteq AllRoutes /\ AreDrawable(VisibleRoutes)
  <1>1. topology \in Topologies
    BY DEF DiagramTypeOK
  <1>2. AllRoutes = UniqueRoutes(topology.routes) /\ topology.routes \in Seq(DiagramRoute)
    BY <1>1, TopologyIs DEF AllRoutes
  <1>3. /\ AreDrawable(AllRoutes)
        /\ {r.host : r \in AllRoutes} =
               {topology.routes[i].host : i \in DOMAIN topology.routes}
    BY <1>2, UniqueRoutesAre
  <1>4. VisibleRoutes \subseteq AllRoutes
    BY DEF VisibleRoutes
  <1> QED BY <1>3, <1>4, FS_Subset DEF AreDrawable

LEMMA GroupsAre ==
    ASSUME DiagramTypeOK
    PROVE  /\ AreBuckets(Groups, VisibleRoutes)
           /\ \A g \in Groups : IsFiniteSet(g.members) /\ AreDrawable(g.members)
  <1>1. AreDrawable(VisibleRoutes)
    BY VisibleRoutesAre
  <1>2. AreBuckets(Groups, VisibleRoutes)
    BY <1>1, BucketsAre DEF Groups
  <1>3. \A g \in Groups : g.members \subseteq VisibleRoutes
    BY <1>2 DEF AreBuckets
  <1> QED BY <1>1, <1>2, <1>3, FS_Subset DEF AreDrawable

LEMMA RoutedIs ==
    ASSUME EffectiveMode # "none"
    PROVE  /\ \A n \in Routed : \E g \in Groups :
                 IsLone(n, g, Groups) \/ IsGroup(n, g, Groups) \/ IsChild(n, g, Groups)
           /\ \A n : \A g \in Groups :
                 IsLone(n, g, Groups) \/ IsGroup(n, g, Groups) \/ IsChild(n, g, Groups)
                     => n \in Routed
  <1>1. Routed = UNION {DrawnGroup(g, Row(g, Groups)) : g \in Groups}
    BY DEF Routed, Groups
  <1>2. ASSUME NEW g \in Groups, NEW n
        PROVE  n \in DrawnGroup(g, Row(g, Groups)) <=>
                   IsLone(n, g, Groups) \/ IsGroup(n, g, Groups) \/ IsChild(n, g, Groups)
    <2>1. IsExpanded(g) => IsCollected(g)
      BY DEF IsExpanded
    <2> QED BY <2>1 DEF DrawnGroup, IsLone, IsGroup, IsChild
  <1> QED BY <1>1, <1>2

LEMMA ColumnIs ==
    ASSUME NEW n, NEW g, NEW G, IsLone(n, g, G) \/ IsGroup(n, g, G) \/ IsChild(n, g, G)
    PROVE  /\ n.col = 4 <=> IsChild(n, g, G)
           /\ n.col = 3 <=> ~IsChild(n, g, G)
           /\ n.id[1] = "grp" <=> IsGroup(n, g, G)
  <1>1. CASE IsLone(n, g, G)
    <2>1. n.col = 3 /\ n.id[1] = "svc"
      BY <1>1, ServiceHasId DEF IsLone
    <2> QED BY <1>1, <2>1 DEF IsLone, IsGroup, IsChild, IsExpanded
  <1>2. CASE IsGroup(n, g, G)
    <2>1. n.col = 3 /\ n.id[1] = "grp"
      BY <1>2, GroupHasId DEF IsGroup
    <2>2. ~IsChild(n, g, G)
      BY <2>1, ServiceHasId DEF IsChild
    <2> QED BY <1>2, <2>1, <2>2
  <1>3. CASE IsChild(n, g, G)
    <2>1. n.col = 4 /\ n.id[1] = "svc"
      BY <1>3, ServiceHasId DEF IsChild
    <2>2. ~IsGroup(n, g, G)
      BY <2>1, GroupHasId DEF IsGroup
    <2> QED BY <1>3, <2>1, <2>2
  <1> QED BY <1>1, <1>2, <1>3

\* A group of one has one member.
LEMMA LoneIsAlone ==
    ASSUME NEW g, IsFiniteSet(g.members), ~IsCollected(g), NEW r \in g.members,
           NEW q \in g.members
    PROVE  r = q
  <1>1. Cardinality(g.members) \in Nat /\ Cardinality(g.members) <= 1
    BY FS_CardinalityType DEF IsCollected
  <1>2. Cardinality(g.members) # 0
    BY FS_EmptySet
  <1>3. Cardinality(g.members) = 1
    BY <1>1, <1>2
  <1>4. \E x : g.members = {x}
    BY <1>3, FS_Singleton
  <1> QED BY <1>4

\* A node that shows a host is of the group that the host is in.
LEMMA ShownByItsGroup ==
    ASSUME DiagramTypeOK, EffectiveMode # "none", NEW g \in Groups, NEW r \in g.members,
           NEW n \in Routed, r.host \in n.shows
    PROVE  \/ ~IsCollected(g) /\ n = Service(r, 3, Row(g, Groups))
           \/ IsCollected(g) /\ n = Group(g, Row(g, Groups))
           \/ IsExpanded(g)
              /\ n = Service(r, 4, Row(g, Groups) + Position(r, g.members, Rank))
  <1>1. PICK h \in Groups :
            IsLone(n, h, Groups) \/ IsGroup(n, h, Groups) \/ IsChild(n, h, Groups)
    BY RoutedIs
  <1>2. \A k \in Groups : k.members \subseteq VisibleRoutes
    BY GroupsAre DEF AreBuckets
  <1>3. \A q \in h.members : q.host = r.host => q = r /\ h = g
    <2>1. \A q \in VisibleRoutes : q.host = r.host => q = r
      BY <1>2, VisibleRoutesAre DEF AreDrawable
    <2>2. r \in h.members => h = g
      BY GroupsAre DEF AreBuckets
    <2> QED BY <1>2, <2>1, <2>2
  <1>4. CASE IsLone(n, h, Groups)
    <2>1. PICK q \in h.members : n = Service(q, 3, Row(h, Groups))
      BY <1>4 DEF IsLone
    <2>2. AsService(n, q, 3, Row(h, Groups))
      BY <2>1, ServiceIs
    <2>3. q.host = r.host
      BY <2>2 DEF AsService
    <2> QED BY <1>3, <1>4, <2>1, <2>3 DEF IsLone
  <1>5. CASE IsGroup(n, h, Groups)
    <2>1. \E q \in h.members : q.host = r.host
      BY <1>5, GroupIs DEF IsGroup, AsGroup
    <2> QED BY <1>3, <1>5, <2>1 DEF IsGroup
  <1>6. CASE IsChild(n, h, Groups)
    <2>1. PICK q \in h.members :
              n = Service(q, 4, Row(h, Groups) + Position(q, h.members, Rank))
      BY <1>6 DEF IsChild
    <2>2. AsService(n, q, 4, Row(h, Groups) + Position(q, h.members, Rank))
      BY <2>1, ServiceIs
    <2>3. q.host = r.host
      BY <2>2 DEF AsService
    <2> QED BY <1>3, <1>6, <2>1, <2>3 DEF IsChild
  <1> QED BY <1>1, <1>4, <1>5, <1>6

\* Every node shows something, and only what is visible.
LEMMA NodesShow ==
    ASSUME DiagramTypeOK, EffectiveMode # "none", NEW n \in Routed
    PROVE  \E g \in Groups : \E r \in g.members : r \in VisibleRoutes /\ r.host \in n.shows
  <1>1. PICK g \in Groups :
            IsLone(n, g, Groups) \/ IsGroup(n, g, Groups) \/ IsChild(n, g, Groups)
    BY RoutedIs
  <1>2. g.members # {} /\ g.members \subseteq VisibleRoutes
    BY GroupsAre DEF AreBuckets
  <1>3. CASE IsLone(n, g, Groups)
    <2>1. PICK r \in g.members : n = Service(r, 3, Row(g, Groups))
      BY <1>3 DEF IsLone
    <2>2. AsService(n, r, 3, Row(g, Groups))
      BY <2>1, ServiceIs
    <2> QED BY <1>2, <2>2 DEF AsService
  <1>4. CASE IsGroup(n, g, Groups)
    BY <1>2, <1>4, GroupIs DEF IsGroup, AsGroup
  <1>5. CASE IsChild(n, g, Groups)
    <2>1. PICK r \in g.members :
              n = Service(r, 4, Row(g, Groups) + Position(r, g.members, Rank))
      BY <1>5 DEF IsChild
    <2>2. AsService(n, r, 4, Row(g, Groups) + Position(r, g.members, Rank))
      BY <2>1, ServiceIs
    <2> QED BY <1>2, <2>2 DEF AsService
  <1> QED BY <1>1, <1>3, <1>4, <1>5

\* What is not grouped is a stack of services.
LEMMA StackIs ==
    ASSUME EffectiveMode = "none"
    PROVE  LET row(r) == Position(r, VisibleRoutes, ReportedAt[topology])
           IN  /\ \A n \in Routed : \E r \in VisibleRoutes : n = Service(r, 3, row(r))
               /\ \A r \in VisibleRoutes : Service(r, 3, row(r)) \in Routed
BY DEF Routed

-----------------------------------------------------------------------------
(* The diagram: the layout *)

LEMMA StackPositions ==
    ASSUME DiagramTypeOK, NEW r \in VisibleRoutes, NEW q \in VisibleRoutes,
           Position(r, VisibleRoutes, ReportedAt[topology]) =
               Position(q, VisibleRoutes, ReportedAt[topology])
    PROVE  r = q
  <1> DEFINE place == ReportedAt[topology]
  <1>1. topology \in Topologies /\ AllRoutes = FirstRoutes[topology]
    BY DEF DiagramTypeOK, AllRoutes
  <1>2. VisibleRoutes \subseteq FirstRoutes[topology] /\ IsFiniteSet(VisibleRoutes)
    BY <1>1, VisibleRoutesAre DEF AreDrawable
  <1>3. /\ \A p \in FirstRoutes[topology] : place[p.host] \in Nat
        /\ \A p, o \in FirstRoutes[topology] : place[p.host] = place[o.host] => p = o
    BY <1>1, PlacesInReport
  <1> HIDE DEF place
  <1>4. \A p, o \in VisibleRoutes :
            Position(p, VisibleRoutes, place) = Position(o, VisibleRoutes, place) => p = o
    BY <1>2, <1>3, PositionsDiffer
  <1> QED BY <1>4 DEF place

\* Nodes with one id are one node.
LEMMA IdsDiffer ==
    ASSUME DiagramTypeOK, NEW m \in Routed, NEW n \in Routed, m.id = n.id
    PROVE  m = n
  <1>1. CASE EffectiveMode = "none"
    <2> DEFINE row(p) == Position(p, VisibleRoutes, ReportedAt[topology])
    <2>1. PICK r \in VisibleRoutes : m = Service(r, 3, row(r))
      BY <1>1, StackIs
    <2>2. PICK q \in VisibleRoutes : n = Service(q, 3, row(q))
      BY <1>1, StackIs
    <2>3. m.id = <<"svc", r.host>>
      BY <2>1, ServiceHasId
    <2>4. n.id = <<"svc", q.host>>
      BY <2>2, ServiceHasId
    <2>5. r.host = q.host
      <3>1. <<"svc", r.host>> = <<"svc", q.host>>
        BY <2>3, <2>4
      <3> QED BY ONLY <3>1
    <2>6. r = q
      BY <2>5, VisibleRoutesAre DEF AreDrawable
    <2> QED BY <2>1, <2>2, <2>6
  <1>2. CASE EffectiveMode # "none"
    <2>1. PICK g, r : /\ g \in Groups /\ r \in g.members
                      /\ r \in VisibleRoutes /\ r.host \in m.shows
      BY <1>2, NodesShow
    <2>2. \/ ~IsCollected(g) /\ m = Service(r, 3, Row(g, Groups))
          \/ IsCollected(g) /\ m = Group(g, Row(g, Groups))
          \/ IsExpanded(g) /\ m = Service(r, 4, Row(g, Groups) + Position(r, g.members, Rank))
      BY <1>2, <2>1, ShownByItsGroup
    <2>3. PICK h, q : /\ h \in Groups /\ q \in h.members
                      /\ q \in VisibleRoutes /\ q.host \in n.shows
      BY <1>2, NodesShow
    <2>4. \/ ~IsCollected(h) /\ n = Service(q, 3, Row(h, Groups))
          \/ IsCollected(h) /\ n = Group(h, Row(h, Groups))
          \/ IsExpanded(h) /\ n = Service(q, 4, Row(h, Groups) + Position(q, h.members, Rank))
      BY <1>2, <2>3, ShownByItsGroup
    <2>5. \/ m.id = <<"svc", r.host>> /\ ~(IsCollected(g) /\ m = Group(g, Row(g, Groups)))
          \/ m.id = <<"grp", g.key>> /\ IsCollected(g) /\ m = Group(g, Row(g, Groups))
      BY <2>2, ServiceHasId, GroupHasId
    <2>6. \/ n.id = <<"svc", q.host>> /\ ~(IsCollected(h) /\ n = Group(h, Row(h, Groups)))
          \/ n.id = <<"grp", h.key>> /\ IsCollected(h) /\ n = Group(h, Row(h, Groups))
      BY <2>4, ServiceHasId, GroupHasId
    <2>7. CASE r.host = q.host /\ m.id = <<"svc", r.host>> /\ n.id = <<"svc", q.host>>
      <3>1. r = q
        BY <2>1, <2>3, <2>7, VisibleRoutesAre DEF AreDrawable
      <3>2. g = h
        BY <2>1, <2>3, <3>1, GroupsAre DEF AreBuckets
      <3>3. IsExpanded(g) => IsCollected(g)
        BY DEF IsExpanded
      <3>4. ~(IsCollected(g) /\ m = Group(g, Row(g, Groups)))
            /\ ~(IsCollected(g) /\ n = Group(g, Row(g, Groups)))
        BY <2>5, <2>6, <2>7, <3>2
      <3> QED BY <2>2, <2>4, <3>1, <3>2, <3>3, <3>4
    <2>8. CASE g.key = h.key /\ m = Group(g, Row(g, Groups)) /\ n = Group(h, Row(h, Groups))
      <3>1. g = h
        BY <2>1, <2>3, <2>8, GroupsAre DEF AreBuckets
      <3> QED BY <2>8, <3>1
    <2>9. \/ r.host = q.host /\ m.id = <<"svc", r.host>> /\ n.id = <<"svc", q.host>>
          \/ g.key = h.key /\ m = Group(g, Row(g, Groups)) /\ n = Group(h, Row(h, Groups))
      BY <2>5, <2>6
    <2> QED BY <2>7, <2>8, <2>9
  <1> QED BY <1>1, <1>2

LEMMA OnceFollows == ASSUME DiagramTypeOK PROVE EveryHostOnce
  <1> DEFINE opened == {n \in Routed : n.id[1] = "grp" /\ n.id[2] \in expandedGroups}
             leaves == Routed \ opened
             IsOnly(n, r) == n \in leaves /\ \A m \in leaves : r.host \in m.shows <=> m = n
  <1>1. ASSUME EffectiveMode = "none", NEW r \in VisibleRoutes PROVE \E n : IsOnly(n, r)
    <2> DEFINE row(q) == Position(q, VisibleRoutes, ReportedAt[topology])
               n == Service(r, 3, row(r))
    <2>1. n \in Routed
      BY <1>1, StackIs
    <2>2. n.id = <<"svc", r.host>> /\ n.shows = {r.host}
      BY ServiceHasId
    <2> HIDE DEF n
    <2>3. n \in leaves /\ r.host \in n.shows
      BY <2>1, <2>2
    <2>4. ASSUME NEW m \in Routed, r.host \in m.shows PROVE m = n
      <3>1. PICK q \in VisibleRoutes : m = Service(q, 3, row(q))
        BY <1>1, StackIs
      <3>2. m.shows = {q.host}
        BY <3>1, ServiceHasId
      <3>3. q.host = r.host
        BY <2>4, <3>2
      <3>4. q = r
        BY <3>3, VisibleRoutesAre DEF AreDrawable
      <3> QED BY <3>1, <3>4 DEF n
    <2> QED BY <2>3, <2>4
  <1>2. ASSUME EffectiveMode # "none", NEW r \in VisibleRoutes PROVE \E n : IsOnly(n, r)
    <2>1. PICK g \in Groups : r \in g.members
      BY GroupsAre DEF AreBuckets
    <2> DEFINE lone  == Service(r, 3, Row(g, Groups))
               group == Group(g, Row(g, Groups))
               child == Service(r, 4, Row(g, Groups) + Position(r, g.members, Rank))
    <2>2. \A m \in Routed : r.host \in m.shows =>
              \/ ~IsCollected(g) /\ m = lone
              \/ IsCollected(g) /\ m = group
              \/ IsExpanded(g) /\ m = child
      BY <1>2, <2>1, ShownByItsGroup
    <2>3. /\ lone.id = <<"svc", r.host>> /\ r.host \in lone.shows
          /\ child.id = <<"svc", r.host>> /\ r.host \in child.shows
          /\ group.id = <<"grp", g.key>> /\ r.host \in group.shows
      BY <2>1, ServiceHasId, GroupHasId
    <2>4. /\ ~IsCollected(g) => lone \in Routed
          /\ IsCollected(g) => group \in Routed
          /\ IsExpanded(g) => child \in Routed
      BY <1>2, <2>1, RoutedIs DEF IsLone, IsGroup, IsChild
    <2>5. IsExpanded(g) <=> IsCollected(g) /\ g.key \in expandedGroups
      BY DEF IsExpanded
    <2> HIDE DEF lone, group, child
    <2>6. CASE ~IsCollected(g)
      <3>1. lone \in leaves
        BY <2>3, <2>4, <2>6
      <3>2. IsOnly(lone, r)
        BY <2>2, <2>3, <2>5, <2>6, <3>1
      <3> HIDE DEF IsOnly
      <3> QED BY <3>2
    <2>7. CASE IsCollected(g) /\ ~IsExpanded(g)
      <3>1. group \in leaves
        BY <2>3, <2>4, <2>5, <2>7
      <3>2. IsOnly(group, r)
        BY <2>2, <2>3, <2>5, <2>7, <3>1
      <3> HIDE DEF IsOnly
      <3> QED BY <3>2
    <2>8. CASE IsExpanded(g)
      <3>1. child \in leaves /\ group \notin leaves
        BY <2>3, <2>4, <2>5, <2>8
      <3>2. IsOnly(child, r)
        BY <2>2, <2>3, <2>5, <2>8, <3>1
      <3> HIDE DEF IsOnly
      <3> QED BY <3>2
    <2> HIDE DEF IsOnly
    <2> QED BY <2>5, <2>6, <2>7, <2>8
  <1>3. ASSUME NEW r \in VisibleRoutes
        PROVE  \E n \in leaves : {m \in leaves : r.host \in m.shows} = {n}
    <2>1. PICK n : IsOnly(n, r)
      <3> HIDE DEF IsOnly
      <3> QED BY <1>1, <1>2
    <2> HIDE DEF leaves
    <2> QED BY <2>1
  <1>4. \A m, n \in Routed : m.id = n.id => m = n
    BY IdsDiffer
  <1> QED BY <1>3, <1>4 DEF EveryHostOnce

\* The nodes of a group are within its rows.
LEMMA RowsWithin ==
    ASSUME DiagramTypeOK, NEW g \in Groups, NEW n,
           IsLone(n, g, Groups) \/ IsGroup(n, g, Groups) \/ IsChild(n, g, Groups),
           Row(g, Groups) \in Nat
    PROVE  n.row \in Nat /\ Row(g, Groups) <= n.row /\ n.row < Row(g, Groups) + Height(g)
  <1>1. IsFiniteSet(g.members) /\ AreDrawable(g.members)
    BY GroupsAre
  <1>2. Height(g) \in Nat /\ Height(g) >= 1 /\ Cardinality(g.members) \in Nat
        /\ (IsExpanded(g) => Height(g) = Cardinality(g.members))
    BY <1>1, HeightIs
  <1>3. CASE IsLone(n, g, Groups)
    <2>1. PICK r \in g.members : n = Service(r, 3, Row(g, Groups))
      BY <1>3 DEF IsLone
    <2>2. n.row = Row(g, Groups)
      BY <2>1, ServiceHasId
    <2> QED BY <1>2, <2>2
  <1>4. CASE IsGroup(n, g, Groups)
    <2>1. n.row = Row(g, Groups)
      BY <1>4, GroupHasId DEF IsGroup
    <2> QED BY <1>2, <2>1
  <1>5. CASE IsChild(n, g, Groups)
    <2>1. PICK r \in g.members :
              n = Service(r, 4, Row(g, Groups) + Position(r, g.members, Rank))
      BY <1>5 DEF IsChild
    <2>2. n.row = Row(g, Groups) + Position(r, g.members, Rank)
      BY <2>1, ServiceHasId
    <2>3. Position(r, g.members, Rank) \in 0 .. (Cardinality(g.members) - 1)
      BY <1>1, NamesHavePlaces, PositionsDiffer
    <2> QED BY <1>2, <1>5, <2>2, <2>3 DEF IsChild
  <1> QED BY <1>3, <1>4, <1>5

LEMMA OverlapFollows == ASSUME DiagramTypeOK PROVE NothingOverlaps
  <1> SUFFICES ASSUME NEW m \in Routed, NEW n \in Routed, m.col = n.col, m.row = n.row
               PROVE  m = n
    BY DEF NothingOverlaps
  <1>1. CASE EffectiveMode = "none"
    <2> DEFINE row(p) == Position(p, VisibleRoutes, ReportedAt[topology])
    <2>1. PICK r \in VisibleRoutes : m = Service(r, 3, row(r))
      BY <1>1, StackIs
    <2>2. PICK q \in VisibleRoutes : n = Service(q, 3, row(q))
      BY <1>1, StackIs
    <2>3. row(r) = row(q)
      BY <2>1, <2>2, ServiceHasId
    <2>4. r = q
      BY <2>3, StackPositions
    <2> QED BY <2>1, <2>2, <2>4
  <1>2. CASE EffectiveMode # "none"
    <2>1. PICK g \in Groups :
              IsLone(m, g, Groups) \/ IsGroup(m, g, Groups) \/ IsChild(m, g, Groups)
      BY <1>2, RoutedIs
    <2>2. PICK h \in Groups :
              IsLone(n, h, Groups) \/ IsGroup(n, h, Groups) \/ IsChild(n, h, Groups)
      BY <1>2, RoutedIs
    <2>3. AreBuckets(Groups, VisibleRoutes) /\ IsFiniteSet(VisibleRoutes)
      BY GroupsAre, VisibleRoutesAre DEF AreDrawable
    <2>4. CASE GroupBefore(g, h)
      <3>1. /\ Row(g, Groups) \in Nat /\ Row(h, Groups) \in Nat
            /\ Row(g, Groups) + Height(g) <= Row(h, Groups)
        BY <2>3, <2>4, RowsAreApart
      <3>2. m.row \in Nat /\ m.row < Row(g, Groups) + Height(g)
        BY <2>1, <3>1, RowsWithin
      <3>3. n.row \in Nat /\ Row(h, Groups) <= n.row
        BY <2>2, <3>1, RowsWithin
      <3>4. Height(g) \in Nat
        BY GroupsAre, HeightIs
      <3> QED BY <3>1, <3>2, <3>3, <3>4
    <2>5. CASE GroupBefore(h, g)
      <3>1. /\ Row(h, Groups) \in Nat /\ Row(g, Groups) \in Nat
            /\ Row(h, Groups) + Height(h) <= Row(g, Groups)
        BY <2>3, <2>5, RowsAreApart
      <3>2. n.row \in Nat /\ n.row < Row(h, Groups) + Height(h)
        BY <2>2, <3>1, RowsWithin
      <3>3. m.row \in Nat /\ Row(g, Groups) <= m.row
        BY <2>1, <3>1, RowsWithin
      <3>4. Height(h) \in Nat
        BY GroupsAre, HeightIs
      <3> QED BY <3>1, <3>2, <3>3, <3>4
    <2>6. CASE g = h
      <3>1. m.col = 4 <=> IsChild(m, g, Groups)
        BY <2>1, ColumnIs
      <3>2. n.col = 4 <=> IsChild(n, g, Groups)
        BY <2>2, <2>6, ColumnIs
      <3>3. CASE IsChild(m, g, Groups) /\ IsChild(n, g, Groups)
        <4>1. PICK r \in g.members :
                  m = Service(r, 4, Row(g, Groups) + Position(r, g.members, Rank))
          BY <3>3 DEF IsChild
        <4>2. PICK q \in g.members :
                  n = Service(q, 4, Row(g, Groups) + Position(q, g.members, Rank))
          BY <3>3 DEF IsChild
        <4>3. Row(g, Groups) + Position(r, g.members, Rank)
                  = Row(g, Groups) + Position(q, g.members, Rank)
          BY <4>1, <4>2, ServiceHasId
        <4>4. /\ Position(r, g.members, Rank) \in 0 .. (Cardinality(g.members) - 1)
              /\ Position(q, g.members, Rank) \in 0 .. (Cardinality(g.members) - 1)
              /\ Position(r, g.members, Rank) = Position(q, g.members, Rank) => r = q
          BY GroupsAre, NamesHavePlaces, PositionsDiffer
        <4>5. Row(g, Groups) \in Nat
          BY <2>3, RowIsNat
        <4>6. Cardinality(g.members) \in Nat
          BY GroupsAre, FS_CardinalityType
        <4>7. Position(r, g.members, Rank) = Position(q, g.members, Rank)
          BY <4>3, <4>4, <4>5, <4>6
        <4> QED BY <4>1, <4>2, <4>4, <4>7
      <3>4. CASE ~IsChild(m, g, Groups) /\ ~IsChild(n, g, Groups)
        <4>1. CASE IsLone(m, g, Groups) /\ IsLone(n, g, Groups)
          <5>1. PICK r \in g.members : m = Service(r, 3, Row(g, Groups))
            BY <4>1 DEF IsLone
          <5>2. PICK q \in g.members : n = Service(q, 3, Row(g, Groups))
            BY <4>1 DEF IsLone
          <5>3. r = q
            BY <4>1, GroupsAre, LoneIsAlone DEF IsLone
          <5> QED BY <5>1, <5>2, <5>3
        <4>2. CASE IsGroup(m, g, Groups) /\ IsGroup(n, g, Groups)
          BY <4>2 DEF IsGroup
        <4> QED BY <2>1, <2>2, <2>6, <3>4, <4>1, <4>2 DEF IsLone, IsGroup
      <3> QED BY <3>1, <3>2, <3>3, <3>4
    <2> QED BY <2>3, <2>4, <2>5, <2>6, GroupsAreOrdered
  <1> QED BY <1>1, <1>2

\* What the edges to a node need: handles, and for the hosts of a group its node.
LEMMA NodesAttach ==
    ASSUME DiagramTypeOK, NEW n \in Routed
    PROVE  /\ "target" \in n.body.handles
           /\ n.id[1] = "grp" => "source" \in n.body.handles
           /\ n.col = 4 => \E g \in Routed : g.id[1] = "grp" /\ n.shows \subseteq g.shows
  <1>1. CASE EffectiveMode = "none"
    <2> DEFINE row(p) == Position(p, VisibleRoutes, ReportedAt[topology])
    <2>1. PICK r \in VisibleRoutes : n = Service(r, 3, row(r))
      BY <1>1, StackIs
    <2> HIDE DEF row
    <2>2. AsService(n, r, 3, row(r))
      BY <2>1, ServiceIs
    <2> QED BY <2>2 DEF AsService, ServiceNode
  <1>2. CASE EffectiveMode # "none"
    <2>1. PICK g \in Groups :
              IsLone(n, g, Groups) \/ IsGroup(n, g, Groups) \/ IsChild(n, g, Groups)
      BY <1>2, RoutedIs
    <2>2. CASE IsLone(n, g, Groups)
      <3>1. PICK r \in g.members : n = Service(r, 3, Row(g, Groups))
        BY <2>2 DEF IsLone
      <3>2. AsService(n, r, 3, Row(g, Groups))
        BY <3>1, ServiceIs
      <3> QED BY <3>2 DEF AsService, ServiceNode
    <2>3. CASE IsGroup(n, g, Groups)
      <3>1. AsGroup(n, g, Row(g, Groups))
        BY <2>3, GroupIs DEF IsGroup
      <3> QED BY <3>1 DEF AsGroup, GroupNode
    <2>4. CASE IsChild(n, g, Groups)
      <3>1. PICK r \in g.members :
                n = Service(r, 4, Row(g, Groups) + Position(r, g.members, Rank))
        BY <2>4 DEF IsChild
      <3>2. AsService(n, r, 4, Row(g, Groups) + Position(r, g.members, Rank))
        BY <3>1, ServiceIs
      <3> DEFINE group == Group(g, Row(g, Groups))
      <3>3. group \in Routed
        BY <1>2, <2>4, RoutedIs DEF IsChild, IsGroup, IsExpanded
      <3>4. group.id[1] = "grp" /\ group.shows = {q.host : q \in g.members}
        BY GroupHasId
      <3> HIDE DEF group
      <3>5. n.shows \subseteq group.shows /\ n.id[1] = "svc" /\ "target" \in n.body.handles
        BY <3>2, <3>4 DEF AsService, ServiceNode
      <3> QED BY <3>3, <3>4, <3>5
    <2> QED BY <2>1, <2>2, <2>3, <2>4
  <1> QED BY <1>1, <1>2

LEMMA EdgesFollow == ASSUME DiagramTypeOK PROVE EdgesAttach
  <1> DEFINE groups(n) == {g \in Routed : g.id[1] = "grp" /\ n.shows \subseteq g.shows}
             from(n) == IF n.col = 4 THEN {g.id : g \in groups(n)} ELSE {Fixed("bun-https")}
             withHandle(h) ==
                 {n.id : n \in {n \in Routed : h \in n.body.handles}} \cup
                 {Fixed(name) : name \in {name \in Infra :
                     h \in (IF name = "traefik" THEN TraefikNode ELSE InfraNode).handles}}
             infra == {<<Fixed(e[1]), Fixed(e[2])>> : e \in InfraEdges}
  <1>1. FlowEdges = infra \cup UNION {from(n) \X {n.id} : n \in Routed}
    BY DEF FlowEdges
  <1>2. \A name \in Infra :
            Fixed(name) \in withHandle("source") /\ Fixed(name) \in withHandle("target")
    BY DEF TraefikNode, InfraNode
  <1>3. /\ \A n \in Routed : "target" \in n.body.handles => n.id \in withHandle("target")
        /\ \A n \in Routed : "source" \in n.body.handles => n.id \in withHandle("source")
    OBVIOUS
  <1>4. \A e \in infra : e[1] \in withHandle("source") /\ e[2] \in withHandle("target")
    <2>1. \A e \in InfraEdges : e[1] \in Infra /\ e[2] \in Infra
      BY DEF InfraEdges, Infra
    <2> HIDE DEF withHandle
    <2> QED BY <1>2, <2>1
  <1>5. Fixed("bun-https") \in withHandle("source")
    <2> HIDE DEF withHandle
    <2> QED BY <1>2 DEF Infra
  <1>6. ASSUME NEW n \in Routed
        PROVE  /\ \A id \in from(n) : id \in withHandle("source")
               /\ n.id \in withHandle("target")
               /\ from(n) # {}
    <2>1. \A g \in groups(n) : g.id \in withHandle("source")
      <3> HIDE DEF withHandle
      <3> QED BY <1>3, NodesAttach
    <2>2. n.id \in withHandle("target")
      <3> HIDE DEF withHandle
      <3> QED BY <1>3, NodesAttach
    <2>3. n.col = 4 => groups(n) # {}
      BY NodesAttach
    <2> HIDE DEF withHandle, groups
    <2> QED BY <1>5, <2>1, <2>2, <2>3
  <1> HIDE DEF withHandle, from, infra
  <1>7. \A e \in FlowEdges : e[1] \in withHandle("source") /\ e[2] \in withHandle("target")
    BY <1>1, <1>4, <1>6
  <1>8. \A n \in Routed : \E e \in FlowEdges : e[2] = n.id
    <2> TAKE n \in Routed
    <2>1. PICK id : id \in from(n)
      BY <1>6
    <2>2. <<id, n.id>> \in FlowEdges
      BY <1>1, <2>1
    <2> QED BY <2>2
  <1> USE DEF withHandle
  <1> QED BY <1>7, <1>8 DEF EdgesAttach

-----------------------------------------------------------------------------
(* The diagram: what is invariant *)

DiagramInv == DiagramTypeOK /\ ExpandedKeysFitMode

\* The key of a group is a key of the grouping in use.
LEMMA KeysFit ==
    ASSUME DiagramInv, NEW n \in Routed, n.id[1] = "grp"
    PROVE  n.id[2] \in KeysOf(groupingMode)
  <1>1. EffectiveMode # "none"
    <2> SUFFICES ASSUME EffectiveMode = "none" PROVE FALSE
      OBVIOUS
    <2> DEFINE row(p) == Position(p, VisibleRoutes, ReportedAt[topology])
    <2>1. PICK r \in VisibleRoutes : n = Service(r, 3, row(r))
      BY StackIs
    <2> QED BY <2>1, ServiceHasId
  <1>2. EffectiveMode = groupingMode /\ groupingMode \in Modes
    BY <1>1 DEF EffectiveMode, DiagramInv, DiagramTypeOK
  <1>3. PICK g \in Groups : IsGroup(n, g, Groups)
    <2>1. PICK g \in Groups :
              IsLone(n, g, Groups) \/ IsGroup(n, g, Groups) \/ IsChild(n, g, Groups)
      BY <1>1, RoutedIs
    <2> QED BY <2>1, ColumnIs
  <1>4. n.id[2] = g.key
    BY <1>3, GroupHasId DEF IsGroup
  <1>5. \/ \E r \in VisibleRoutes : g.key = GroupKey(r, groupingMode)
        \/ g.key = Other /\ groupingMode = "prefix"
    BY <1>2, KeysOfBuckets DEF Groups
  <1>6. ASSUME NEW r \in VisibleRoutes
        PROVE  /\ r.host \in Hostnames
               /\ r.source \in UNION {{t.routes[i].source : i \in DOMAIN t.routes} :
                                         t \in Topologies}
    <2>1. topology \in Topologies /\ r \in UniqueRoutes(topology.routes)
      BY VisibleRoutesAre, TopologyIs DEF AllRoutes, DiagramInv, DiagramTypeOK
    <2>2. \E i \in DOMAIN topology.routes : r = topology.routes[i]
      BY <2>1, TopologyIs, UniqueRoutesAre
    <2>3. r.host \in Hostnames
      BY VisibleRoutesAre DEF AreDrawable, DiagramRoute, DiagramInv
    <2> QED BY <2>1, <2>2, <2>3
  <1>7. CASE groupingMode = "domain"
    BY <1>4, <1>5, <1>6, <1>7 DEF GroupKey, KeysOf
  <1>8. CASE groupingMode = "prefix"
    BY <1>4, <1>5, <1>6, <1>8 DEF GroupKey, KeysOf
  <1>9. CASE groupingMode = "source"
    BY <1>4, <1>5, <1>6, <1>9 DEF GroupKey, KeysOf
  <1> QED BY <1>1, <1>2, <1>7, <1>8, <1>9 DEF Modes
LEMMA RenderKeepsType ==
    ASSUME RenderDiagram, DiagramTypeOK PROVE dropping' \subseteq {"source", "health"}
BY DEF RenderDiagram, DiagramTypeOK, Unmatched

LEMMA DiagramInvStarts == ASSUME DiagramInit PROVE DiagramInv
  <1>1. storage = [grouping |-> groupingMode, match |-> matchMode]
        /\ groupingMode \in Modes /\ matchMode \in {"hide", "spotlight"}
    BY DEF DiagramInit
  <1> QED BY <1>1 DEF DiagramInit, DiagramInv, DiagramTypeOK, ExpandedKeysFitMode

LEMMA DiagramInvStays == ASSUME DiagramInv, [DiagramNext]_diagramVars PROVE DiagramInv'
  <1>1. /\ topology \in Topologies /\ stats \in Reports /\ groupingMode \in Modes
        /\ search \in DOMAIN Found \cup {Unset}
        /\ source \in Chips \cup {Unset} /\ health \in HealthStates \cup {Unset}
        /\ matchMode \in {"hide", "spotlight"}
        /\ storage = [grouping |-> groupingMode, match |-> matchMode]
        /\ dropping \subseteq {"source", "health"}
        /\ expandedGroups \subseteq KeysOf(groupingMode)
    BY DEF DiagramInv, DiagramTypeOK, ExpandedKeysFitMode
  <1> DEFINE Inv == /\ topology \in Topologies /\ stats \in Reports /\ groupingMode \in Modes
                    /\ search \in DOMAIN Found \cup {Unset}
                    /\ source \in Chips \cup {Unset} /\ health \in HealthStates \cup {Unset}
                    /\ matchMode \in {"hide", "spotlight"}
                    /\ storage = [grouping |-> groupingMode, match |-> matchMode]
                    /\ dropping \subseteq {"source", "health"}
                    /\ expandedGroups \subseteq KeysOf(groupingMode)
  <1> SUFFICES Inv'
    BY DEF DiagramInv, DiagramTypeOK, ExpandedKeysFitMode
  <1>2. RenderDiagram => dropping' \subseteq {"source", "health"}
    BY RenderKeepsType DEF DiagramInv
  <1>3. CASE ReceiveTopology
    BY <1>1, <1>2, <1>3 DEF ReceiveTopology
  <1>4. CASE ReceiveStats
    BY <1>1, <1>2, <1>4 DEF ReceiveStats
  <1>5. CASE SetGroupingMode
    <2>1. PICK mode \in Modes :
              /\ groupingMode' = mode /\ StoreGrouping(mode) /\ CollapseAll
              /\ UNCHANGED <<topology, stats, search, source, health, matchMode>>
              /\ RenderDiagram
      BY <1>5 DEF SetGroupingMode
    <2>2. storage' = [grouping |-> mode, match |-> matchMode]
      BY <1>1, <2>1 DEF StoreGrouping
    <2> QED BY <1>1, <1>2, <2>1, <2>2 DEF CollapseAll
  <1>6. CASE SetMatchMode
    <2>1. PICK mode \in {"hide", "spotlight"} :
              /\ matchMode' = mode /\ storage' = [storage EXCEPT !.match = mode]
              /\ UNCHANGED <<topology, stats, groupingMode, expandedGroups, search, source,
                             health>>
              /\ RenderDiagram
      BY <1>6 DEF SetMatchMode
    <2>2. storage' = [grouping |-> groupingMode, match |-> mode]
      BY <1>1, <2>1
    <2> QED BY <1>1, <1>2, <2>1, <2>2
  <1>7. CASE SetSearch
    BY <1>1, <1>2, <1>7 DEF SetSearch
  <1>8. CASE ToggleSource
    BY <1>1, <1>2, <1>8 DEF ToggleSource, Toggled
  <1>9. CASE ToggleHealth
    BY <1>1, <1>2, <1>9 DEF ToggleHealth, Toggled
  <1>10. CASE ClearFilters
    BY <1>1, <1>2, <1>10 DEF ClearFilters
  <1>11. CASE ClickGroup
    <2>1. PICK node \in Routed :
              /\ node.id[1] = "grp"
              /\ expandedGroups' = IF node.id[2] \in expandedGroups
                                   THEN expandedGroups \ {node.id[2]}
                                   ELSE expandedGroups \cup {node.id[2]}
              /\ UNCHANGED <<topology, stats, groupingMode, search, source, health, matchMode,
                             storage>>
              /\ RenderDiagram
      BY <1>11 DEF ClickGroup
    <2>2. node.id[2] \in KeysOf(groupingMode)
      BY <2>1, KeysFit
    <2> QED BY <1>1, <1>2, <2>1, <2>2
  <1>12. CASE RunEffects
    BY <1>1, <1>12 DEF RunEffects, Unmatched
  <1>13. CASE Remount
    BY <1>1, <1>13 DEF Remount
  <1>14. CASE UNCHANGED diagramVars
    BY <1>1, <1>14 DEF diagramVars
  <1> QED BY <1>3, <1>4, <1>5, <1>6, <1>7, <1>8, <1>9, <1>10, <1>11, <1>12, <1>13, <1>14
          DEF DiagramNext

\* The modes are those of the storage and the expanded keys those of the mode.
LEMMA DiagramInvHolds == DiagramSpec => []DiagramInv
  <1>1. DiagramInit => DiagramInv
    BY DiagramInvStarts
  <1>2. DiagramInv /\ [DiagramNext]_diagramVars => DiagramInv'
    BY DiagramInvStays
  <1> QED BY <1>1, <1>2, PTL DEF DiagramSpec

\* Whatever arrives and whatever is clicked, every visible host is drawn once, nothing on
\* top of another, and every edge ends at handles (useFlowLayout.ts:154-316).
THEOREM LayoutStaysSound == DiagramSpec => []LayoutIsSound
  <1>1. DiagramInv => LayoutIsSound
    BY OnceFollows, OverlapFollows, EdgesFollow DEF DiagramInv, LayoutIsSound
  <1> QED BY <1>1, DiagramInvHolds, PTL
-----------------------------------------------------------------------------
(* The diagram: filters *)

\* What a node stands for: one route or the routes of a group, all visible.
StandsFor(n, M) ==
    /\ M # {} /\ M \subseteq VisibleRoutes
    /\ n.shows = {r.host : r \in M} /\ n.dimmed = Dimmed(M)
    /\ \/ n.body = GroupNode(AggregateStats(M))
       \/ \E r : M = {r} /\ n.body = ServiceNode(stats[r.host])

LEMMA ServiceStandsFor ==
    ASSUME NEW n, NEW r \in VisibleRoutes, NEW col, NEW row, n = Service(r, col, row)
    PROVE  StandsFor(n, {r})
  <1>1. AsService(n, r, col, row)
    BY ServiceIs
  <1>2. {q.host : q \in {r}} = {r.host}
    OBVIOUS
  <1> QED BY <1>1, <1>2 DEF AsService, StandsFor

LEMMA NodesStandFor ==
    ASSUME DiagramTypeOK, NEW n \in Routed
    PROVE  \E M : StandsFor(n, M)
  <1>1. CASE EffectiveMode = "none"
    BY <1>1, StackIs, ServiceStandsFor
  <1>2. CASE EffectiveMode # "none"
    <2>1. PICK g \in Groups :
              IsLone(n, g, Groups) \/ IsGroup(n, g, Groups) \/ IsChild(n, g, Groups)
      BY <1>2, RoutedIs
    <2>2. g.members # {} /\ g.members \subseteq VisibleRoutes
      BY GroupsAre DEF AreBuckets
    <2>3. CASE IsLone(n, g, Groups)
      BY <2>2, <2>3, ServiceStandsFor DEF IsLone
    <2>4. CASE IsGroup(n, g, Groups)
      <3>1. AsGroup(n, g, Row(g, Groups))
        BY <2>4, GroupIs DEF IsGroup
      <3>2. StandsFor(n, g.members)
        BY <2>2, <3>1 DEF AsGroup, StandsFor
      <3> QED BY <3>2
    <2>5. CASE IsChild(n, g, Groups)
      BY <2>2, <2>5, ServiceStandsFor DEF IsChild
    <2> QED BY <2>1, <2>3, <2>4, <2>5
  <1> QED BY <1>1, <1>2

\* What is drawn is what is visible.
LEMMA ShownIsVisible ==
    ASSUME DiagramTypeOK
    PROVE  /\ \A r \in VisibleRoutes : \E n \in Routed : r.host \in n.shows
           /\ UNION {n.shows : n \in Routed} = {r.host : r \in VisibleRoutes}
  <1>1. \A r \in VisibleRoutes : \E n \in Routed : r.host \in n.shows
    <2> TAKE r \in VisibleRoutes
    <2> DEFINE leaves ==
                   Routed \ {n \in Routed : n.id[1] = "grp" /\ n.id[2] \in expandedGroups}
    <2>1. \E n \in leaves : {m \in leaves : r.host \in m.shows} = {n}
      BY OnceFollows DEF EveryHostOnce
    <2>2. leaves \subseteq Routed
      OBVIOUS
    <2> HIDE DEF leaves
    <2> QED BY <2>1, <2>2
  <1>2. \A n \in Routed : n.shows \subseteq {r.host : r \in VisibleRoutes}
    BY NodesStandFor DEF StandsFor
  <1> QED BY <1>1, <1>2

LEMMA FiltersFollow == ASSUME DiagramTypeOK PROVE FiltersAreHonest
  <1>1. NothingHiddenForGood
    <2> SUFFICES ASSUME ~CanClear
                 PROVE  {topology.routes[i].host : i \in DOMAIN topology.routes}
                            = UNION {n.shows : n \in Routed}
      BY DEF NothingHiddenForGood
    <2>1. VisibleRoutes = AllRoutes
      BY DEF VisibleRoutes, Filtering, CanClear
    <2> QED BY <2>1, ShownIsVisible, VisibleRoutesAre
  <1>2. ASSUME Filtering, NEW r \in AllRoutes, MatchesRoute(r)
        PROVE  \E n \in Routed : ~n.dimmed /\ r.host \in n.shows
    <2>1. r \in VisibleRoutes
      BY <1>2 DEF VisibleRoutes
    <2>2. PICK n \in Routed : r.host \in n.shows
      BY <2>1, ShownIsVisible
    <2>3. PICK M : StandsFor(n, M)
      BY NodesStandFor
    <2>4. r \in M
      BY <2>1, <2>2, <2>3, VisibleRoutesAre DEF StandsFor, AreDrawable
    <2>5. ~Dimmed(M)
      BY <1>2, <2>4 DEF Dimmed
    <2> QED BY <2>2, <2>3, <2>5 DEF StandsFor
  <1>3. ASSUME Filtering, NEW n \in Routed, ~n.dimmed
        PROVE  \E r \in AllRoutes : MatchesRoute(r) /\ r.host \in n.shows
    <2>1. PICK M : StandsFor(n, M)
      BY NodesStandFor
    <2>2. M # {} /\ M \subseteq VisibleRoutes /\ n.shows = {r.host : r \in M} /\ ~Dimmed(M)
      BY <1>3, <2>1 DEF StandsFor
    <2>3. VisibleRoutes \subseteq AllRoutes /\ matchMode \in {"hide", "spotlight"}
      BY VisibleRoutesAre DEF DiagramTypeOK
    <2>4. CASE matchMode = "hide"
      BY <1>3, <2>2, <2>3, <2>4 DEF VisibleRoutes
    <2>5. CASE matchMode = "spotlight"
      BY <1>3, <2>2, <2>3, <2>5 DEF Dimmed
    <2> QED BY <2>3, <2>4, <2>5
  <1>4. MatchesStandOut
    <2> SUFFICES ASSUME Filtering
                 PROVE  LET lit == {n \in Routed : ~n.dimmed}
                            matching == {r.host : r \in {r \in AllRoutes : MatchesRoute(r)}}
                        IN  /\ matching \subseteq UNION {n.shows : n \in lit}
                            /\ \A n \in lit : n.shows \cap matching # {}
      BY DEF MatchesStandOut
    <2> QED BY <1>2, <1>3
  <1> QED BY <1>1, <1>4 DEF FiltersAreHonest

\* No filter hides a host that clearing would not bring back, and with one what is lit is
\* what matches (useFlowLayout.ts:205-217, 241).
THEOREM FiltersStayHonest == DiagramSpec => []FiltersAreHonest
  <1>1. DiagramInv => FiltersAreHonest
    BY FiltersFollow DEF DiagramInv
  <1> QED BY <1>1, DiagramInvHolds, PTL
-----------------------------------------------------------------------------
(* The diagram: the health of groups *)

\* HealthOf compares twice and ten times the errors with the requests, of which it
\* counts one at least.
IsSick(factor, stat) == factor * stat.errors > (IF stat.total = 0 THEN 1 ELSE stat.total)

LEMMA HealthIs ==
    ASSUME NEW stat \in [total: Nat, errors: Nat]
    PROVE  /\ HealthOf(stat) = IF IsSick(2, stat) THEN "error"
                               ELSE IF IsSick(10, stat) THEN "warning" ELSE "healthy"
           /\ IsSick(2, stat) => IsSick(10, stat)
  <1>1. stat # NoStats
    BY DiagramAssumption
  <1>2. stat.errors \in Nat /\ stat.total \in Nat
    OBVIOUS
  <1>3. IsSick(2, stat) => IsSick(10, stat)
    BY <1>2 DEF IsSick
  <1> QED BY <1>1, <1>3 DEF HealthOf, IsSick

\* When all are sick so are they together, and when none is neither are they.
LEMMA SickTogether ==
    ASSUME NEW S, IsFiniteSet(S), S # {}, NEW stat,
           \A a \in S : stat[a] \in [total: Nat, errors: Nat], NEW factor \in {2, 10},
           NEW all, all = [total  |-> Total([a \in S |-> stat[a].total], S),
                           errors |-> Total([a \in S |-> stat[a].errors], S)]
    PROVE  /\ (\A a \in S : IsSick(factor, stat[a])) => IsSick(factor, all)
           /\ (\A a \in S : ~IsSick(factor, stat[a])) => ~IsSick(factor, all)
           /\ all \in [total: Nat, errors: Nat]
  <1> DEFINE total  == [a \in S |-> stat[a].total]
             errors == [a \in S |-> stat[a].errors]
             times  == [a \in S |-> factor * errors[a]]
  <1>1. \A a \in S : total[a] \in Nat /\ errors[a] \in Nat
    OBVIOUS
  <1>2. \A a \in S : total[a] = stat[a].total /\ errors[a] = stat[a].errors
    OBVIOUS
  <1>3. all.total = Total(total, S) /\ all.errors = Total(errors, S)
        /\ all = [total |-> Total(total, S), errors |-> Total(errors, S)]
    OBVIOUS
  <1>4. \A a \in S : times[a] = factor * errors[a]
    OBVIOUS
  <1> HIDE DEF total, errors
  <1>5. \A a \in S : times[a] \in Nat /\ times[a] # 1
    <2> TAKE a \in S
    <2>1. errors[a] \in Nat /\ times[a] = factor * errors[a] /\ factor \in {2, 10}
      BY <1>1, <1>4
    <2> HIDE DEF times
    <2>2. times[a] = 2 * errors[a] \/ times[a] = 10 * errors[a]
      BY <2>1
    <2> QED BY ONLY <2>1, <2>2
  <1>6. Total(times, S) = factor * Total(errors, S)
    <2>1. CASE factor = 2
      BY <1>1, <2>1, TotalTwice
    <2>2. CASE factor = 10
      BY <1>1, <2>2, TotalTenTimes
    <2> QED BY <2>1, <2>2
  <1> HIDE DEF times
  <1>7. Total(total, S) \in Nat /\ Total(errors, S) \in Nat /\ Total(times, S) \in Nat
    BY <1>1, <1>5, UnitsAreFinite
  <1>8. IsSick(factor, all) <=>
            Total(times, S) > (IF Total(total, S) = 0 THEN 1 ELSE Total(total, S))
    BY <1>3, <1>6 DEF IsSick
  <1>9. \A a \in S : IsSick(factor, stat[a]) <=>
                         times[a] > (IF total[a] = 0 THEN 1 ELSE total[a])
    BY <1>2, <1>4 DEF IsSick
  <1>10. ASSUME \A a \in S : IsSick(factor, stat[a]) PROVE IsSick(factor, all)
    <2>1. PICK k \in S : TRUE
      OBVIOUS
    <2> DEFINE more == [a \in S |-> IF a = k THEN total[a] + 1 ELSE total[a]]
    <2>2. \A a \in S : more[a] = IF a = k THEN total[a] + 1 ELSE total[a]
      OBVIOUS
    <2> HIDE DEF more
    <2>3. \A a \in S : more[a] \in Nat /\ times[a] \in Nat /\ more[a] <= times[a]
      BY <1>1, <1>5, <1>9, <1>10, <2>2
    <2>4. Total(more, S) = Total(total, S) + 1
      BY <1>1, <2>2, TotalGrows
    <2>5. Total(more, S) <= Total(times, S)
      BY <2>3, TotalMonotonic
    <2>6. times[k] > 1 /\ times[k] \in Nat
      <3>1. times[k] > (IF total[k] = 0 THEN 1 ELSE total[k])
        BY <1>9, <1>10
      <3>2. times[k] \in Nat /\ times[k] # 1 /\ total[k] \in Nat
        BY <1>1, <1>5
      <3> QED BY ONLY <3>1, <3>2
    <2>7. Total(times, {}) + times[k] <= Total(times, S)
      BY <1>5, TotalOfMore
    <2>8. Total(times, {}) \in Nat
      BY FS_EmptySet, UnitsAreFinite
    <2> QED BY <1>7, <1>8, <2>4, <2>5, <2>6, <2>7, <2>8
  <1>11. ASSUME \A a \in S : ~IsSick(factor, stat[a]) PROVE ~IsSick(factor, all)
    <2>1. \A a \in S : times[a] \in Nat /\ total[a] \in Nat /\ times[a] <= total[a]
      BY <1>1, <1>5, <1>9, <1>11
    <2>2. Total(times, S) <= Total(total, S)
      BY <2>1, TotalMonotonic
    <2> QED BY <1>7, <1>8, <2>2
  <1> QED BY <1>3, <1>7, <1>10, <1>11

\* The health of a group lies between those of its hosts that had requests.
LEMMA GroupHealthIs ==
    ASSUME DiagramTypeOK, NEW M, M \subseteq VisibleRoutes, NEW known,
           known = {r \in M : stats[r.host] # NoStats}
    PROVE  /\ known = {} => HealthOf(AggregateStats(M)) = "idle"
           /\ known # {} =>
                 /\ \E r \in known : Severity[HealthOf(stats[r.host])]
                                         <= Severity[HealthOf(AggregateStats(M))]
                 /\ \E r \in known : Severity[HealthOf(AggregateStats(M))]
                                         <= Severity[HealthOf(stats[r.host])]
  <1>1. known = {} => HealthOf(AggregateStats(M)) = "idle"
    BY DEF AggregateStats, HealthOf
  <1>2. ASSUME known # {}
        PROVE  /\ \E r \in known : Severity[HealthOf(stats[r.host])]
                                         <= Severity[HealthOf(AggregateStats(M))]
               /\ \E r \in known : Severity[HealthOf(AggregateStats(M))]
                                         <= Severity[HealthOf(stats[r.host])]
    <2> DEFINE stat == [r \in known |-> stats[r.host]]
               all  == AggregateStats(M)
    <2>1. IsFiniteSet(known)
      BY VisibleRoutesAre, FS_Subset DEF AreDrawable
    <2>2. \A r \in known : stat[r] = stats[r.host] /\ stat[r] \in [total: Nat, errors: Nat]
      <3>1. \A r \in known : r.host \in Hostnames /\ stats[r.host] # NoStats
        BY VisibleRoutesAre DEF AreDrawable, DiagramRoute
      <3>2. stats \in [Hostnames -> {NoStats} \cup [total: Nat, errors: Nat]]
        BY DiagramAssumption DEF DiagramTypeOK
      <3> QED BY <3>1, <3>2
    <2>3. all = [total  |-> Total([r \in known |-> stats[r.host].total], known),
                 errors |-> Total([r \in known |-> stats[r.host].errors], known)]
      BY <1>2 DEF AggregateStats
    <2>4. /\ [r \in known |-> stats[r.host].total] = [r \in known |-> stat[r].total]
          /\ [r \in known |-> stats[r.host].errors] = [r \in known |-> stat[r].errors]
      OBVIOUS
    <2>5. all = [total  |-> Total([r \in known |-> stat[r].total], known),
                 errors |-> Total([r \in known |-> stat[r].errors], known)]
      BY <2>3, <2>4
    <2> HIDE DEF stat, all
    <2>6. /\ (\A r \in known : IsSick(2, stat[r])) => IsSick(2, all)
          /\ (\A r \in known : ~IsSick(2, stat[r])) => ~IsSick(2, all)
          /\ (\A r \in known : IsSick(10, stat[r])) => IsSick(10, all)
          /\ (\A r \in known : ~IsSick(10, stat[r])) => ~IsSick(10, all)
          /\ all \in [total: Nat, errors: Nat]
      BY <1>2, <2>1, <2>2, <2>5, SickTogether
    <2> DEFINE level(s) == IF IsSick(2, s) THEN 3 ELSE IF IsSick(10, s) THEN 2 ELSE 1
    <2>7. ASSUME NEW s \in [total: Nat, errors: Nat]
          PROVE  Severity[HealthOf(s)] = level(s) /\ (IsSick(2, s) => IsSick(10, s))
      BY HealthIs DEF Severity
    <2>8. \E r \in known : level(stat[r]) <= level(all)
      <3>1. \A r \in known : IsSick(2, stat[r]) => IsSick(10, stat[r])
        BY <2>2, <2>7
      <3> QED BY <1>2, <2>6, <3>1
    <2>9. \E r \in known : level(all) <= level(stat[r])
      BY <1>2, <2>6
    <2>10. \A r \in known : Severity[HealthOf(stats[r.host])] = level(stat[r])
      BY <2>2, <2>7
    <2>11. Severity[HealthOf(AggregateStats(M))] = level(all)
      BY <2>6, <2>7 DEF all
    <2> HIDE DEF level
    <2> QED BY <2>8, <2>9, <2>10, <2>11
  <1> QED BY <1>1, <1>2
LEMMA GroupHealthFollows == ASSUME DiagramTypeOK PROVE GroupHealthIsBetween
  <1> SUFFICES ASSUME NEW n \in Routed
               PROVE  LET known == {Severity[HealthOf(stats[h])] : h \in n.shows}
                                       \ {Severity["idle"]}
                          looks == Severity[n.body.health]
                      IN  IF known = {} THEN n.body.health = "idle"
                          ELSE (\E k \in known : k <= looks) /\ (\E k \in known : looks <= k)
    BY DEF GroupHealthIsBetween
  <1> DEFINE severity(stat) == Severity[HealthOf(stat)]
             known == {severity(stats[h]) : h \in n.shows} \ {Severity["idle"]}
             looks == Severity[n.body.health]
  <1>1. PICK M : StandsFor(n, M)
    BY NodesStandFor
  <1>2. M # {} /\ M \subseteq VisibleRoutes /\ n.shows = {r.host : r \in M}
    BY <1>1 DEF StandsFor
  <1> DEFINE K == {r \in M : stats[r.host] # NoStats}
  <1>3. \A r \in M : stats[r.host] \in {NoStats} \cup [total: Nat, errors: Nat]
    <2>1. \A r \in M : r.host \in Hostnames
      BY <1>2, VisibleRoutesAre DEF AreDrawable, DiagramRoute
    <2>2. stats \in [Hostnames -> {NoStats} \cup [total: Nat, errors: Nat]]
      BY DiagramAssumption DEF DiagramTypeOK
    <2> QED BY <2>1, <2>2
  <1>4. Severity["idle"] = 0 /\ HealthOf(NoStats) = "idle"
    BY DEF Severity, HealthOf
  <1>5. ASSUME NEW stat \in [total: Nat, errors: Nat] PROVE severity(stat) \in 1 .. 3
    BY HealthIs DEF Severity
  <1>6. \A r \in M : IF r \in K THEN severity(stats[r.host]) \in 1 .. 3
                     ELSE severity(stats[r.host]) = 0 /\ HealthOf(stats[r.host]) = "idle"
    <2> HIDE DEF severity
    <2>1. severity(NoStats) = 0
      BY <1>4 DEF severity
    <2> QED BY <1>3, <1>4, <1>5, <2>1
  <1>7. \A r \in K : severity(stats[r.host]) \in known
    <2> HIDE DEF severity
    <2> QED BY <1>2, <1>4, <1>6
  <1>8. K = {} => known = {}
    <2> HIDE DEF severity
    <2> QED BY <1>2, <1>4, <1>6
  <1>9. IF known = {} THEN n.body.health = "idle"
        ELSE (\E k \in known : k <= looks) /\ (\E k \in known : looks <= k)
    <2>1. CASE n.body = GroupNode(AggregateStats(M))
      <3>1. n.body.health = HealthOf(AggregateStats(M))
        BY <2>1 DEF GroupNode
      <3>2. CASE K = {}
        BY <1>2, <1>8, <3>1, <3>2, GroupHealthIs
      <3>3. CASE K # {}
        <4>1. /\ \E r \in K : severity(stats[r.host]) <= looks
              /\ \E r \in K : looks <= severity(stats[r.host])
          BY <1>2, <3>1, <3>3, GroupHealthIs
        <4> HIDE DEF severity, looks, known
        <4> QED BY <1>7, <4>1
      <3> QED BY <3>2, <3>3
    <2>2. ASSUME NEW r, M = {r}, n.body = ServiceNode(stats[r.host])
          PROVE  IF known = {} THEN n.body.health = "idle"
                 ELSE (\E k \in known : k <= looks) /\ (\E k \in known : looks <= k)
      <3>1. n.body.health = HealthOf(stats[r.host]) /\ looks = severity(stats[r.host])
        BY <2>2 DEF ServiceNode
      <3> HIDE DEF severity, looks, known
      <3>2. CASE r \in K
        <4>1. looks \in known /\ looks \in 1 .. 3
          BY <1>6, <1>7, <2>2, <3>1, <3>2
        <4> QED BY <4>1
      <3>3. CASE r \notin K
        <4>1. n.body.health = "idle" /\ K = {}
          BY <1>6, <2>2, <3>1, <3>3
        <4> QED BY <1>8, <4>1
      <3> QED BY <3>2, <3>3
    <2> QED BY <1>1, <2>1, <2>2 DEF StandsFor
  <1> QED BY <1>9

\* A group looks neither worse than the worst of its hosts nor better than the best
\* (grouping.ts:103-133, health.ts:5-11).
THEOREM GroupHealthStaysBetween == DiagramSpec => []GroupHealthIsBetween
  <1>1. DiagramInv => GroupHealthIsBetween
    BY GroupHealthFollows DEF DiagramInv
  <1> QED BY <1>1, DiagramInvHolds, PTL

-----------------------------------------------------------------------------
(* The diagram: the order of the report *)

LEMMA OrderMovesNothing ==
    ASSUME AllRoutes' = AllRoutes, EffectiveMode # "none",
           UNCHANGED <<stats, groupingMode, expandedGroups, search, source, health, matchMode>>
    PROVE  Routed' = Routed
  <1>1. /\ stats' = stats /\ groupingMode' = groupingMode /\ expandedGroups' = expandedGroups
        /\ search' = search /\ source' = source /\ health' = health /\ matchMode' = matchMode
    OBVIOUS
  <1>2. EffectiveMode' = EffectiveMode /\ ToolbarActive' = ToolbarActive
    BY <1>1 DEF EffectiveMode, ToolbarActive
  <1>3. Filtering' = Filtering
    BY <1>1, <1>2 DEF Filtering, IsFilterActive
  <1>4. \A r : MatchesRoute(r)' = MatchesRoute(r)
    BY <1>1 DEF MatchesRoute
  <1>5. VisibleRoutes' = VisibleRoutes
    BY <1>1, <1>3, <1>4 DEF VisibleRoutes
  <1>6. \A M : Dimmed(M)' = Dimmed(M)
    BY <1>1, <1>3, <1>4 DEF Dimmed
  <1>7. \A r, col, row : Service(r, col, row)' = Service(r, col, row)
    BY <1>1, <1>6 DEF Service
  <1>8. \A M : AggregateStats(M)' = AggregateStats(M)
    BY <1>1 DEF AggregateStats
  <1>9. \A g, row : Group(g, row)' = Group(g, row)
    BY <1>6, <1>8 DEF Group
  <1>10. \A g : IsExpanded(g)' = IsExpanded(g)
    BY <1>1 DEF IsExpanded
  <1>11. \A g : Height(g)' = Height(g)
    BY <1>10 DEF Height
  <1>12. \A g, G : Row(g, G)' = Row(g, G)
    BY <1>11 DEF Row
  <1>13. \A g, row : DrawnGroup(g, row)' = DrawnGroup(g, row)
    BY <1>7, <1>9, <1>10 DEF DrawnGroup
  <1>14. Buckets(VisibleRoutes, EffectiveMode)' = Buckets(VisibleRoutes, EffectiveMode)
    BY <1>2, <1>5
  <1> QED BY <1>2, <1>12, <1>13, <1>14 DEF Routed

\* A poll with the same routes in another order moves nothing in a grouped diagram
\* (grouping.ts:88-98).
THEOREM OrderNeverMatters == DiagramSpec => OrderDoesNotMatter
  <1>1. [/\ AllRoutes' = AllRoutes /\ EffectiveMode # "none"
         /\ UNCHANGED <<stats, groupingMode, expandedGroups, search, source, health,
                        matchMode>>
         => Routed' = Routed]_diagramVars
    BY OrderMovesNothing
  <1> QED BY <1>1, PTL DEF OrderDoesNotMatter
=============================================================================
