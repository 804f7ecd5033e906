----------------------------- MODULE Aggregator -----------------------------
(***************************************************************************)
(* internal/aggregator/aggregator.go: the latest message of every provider *)
(* merged into one configuration, delivered over a channel of capacity 1.  *)
(*                                                                         *)
(* Update holds the mutex while it stores the message, merges, and sends.  *)
(* The send must not block: when the channel is full the old value is      *)
(* drained first.  The consumer receives without the mutex, so it can take *)
(* the old value between the two selects.                                  *)
(*                                                                         *)
(* A configuration is the function from providers to the version that is   *)
(* merged into it.  merge walks the map in a random order; the order of    *)
(* the merged routes is not told apart here.                               *)
(***************************************************************************)
EXTENDS Naturals, Sequences

CONSTANTS
    Updaters,    \* goroutines that call Update
    Providers,
    Versions,
    NoUpdater,   \* the value of `holder` when the mutex is free
    MaxUpdates   \* bound of the model: no call of Update after so many

ASSUME UpdatersAssumption == NoUpdater \notin Updaters
ASSUME VersionsAssumption == Versions \subseteq Nat \ {0}
ASSUME BoundAssumption    == MaxUpdates \in Nat
ASSUME SomeMessage        == Providers # {} /\ Versions # {}

VARIABLES
    configs,     \* a.configs
    holder,      \* who holds a.mu
    outputCh,    \* a.outputCh, capacity 1
    pc,          \* control point of every updater
    msg,         \* the argument of its Update
    merged,      \* the configuration its Update has merged
    accepted,    \* history: the configurations in the order they were merged
    received     \* the last configuration the consumer took

vars == <<configs, holder, outputCh, pc, msg, merged, accepted, received>>

Messages == [provider: Providers, version: Versions]
Nothing  == [p \in Providers |-> 0]
Config   == [Providers -> Versions \cup {0}]
\* A merged configuration; stamp is its place in the history.
Snapshot == [stamp: Nat, cfg: Config]
Empty    == [stamp |-> 0, cfg |-> Nothing]
Capacity == 1

Init ==
    /\ configs = Nothing
    /\ holder = NoUpdater
    /\ outputCh = <<>>
    /\ pc = [u \in Updaters |-> "idle"]
    /\ msg = [u \in Updaters |-> CHOOSE m \in Messages : TRUE]
    /\ merged = [u \in Updaters |-> Empty]
    /\ accepted = <<>>
    /\ received = Empty

\* Update is called ...
Call(u, m) ==
    /\ pc[u] = "idle"
    /\ Len(accepted) < MaxUpdates
    /\ pc' = [pc EXCEPT ![u] = "lock"]
    /\ msg' = [msg EXCEPT ![u] = m]
    /\ UNCHANGED <<configs, holder, outputCh, merged, accepted, received>>

\* The provider's slot is replaced as a whole: a.configs[msg.ProviderName] = msg.
Stored(m)      == [configs EXCEPT ![m.provider] = m.version]

\* a.mu.Lock()
NoMutex == TRUE                                              \* mutant
Free    == holder = NoUpdater

\* ... takes the mutex, stores the message and merges.
Lock(u) ==
    /\ pc[u] = "lock"
    /\ Free
    /\ holder' = u
    /\ configs' = Stored(msg[u])
    /\ merged' = [merged EXCEPT ![u] = [stamp |-> Len(accepted) + 1, cfg |-> configs']]
    /\ accepted' = Append(accepted, configs')
    /\ pc' = [pc EXCEPT ![u] = "offer"]
    /\ UNCHANGED <<outputCh, msg, received>>

\* What the two selects decide.
HasRoom    == Len(outputCh) < Capacity
DropNewest == "unlock"                                       \* mutant: give up when full
WhenFull   == "drain"
NoDrain    == outputCh                                       \* mutant: the old value stays
Drained    == IF outputCh = <<>> THEN outputCh ELSE Tail(outputCh)

\* The first select: send if there is room, else go and drain.
Offer(u) ==
    /\ pc[u] = "offer"
    /\ IF HasRoom
       THEN /\ outputCh' = Append(outputCh, merged[u])
            /\ pc' = [pc EXCEPT ![u] = "unlock"]
       ELSE /\ pc' = [pc EXCEPT ![u] = WhenFull]
            /\ UNCHANGED outputCh
    /\ UNCHANGED <<configs, holder, msg, merged, accepted, received>>

\* The second select: take the old value, unless the consumer was faster.
Drain(u) ==
    /\ pc[u] = "drain"
    /\ outputCh' = Drained
    /\ pc' = [pc EXCEPT ![u] = "send"]
    /\ UNCHANGED <<configs, holder, msg, merged, accepted, received>>

\* The send after the drain: a plain channel send, which waits for room.
Send(u) ==
    /\ pc[u] = "send"
    /\ Len(outputCh) < Capacity
    /\ outputCh' = Append(outputCh, merged[u])
    /\ pc' = [pc EXCEPT ![u] = "unlock"]
    /\ UNCHANGED <<configs, holder, msg, merged, accepted, received>>

\* The deferred unlock, and Update returns.
Unlock(u) ==
    /\ pc[u] = "unlock"
    /\ holder' = NoUpdater
    /\ pc' = [pc EXCEPT ![u] = "idle"]
    /\ UNCHANGED <<configs, outputCh, msg, merged, accepted, received>>

\* The consumer takes the value in the channel.
Receive ==
    /\ outputCh # <<>>
    /\ received' = Head(outputCh)
    /\ outputCh' = Tail(outputCh)
    /\ UNCHANGED <<configs, holder, pc, msg, merged, accepted>>

UpdateStep(u) == Lock(u) \/ Offer(u) \/ Drain(u) \/ Send(u) \/ Unlock(u)

Next ==
    \/ \E u \in Updaters : UpdateStep(u) \/ \E m \in Messages : Call(u, m)
    \/ Receive

Spec == Init /\ [][Next]_vars

\* Goroutines are scheduled, and a Go mutex hands over to a waiter in the end.
\* Nothing obliges anyone to call Update.
UpdaterFairness == \A u \in Updaters : SF_vars(Lock(u)) /\ WF_vars(UpdateStep(u))

\* Nothing is asked of the consumer either: it may stop receiving.
FairSpec == Spec /\ UpdaterFairness

-----------------------------------------------------------------------------
(* Properties. *)

\* Every variable keeps its type.
TypeOK ==
    /\ configs \in Config
    /\ holder \in Updaters \cup {NoUpdater}
    /\ outputCh \in Seq(Snapshot) /\ Len(outputCh) <= Capacity
    /\ pc \in [Updaters -> {"idle", "lock", "offer", "drain", "send", "unlock"}]
    /\ msg \in [Updaters -> Messages]
    /\ merged \in [Updaters -> Snapshot]
    /\ accepted \in Seq(Config)
    /\ received \in Snapshot

\* "Non-blocking send": the send that follows the drain finds room, whatever the
\* consumer does meanwhile, so no one waits for the consumer with the mutex held.
SendFindsRoom == \A u \in Updaters : pc[u] = "send" => outputCh = <<>>

\* "Always deliver latest config": when nobody is inside Update, the latest
\* configuration is in the channel, or the consumer already has it.
LatestIsOffered ==
    holder = NoUpdater =>
        IF outputCh = <<>>
        THEN received.stamp = Len(accepted)
        ELSE outputCh[1].stamp = Len(accepted)

\* The aggregator implements the log: configurations reach the consumer in the
\* order of their acceptance, each as it was accepted, and the latest in the
\* end if the consumer keeps receiving.
Log == INSTANCE ConfigLog WITH
          log <- accepted, seen <- received.stamp, applied <- received.cfg
RefinesConfigLog == Log!SafeSpec /\ (WF_vars(Receive) => Log!Fairness)
=============================================================================
