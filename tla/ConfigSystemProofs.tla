------------------------- MODULE ConfigSystemProofs -------------------------
(***************************************************************************)
(* Proofs about ConfigPipeline, for any number of versions, any capacity   *)
(* of configCh and any messages that are rejected, and about ConfigSystem. *)
(*                                                                         *)
(* main and the first watcher use the aggregator as it is meant to be      *)
(* used, so that what is proved of Aggregator holds in the pipeline; on    *)
(* top of it, everything in use is an entry of the log of accepted         *)
(* configurations, and all entries are clean.                              *)
(*                                                                         *)
(* With the file provider and the listeners attached the pipeline is still *)
(* ConfigPipeline, so that what is proved of that holds in the system, and *)
(* the two goroutines that start listeners between them open every port,   *)
(* for any ports and files.                                                *)
(***************************************************************************)
EXTENDS ConfigSystem, TLAPS

AP == INSTANCE AggregatorProofs WITH MaxUpdates <- 2 * MaxVersion

Entry(i) == Log!Entry(accepted, i)

\* A snapshot that is the entry of the log which its stamp names.
Follows(s) == s.stamp <= Len(accepted) /\ s.cfg = Entry(s.stamp)

\* Before Docker discovery starts, only messages of the file are about; main is done
\* with its first Update before anything is applied, and that is not the empty one.
StartupInv ==
    /\ main # "running" =>
          held[Docker] = 0 /\ \A i \in DOMAIN configCh : configCh[i].provider = File
    /\ pc["main"] # "idle" => main = "updating" /\ msg["main"].provider = File
    /\ pc["watcher"] # "idle" => main = "running"
    /\ applier # "idle" => main \in {"applying", "running"}
    /\ main \in {"applying", "running"} => received.stamp >= 1
    /\ main = "running" \/ applier = "tcp" => router.stamp >= 1

\* A configuration without anything of a rejected message.
Clean(c) ==
    /\ c[File] \notin bad
    /\ staticOnly => /\ c[Docker] = 0
                     /\ c[File] \notin dynamic

\* What is accepted is clean and has a routes file.
AcceptedInv == \A i \in 1..Len(accepted) : Clean(accepted[i]) /\ accepted[i][File] # 0

\* No one inside Update brings a rejected message.
ValidInv == \A u \in Updaters : pc[u] # "idle" => ~Rejects(msg[u])

\* What is applied is accepted, and is not ahead of what was received.
AppliedInv ==
    /\ Follows(router) /\ Follows(tcp) /\ router.stamp <= received.stamp
    /\ applier = "tcp" => router = received
    /\ sni \in {{}} \cup {contents[v].passthrough : v \in Versions \ bad}

IInv ==
    /\ TypeOK /\ AP!IInv
    /\ StartupInv /\ AcceptedInv /\ ValidInv /\ AppliedInv /\ TcpMatchesRouter

-----------------------------------------------------------------------------
(* The aggregator inside the pipeline *)

LEMMA Bounds ==
    MaxVersion \in Nat \ {0} /\ ChannelCap \in Nat \ {0} /\ File # Docker
BY PipelineAssumption

\* The pipeline meets the assumptions of the aggregator.
LEMMA Assumptions ==
    /\ NoUpdater \notin Updaters /\ Versions \subseteq Nat \ {0}
    /\ 2 * MaxVersion \in Nat /\ Providers # {} /\ Versions # {}
<1>1. MaxVersion \in Nat \ {0} /\ NoUpdater \notin Updaters
  BY PipelineAssumption
<1>2. 1 \in Versions /\ Versions \subseteq Nat \ {0} /\ 2 * MaxVersion \in Nat
  BY <1>1 DEF Versions
<1> QED BY <1>1, <1>2 DEF Providers

LEMMA SameInit == Agg!Init => AP!IInv
<1>1. Agg!Init => AP!Init
  BY DEF Agg!Init, AP!Init, Agg!Nothing, AP!Nothing, Agg!Empty, AP!Empty, Agg!Messages,
         AP!Messages
<1> QED BY <1>1, AP!InitIInv, Assumptions

LEMMA SameNext == [Agg!Next]_(Agg!vars) => [AP!Next]_(AP!vars)
<1>1. \A u \in Updaters : Agg!UpdateStep(u) => AP!UpdateStep(u)
  BY DEF Agg!UpdateStep, AP!UpdateStep, Agg!Lock, AP!Lock, Agg!Offer, AP!Offer, Agg!Drain,
         AP!Drain, Agg!Send, AP!Send, Agg!Unlock, AP!Unlock, Agg!Free, AP!Free, Agg!Stored,
         AP!Stored, Agg!HasRoom, AP!HasRoom, Agg!Capacity, AP!Capacity, Agg!WhenFull,
         AP!WhenFull, Agg!Drained, AP!Drained
<1>2. \A u \in Updaters, m \in Agg!Messages : Agg!Call(u, m) => AP!Call(u, m)
  BY DEF Agg!Call, AP!Call
<1>3. Agg!Receive => AP!Receive
  BY DEF Agg!Receive, AP!Receive
<1>4. Agg!Messages = AP!Messages
  BY DEF Agg!Messages, AP!Messages
<1>5. Agg!Next => AP!Next
  BY <1>1, <1>2, <1>3, <1>4 DEF Agg!Next, AP!Next
<1> QED BY <1>5 DEF Agg!vars, AP!vars

\* What the pipeline relies on.
LEMMA AggregatorFacts ==
    ASSUME AP!IInv
    PROVE  /\ Agg!TypeOK
           /\ Follows(received)
           /\ configs = Entry(Len(accepted))
           /\ Len(accepted) \in Nat /\ received.stamp \in Nat
           /\ outputCh # <<>> => received.stamp < Head(outputCh).stamp
<1>1. Agg!TypeOK
  BY DEF AP!IInv, AP!TypeOK, Agg!TypeOK, AP!Config, Agg!Config, AP!Snapshot, Agg!Snapshot,
         AP!Messages, Agg!Messages, AP!Capacity, Agg!Capacity
<1>2. Follows(received) /\ configs = Entry(Len(accepted))
  BY DEF AP!IInv, AP!ContentInv, AP!IsEntry, AP!Log!Entry, AP!Log!Nothing, Follows, Entry,
         Log!Entry, Log!Nothing
<1>3. Len(accepted) \in Nat /\ received.stamp \in Nat
  BY <1>1 DEF Agg!TypeOK, Agg!Snapshot
<1>4. outputCh # <<>> => received.stamp < Head(outputCh).stamp
  BY <1>1 DEF AP!IInv, AP!OrderInv, Agg!TypeOK
<1> QED BY <1>1, <1>2, <1>3, <1>4

\* Every step of the pipeline is a step of the aggregator or leaves it alone.
LEMMA StepOfAggregator ==
    ASSUME TypeOK, [Next]_vars PROVE [Agg!Next]_(Agg!vars)
<1> USE DEF aggVars, Agg!vars
<1>1. configCh # <<>> => Head(configCh) \in Agg!Messages
  <2>1. configCh \in Seq(Messages)
    BY DEF TypeOK
  <2>2. configCh # <<>> => Head(configCh) \in Messages
    BY <2>1
  <2> QED BY <2>2 DEF Messages, Agg!Messages
<1>2. CASE TakeInitial
  BY <1>1, <1>2 DEF TakeInitial, Updaters, Agg!Next
<1>3. CASE Forward
  BY <1>1, <1>3 DEF Forward, Updaters, Agg!Next
<1>4. CASE TakeInitialMerged \/ TakeMerged
  BY <1>4 DEF TakeInitialMerged, TakeMerged, Agg!Next
<1>5. CASE AggregatorStep
  BY <1>5 DEF AggregatorStep, Agg!Next
<1>6. CASE ApplyRouter \/ ApplyTcp \/ Signal \/ StopWatcher \/ StopApplier
  BY <1>6 DEF ApplyRouter, ApplyTcp, Signal, StopWatcher, StopApplier
<1>7. ASSUME NEW p \in Providers, Publish(p) \/ SendMessage(p) PROVE UNCHANGED Agg!vars
  BY <1>7 DEF Publish, SendMessage
<1>8. CASE UNCHANGED vars
  BY <1>8 DEF vars
<1> QED BY <1>2, <1>3, <1>4, <1>5, <1>6, <1>7, <1>8 DEF Next

LEMMA AggregatorHolds == ASSUME IInv, [Next]_vars PROVE AP!IInv'
BY StepOfAggregator, SameNext, AP!NextIInv, Assumptions DEF IInv

LEMMA InitHolds == Init => IInv
<1> SUFFICES ASSUME Init PROVE IInv
  OBVIOUS
<1>1. AP!IInv
  BY SameInit DEF Init
<1>2. Agg!TypeOK /\ Agg!Empty \in Agg!Snapshot
  BY <1>1, AggregatorFacts DEF Agg!Empty, Agg!Snapshot, Agg!Nothing, Agg!Config
<1>3. /\ accepted = <<>> /\ received = Agg!Empty /\ Len(accepted) = 0
      /\ \A u \in Updaters : pc[u] = "idle"
  BY DEF Init, Agg!Init
<1>4. TypeOK
  <2>1. published \in [Providers -> 0..MaxVersion] /\ held \in [Providers -> 0..MaxVersion]
    BY Bounds DEF Init
  <2>2. configCh \in Seq(Messages) /\ Len(configCh) <= ChannelCap
    BY Bounds DEF Init
  <2> QED BY <1>2, <2>1, <2>2 DEF Init, TypeOK
<1>5. Follows(Agg!Empty)
  <2>1. Agg!Empty.stamp = 0 /\ Agg!Empty.cfg = Log!Nothing
    BY DEF Agg!Empty, Agg!Nothing, Log!Nothing
  <2> QED BY <1>3, <2>1 DEF Follows, Entry, Log!Entry
<1>6. AppliedInv /\ TcpMatchesRouter
  <2>1. Agg!Empty.stamp <= Agg!Empty.stamp
    BY DEF Agg!Empty
  <2> QED BY <1>3, <1>5, <2>1 DEF Init, AppliedInv, TcpMatchesRouter
<1>7. StartupInv
  BY <1>3 DEF Init, StartupInv, Providers, Updaters
<1>8. AcceptedInv /\ ValidInv
  BY <1>3 DEF AcceptedInv, ValidInv
<1> QED BY <1>1, <1>4, <1>6, <1>7, <1>8 DEF IInv

-----------------------------------------------------------------------------
(* What a step does to the log *)

\* A step adds one configuration to the log, the one that the updater holding a message
\* has just stored, or leaves the log alone; what is received moves on or stays.
LEMMA LogSteps ==
    ASSUME IInv, [Next]_vars
    PROVE  /\ \/ accepted' = accepted
              \/ \E u \in Updaters : /\ pc[u] = "lock"
                                     /\ accepted' = Append(accepted, Agg!Stored(msg[u]))
           /\ received' = received \/ received.stamp < received'.stamp
<1>1. [Agg!Next]_(Agg!vars)
  BY StepOfAggregator DEF IInv
<1>2. CASE Agg!Receive
  BY <1>2, AggregatorFacts DEF Agg!Receive, IInv
<1>3. ASSUME NEW u \in Updaters, Agg!Lock(u)
      PROVE  /\ pc[u] = "lock" /\ accepted' = Append(accepted, Agg!Stored(msg[u]))
             /\ received' = received
  BY <1>3 DEF Agg!Lock
<1>4. ASSUME NEW u \in Updaters, \/ Agg!Offer(u) \/ Agg!Drain(u) \/ Agg!Send(u)
                                \/ Agg!Unlock(u) \/ \E m \in Agg!Messages : Agg!Call(u, m)
      PROVE  accepted' = accepted /\ received' = received
  BY <1>4 DEF Agg!Offer, Agg!Drain, Agg!Send, Agg!Unlock, Agg!Call
<1>5. CASE UNCHANGED Agg!vars
  BY <1>5 DEF Agg!vars
<1> QED BY <1>1, <1>2, <1>3, <1>4, <1>5 DEF Agg!Next, Agg!UpdateStep

\* What was in the log stays where it was.
LEMMA EntriesStay ==
    ASSUME IInv, [Next]_vars
    PROVE  /\ Len(accepted') \in Nat /\ Len(accepted) <= Len(accepted')
           /\ \A i \in 0..Len(accepted) : Entry(i)' = Entry(i)
<1>1. accepted \in Seq(Agg!Config)
  BY AggregatorFacts DEF IInv, Agg!TypeOK
<1>2. CASE accepted' = accepted
  BY <1>1, <1>2 DEF Entry, Log!Entry
<1>3. ASSUME NEW c, accepted' = Append(accepted, c)
      PROVE  /\ Len(accepted') = Len(accepted) + 1
             /\ \A i \in 0..Len(accepted) : Entry(i)' = Entry(i)
  BY <1>1, <1>3 DEF Entry, Log!Entry
<1>4. Len(accepted) \in Nat
  BY <1>1
<1> QED BY <1>2, <1>3, <1>4, LogSteps

\* The mode of the process and what the versions of the file say are given.
LEMMA GivensStay ==
    ASSUME [Next]_vars
    PROVE  /\ staticOnly' = staticOnly /\ contents' = contents
           /\ bad' = bad /\ dynamic' = dynamic
<1> USE DEF givens, bad, dynamic
<1>1. ASSUME NEW p \in Providers, Publish(p) \/ SendMessage(p) PROVE UNCHANGED givens
  BY <1>1 DEF Publish, SendMessage
<1>2. Next => UNCHANGED givens
  BY <1>1 DEF Next, TakeInitial, TakeInitialMerged, Forward, AggregatorStep, TakeMerged,
              ApplyRouter, ApplyTcp, Signal, StopWatcher, StopApplier
<1> QED BY <1>2 DEF vars

-----------------------------------------------------------------------------
(* Only what passes validation gets in *)

LEMMA ValidHolds == ASSUME IInv, [Next]_vars PROVE ValidInv'
<1> SUFFICES ASSUME NEW u \in Updaters, pc'[u] # "idle" PROVE ~Rejects(msg[u])'
  BY DEF ValidInv
<1>1. \A m : Rejects(m)' <=> Rejects(m)
  BY GivensStay DEF Rejects
<1>2. pc \in [Updaters -> {"idle", "lock", "offer", "drain", "send", "unlock"}]
      /\ msg \in [Updaters -> Agg!Messages]
  BY AggregatorFacts DEF IInv, Agg!TypeOK
<1>3. CASE pc'[u] = pc[u] /\ msg'[u] = msg[u]
  BY <1>1, <1>3 DEF IInv, ValidInv
<1>4. CASE TakeInitial
  <2>1. CASE Rejects(Head(configCh))
    BY <1>3, <1>4, <2>1 DEF TakeInitial, aggVars
  <2>2. CASE ~Rejects(Head(configCh)) /\ Agg!Call("main", Head(configCh))
    BY <1>1, <1>2, <1>3, <2>2 DEF Agg!Call
  <2> QED BY <1>4, <2>1, <2>2 DEF TakeInitial
<1>5. CASE Forward
  <2>1. CASE Rejects(Head(configCh))
    BY <1>3, <1>5, <2>1 DEF Forward, aggVars
  <2>2. CASE ~Rejects(Head(configCh)) /\ Agg!Call("watcher", Head(configCh))
    BY <1>1, <1>2, <1>3, <2>2 DEF Agg!Call
  <2> QED BY <1>5, <2>1, <2>2 DEF Forward
<1>6. CASE AggregatorStep
  <2>1. PICK v \in Updaters : Agg!UpdateStep(v)
    BY <1>6 DEF AggregatorStep
  <2>2. msg' = msg /\ pc[v] # "idle" /\ \A x \in Updaters : x # v => pc'[x] = pc[x]
    BY <1>2, <2>1 DEF Agg!UpdateStep, Agg!Lock, Agg!Offer, Agg!Drain, Agg!Send, Agg!Unlock
  <2> QED BY <1>1, <1>3, <2>2 DEF IInv, ValidInv
<1>7. CASE TakeInitialMerged \/ TakeMerged
  BY <1>3, <1>7 DEF TakeInitialMerged, TakeMerged, Agg!Receive
<1>8. CASE ApplyRouter \/ ApplyTcp \/ Signal \/ StopWatcher \/ StopApplier
  BY <1>3, <1>8 DEF ApplyRouter, ApplyTcp, Signal, StopWatcher, StopApplier, aggVars
<1>9. ASSUME NEW p \in Providers, Publish(p) \/ SendMessage(p) PROVE UNCHANGED aggVars
  BY <1>9 DEF Publish, SendMessage
<1>10. CASE UNCHANGED aggVars
  BY <1>3, <1>10 DEF aggVars
<1>11. CASE UNCHANGED vars
  BY <1>10, <1>11 DEF vars
<1> QED BY <1>4, <1>5, <1>6, <1>7, <1>8, <1>9, <1>10, <1>11 DEF Next

\* Every entry of the log is clean, the empty one before the first included.
LEMMA EntriesAreClean ==
    ASSUME IInv, NEW i \in 0..Len(accepted)
    PROVE  /\ Clean(Entry(i)) /\ Entry(i) \in Agg!Config
           /\ i >= 1 => Entry(i)[File] # 0
<1>1. accepted \in Seq(Agg!Config) /\ Len(accepted) \in Nat
  BY AggregatorFacts DEF IInv, Agg!TypeOK
<1>2. CASE i = 0
  <2>1. Entry(i) = [p \in Providers |-> 0]
    BY <1>2 DEF Entry, Log!Entry, Log!Nothing
  <2>2. bad \subseteq Versions /\ dynamic \subseteq Versions
    BY DEF bad, dynamic
  <2>3. 0 \notin bad /\ 0 \notin dynamic
    BY <2>2, Assumptions
  <2> QED BY <1>2, <2>1, <2>3 DEF Clean, Providers, Agg!Config
<1>3. CASE i # 0
  <2>1. i \in 1..Len(accepted) /\ Entry(i) = accepted[i]
    BY <1>1, <1>3 DEF Entry, Log!Entry
  <2> QED BY <1>1, <2>1 DEF IInv, AcceptedInv
<1> QED BY <1>2, <1>3

\* Storing a message that passed validation keeps a configuration clean.
LEMMA StoredIsClean ==
    ASSUME IInv, NEW u \in Updaters, pc[u] = "lock"
    PROVE  Clean(Agg!Stored(msg[u])) /\ Agg!Stored(msg[u])[File] # 0
<1> DEFINE m == msg[u]
<1>1. /\ m \in Agg!Messages /\ m.provider \in {File, Docker} /\ m.version \in Versions
      /\ Len(accepted) \in Nat
  BY AggregatorFacts DEF IInv, Agg!TypeOK, Agg!Messages, Providers
<1>2. /\ Clean(configs) /\ configs \in [Providers -> Versions \cup {0}]
      /\ Len(accepted) >= 1 => configs[File] # 0
  <2>1. configs = Entry(Len(accepted)) /\ Len(accepted) \in 0..Len(accepted)
    BY <1>1, AggregatorFacts DEF IInv
  <2> QED BY <1>1, <2>1, EntriesAreClean DEF Agg!Config
<1>3. ~Rejects(m)
  BY DEF IInv, ValidInv
<1>4. Agg!Stored(m) = [configs EXCEPT ![m.provider] = m.version]
  BY DEF Agg!Stored
<1> HIDE DEF m
<1>5. CASE m.provider = File
  <2>1. /\ Agg!Stored(m)[File] = m.version /\ Agg!Stored(m)[Docker] = configs[Docker]
        /\ m = [provider |-> File, version |-> m.version]
    BY <1>1, <1>2, <1>4, <1>5, Bounds DEF Agg!Messages, Providers
  <2>2. m.version \notin bad /\ (staticOnly => m.version \notin dynamic)
    BY <1>3, <1>5 DEF Rejects
  <2>3. m.version # 0
    BY <1>1, Assumptions
  <2> QED BY <1>2, <2>1, <2>2, <2>3 DEF Clean, m
<1>6. CASE m.provider = Docker
  <2>1. Agg!Stored(m)[File] = configs[File]
    BY <1>1, <1>2, <1>4, <1>6, Bounds DEF Providers
  <2>2. ~staticOnly
    BY <1>3, <1>6, Bounds DEF Rejects
  <2>3. Len(accepted) >= 1
    <3>1. u = "watcher"
      BY <1>6, Bounds DEF IInv, StartupInv, Updaters, m
    <3>2. received.stamp >= 1 /\ received.stamp <= Len(accepted) /\ received.stamp \in Nat
      BY <3>1, AggregatorFacts DEF IInv, StartupInv, Follows
    <3> QED BY <1>1, <3>2
  <2> QED BY <1>2, <2>1, <2>2, <2>3 DEF Clean, m
<1> QED BY <1>1, <1>5, <1>6

LEMMA AcceptedHolds == ASSUME IInv, [Next]_vars PROVE AcceptedInv'
<1>1. \A c : Clean(c)' <=> Clean(c)
  BY GivensStay DEF Clean
<1>2. accepted \in Seq(Agg!Config)
  BY AggregatorFacts DEF IInv, Agg!TypeOK
<1>3. CASE accepted' = accepted
  BY <1>1, <1>3 DEF IInv, AcceptedInv
<1>4. ASSUME NEW u \in Updaters, pc[u] = "lock",
             accepted' = Append(accepted, Agg!Stored(msg[u]))
      PROVE  AcceptedInv'
  <2> DEFINE new == Agg!Stored(msg[u])
  <2>1. Clean(new) /\ new[File] # 0
    BY <1>4, StoredIsClean
  <2> HIDE DEF new
  <2>2. \A i \in 1..Len(accepted') : accepted'[i] = new \/ (i \in 1..Len(accepted)
                                                         /\ accepted'[i] = accepted[i])
    BY <1>2, <1>4 DEF new
  <2>3. \A i \in 1..Len(accepted') : Clean(accepted'[i]) /\ accepted'[i][File] # 0
    BY <2>1, <2>2 DEF IInv, AcceptedInv
  <2> QED BY <1>1, <2>3 DEF AcceptedInv
<1> QED BY <1>3, <1>4, LogSteps

-----------------------------------------------------------------------------
(* The order of startup *)

\* Docker's messages and the applications come in only after what they wait for.
LEMMA StartupHolds == ASSUME IInv, [Next]_vars PROVE StartupInv'
<1> USE Bounds DEF Providers, Updaters
<1>1. /\ pc \in [Updaters -> {"idle", "lock", "offer", "drain", "send", "unlock"}]
      /\ msg \in [Updaters -> Agg!Messages] /\ received.stamp \in Nat
      /\ received'.stamp = received.stamp \/ received'.stamp > received.stamp
      /\ received' = received \/ received'.stamp > received.stamp
      /\ configCh \in Seq(Messages) /\ held \in [Providers -> 0..MaxVersion]
  BY LogSteps, AggregatorFacts DEF IInv, Agg!TypeOK, TypeOK
<1>2. StartupInv
  BY DEF IInv
<1>3. ASSUME NEW p \in Providers, Publish(p) PROVE StartupInv'
  <2>1. /\ UNCHANGED <<aggVars, appVars, configCh, main, applier>>
        /\ p = Docker => main = "running"
        /\ held' = [held EXCEPT ![p] = published'[p]]
    BY <1>3 DEF Publish, Started
  <2>2. main' # "running" => held'[Docker] = 0
    BY <1>1, <1>2, <2>1 DEF StartupInv
  <2> QED BY <1>2, <2>1, <2>2 DEF StartupInv, aggVars, appVars
<1>4. ASSUME NEW p \in Providers, SendMessage(p) PROVE StartupInv'
  <2>1. /\ UNCHANGED <<aggVars, appVars, main, applier>>
        /\ held[p] # 0 /\ held' = [held EXCEPT ![p] = 0]
        /\ configCh' = Append(configCh, [provider |-> p, version |-> held[p]])
    BY <1>4 DEF SendMessage
  <2>2. main # "running" => p = File
    BY <1>2, <2>1 DEF StartupInv
  <2>3. main' # "running" =>
          held'[Docker] = 0 /\ \A i \in DOMAIN configCh' : configCh'[i].provider = File
    BY <1>1, <1>2, <2>1, <2>2 DEF StartupInv
  <2> QED BY <1>2, <2>1, <2>3 DEF StartupInv, aggVars, appVars
<1>5. configCh # <<>> =>
        /\ Head(configCh) = configCh[1] /\ 1 \in DOMAIN configCh
        /\ \A i \in DOMAIN Tail(configCh) :
              i + 1 \in DOMAIN configCh /\ Tail(configCh)[i] = configCh[i + 1]
  BY <1>1
<1>6. CASE TakeInitial
  <2>1. /\ main = "initial" /\ configCh # <<>> /\ configCh' = Tail(configCh)
        /\ UNCHANGED <<held, router, applier>>
    BY <1>6 DEF TakeInitial, provVars, appVars
  <2>2. held'[Docker] = 0 /\ \A i \in DOMAIN configCh' : configCh'[i].provider = File
    BY <1>2, <1>5, <2>1 DEF StartupInv
  <2>3. CASE main' = "failed" /\ UNCHANGED aggVars
    BY <1>2, <2>1, <2>2, <2>3 DEF StartupInv, aggVars
  <2>4. CASE main' = "updating" /\ Agg!Call("main", Head(configCh))
    <3>1. /\ pc' = [pc EXCEPT !["main"] = "lock"] /\ msg' = [msg EXCEPT !["main"] = Head(configCh)]
          /\ received' = received
      BY <2>4 DEF Agg!Call
    <3>2. msg'["main"].provider = File /\ pc'["watcher"] = pc["watcher"]
      BY <1>1, <1>2, <1>5, <2>1, <3>1 DEF StartupInv
    <3> QED BY <1>2, <2>1, <2>2, <2>4, <3>1, <3>2 DEF StartupInv
  <2> QED BY <1>6, <2>3, <2>4 DEF TakeInitial
<1>7. CASE TakeInitialMerged
  <2>1. /\ main = "updating" /\ main' = "applying" /\ pc["main"] = "idle" /\ applier' = "router"
        /\ pc' = pc /\ UNCHANGED <<held, configCh, router>>
    BY <1>7 DEF TakeInitialMerged, provVars, appVars, Agg!Receive
  <2>2. received'.stamp >= 1
    <3>1. received'.stamp > received.stamp /\ received' \in Agg!Snapshot
      BY <1>7, AggregatorFacts DEF TakeInitialMerged, Agg!Receive, IInv, Agg!TypeOK
    <3> QED BY <1>1, <3>1 DEF Agg!Snapshot
  <2> QED BY <1>2, <2>1, <2>2 DEF StartupInv
<1>8. CASE Forward
  <2>1. main = "running" /\ UNCHANGED <<main, applier, router>>
    BY <1>8 DEF Forward, appVars
  <2>2. pc'["main"] = pc["main"] /\ received' = received
    BY <1>1, <1>8 DEF Forward, Agg!Call, aggVars
  <2> QED BY <1>2, <2>1, <2>2 DEF StartupInv
<1>9. CASE AggregatorStep
  <2>1. PICK u \in Updaters : Agg!UpdateStep(u)
    BY <1>9 DEF AggregatorStep
  <2>2. /\ msg' = msg /\ received' = received /\ pc[u] # "idle"
        /\ \A v \in Updaters : v # u => pc'[v] = pc[v]
    BY <1>1, <2>1 DEF Agg!UpdateStep, Agg!Lock, Agg!Offer, Agg!Drain, Agg!Send, Agg!Unlock
  <2>3. UNCHANGED <<held, configCh, main, applier, router>>
    BY <1>9 DEF AggregatorStep, provVars, appVars
  <2>4. \A v \in Updaters : pc'[v] # "idle" => pc[v] # "idle"
    BY <2>2
  <2> QED BY <1>2, <2>2, <2>3, <2>4 DEF StartupInv
<1>10. CASE TakeMerged
  <2>1. main = "running" /\ applier' = "router" /\ pc' = pc /\ UNCHANGED <<main, router>>
    BY <1>10 DEF TakeMerged, appVars, Agg!Receive
  <2>2. received'.stamp >= 1
    <3>1. received'.stamp > received.stamp /\ received' \in Agg!Snapshot
      BY <1>10, AggregatorFacts DEF TakeMerged, Agg!Receive, IInv, Agg!TypeOK
    <3> QED BY <1>1, <3>1 DEF Agg!Snapshot
  <2> QED BY <1>2, <2>1, <2>2 DEF StartupInv
<1>11. CASE ApplyRouter
  <2>1. /\ applier = "router" /\ router' = received
        /\ UNCHANGED <<pc, msg, received, held, configCh, main>>
    BY <1>11 DEF ApplyRouter, NewTable, aggVars, provVars
  <2> QED BY <1>2, <2>1 DEF StartupInv
<1>12. CASE ApplyTcp
  <2>1. /\ applier = "tcp" /\ main' = "running" /\ applier' = "idle"
        /\ UNCHANGED <<pc, msg, received, router>>
    BY <1>12 DEF ApplyTcp, aggVars
  <2> QED BY <1>2, <2>1 DEF StartupInv
<1>13. CASE Signal \/ StopWatcher
  BY <1>2, <1>13 DEF Signal, StopWatcher, StartupInv, aggVars, provVars, appVars
<1>14. CASE StopApplier
  BY <1>2, <1>14 DEF StopApplier, StartupInv, aggVars, provVars, appVars
<1>15. CASE UNCHANGED vars
  BY <1>2, <1>15 DEF vars, StartupInv, aggVars, provVars, appVars
<1> QED BY <1>3, <1>4, <1>6, <1>7, <1>8, <1>9, <1>10, <1>11, <1>12, <1>13, <1>14, <1>15 DEF Next

-----------------------------------------------------------------------------
(* What is applied *)

\* What the router and the TCP routes may become in a step.
LEMMA Applications ==
    ASSUME [Next]_vars
    PROVE  /\ router' = router \/ (applier = "router" /\ router' = received
                                    /\ received' = received /\ accepted' = accepted)
           /\ tcp' = tcp \/ (applier = "tcp" /\ tcp' = received /\ router' = router
                              /\ received' = received /\ accepted' = accepted)
           /\ applier' = "tcp" => \/ applier = "tcp" /\ UNCHANGED <<router, received>>
                                  \/ router' = received /\ received' = received
           /\ sni' = sni \/ (main = "applying" /\ sni' = contents[received.cfg[File]].passthrough)
<1> USE DEF aggVars, appVars, provVars
<1>1. ASSUME NEW p \in Providers, Publish(p) \/ SendMessage(p)
      PROVE  UNCHANGED <<router, tcp, sni, applier, received>>
  BY <1>1 DEF Publish, SendMessage
<1>2. CASE TakeInitial \/ Forward
  BY <1>2 DEF TakeInitial, Forward, Agg!Call
<1>3. CASE TakeInitialMerged \/ TakeMerged
  BY <1>3 DEF TakeInitialMerged, TakeMerged
<1>4. CASE AggregatorStep
  BY <1>4 DEF AggregatorStep, Agg!UpdateStep, Agg!Lock, Agg!Offer, Agg!Drain, Agg!Send, Agg!Unlock
<1>5. CASE ApplyRouter
  BY <1>5 DEF ApplyRouter, NewTable
<1>6. CASE ApplyTcp
  BY <1>6 DEF ApplyTcp, NewTcpRoutes, ListenerTopology
<1>7. CASE Signal \/ StopWatcher \/ StopApplier
  BY <1>7 DEF Signal, StopWatcher, StopApplier
<1>8. CASE UNCHANGED vars
  BY <1>8 DEF vars
<1> QED BY <1>1, <1>2, <1>3, <1>4, <1>5, <1>6, <1>7, <1>8 DEF Next

LEMMA AppliedHolds == ASSUME IInv, [Next]_vars PROVE AppliedInv'
<1>1. /\ Len(accepted) \in Nat /\ Len(accepted') \in Nat /\ Len(accepted) <= Len(accepted')
      /\ \A i \in 0..Len(accepted) : Entry(i)' = Entry(i)
  BY EntriesStay, AggregatorFacts DEF IInv
<1>2. /\ router.stamp \in Nat /\ tcp.stamp \in Nat /\ received.stamp \in Nat
      /\ Follows(received) /\ Follows(router) /\ Follows(tcp)
  BY AggregatorFacts DEF IInv, AppliedInv, TypeOK, Agg!Snapshot
<1>3. \A s : s.stamp \in Nat /\ Follows(s) =>
              s.stamp <= Len(accepted') /\ s.cfg = Log!Entry(accepted', s.stamp)
  BY <1>1 DEF Follows, Entry
<1>4. Follows(router)'
  BY <1>2, <1>3, Applications DEF Follows, Entry
<1>5. Follows(tcp)'
  BY <1>2, <1>3, Applications DEF Follows, Entry
<1>6. router'.stamp <= received'.stamp
  <2>1. received' = received \/ received'.stamp > received.stamp
    BY LogSteps
  <2>2. received'.stamp \in Nat
    BY AggregatorHolds DEF AP!IInv, AP!TypeOK, AP!Snapshot
  <2>3. router.stamp <= received.stamp
    BY DEF IInv, AppliedInv
  <2> QED BY <1>2, <2>1, <2>2, <2>3, Applications
<1>7. applier' = "tcp" => router' = received'
  BY Applications DEF IInv, AppliedInv
<1>8. sni' \in {{}} \cup {contents'[v].passthrough : v \in Versions \ bad'}
  <2>1. CASE sni' = sni
    BY <2>1, GivensStay DEF IInv, AppliedInv
  <2>2. CASE main = "applying" /\ sni' = contents[received.cfg[File]].passthrough
    <3>1. received.stamp \in 0..Len(accepted) /\ received.stamp >= 1
      BY <1>1, <1>2, <2>2 DEF IInv, StartupInv, Follows
    <3>2. /\ received.cfg = Entry(received.stamp) /\ Entry(received.stamp) \in Agg!Config
          /\ Clean(Entry(received.stamp)) /\ Entry(received.stamp)[File] # 0
      BY <1>2, <3>1, EntriesAreClean DEF Follows
    <3>3. received.cfg[File] \in Versions \ bad
      BY <3>2 DEF Agg!Config, Clean, Providers
    <3> QED BY <2>2, <3>3, GivensStay
  <2> QED BY <2>1, <2>2, Applications
<1> QED BY <1>4, <1>5, <1>6, <1>7, <1>8 DEF AppliedInv

LEMMA TcpHolds == ASSUME IInv, [Next]_vars PROVE TcpMatchesRouter'
<1> USE DEF aggVars, appVars, provVars
<1>1. TcpMatchesRouter /\ staticOnly' = staticOnly
  BY GivensStay DEF IInv
<1>2. ASSUME NEW p \in Providers, Publish(p) \/ SendMessage(p)
      PROVE  UNCHANGED <<router, tcp, applier, main>>
  BY <1>2 DEF Publish, SendMessage
<1>3. CASE TakeInitial
  BY <1>1, <1>3 DEF TakeInitial, TcpMatchesRouter
<1>4. CASE TakeInitialMerged \/ TakeMerged
  BY <1>1, <1>4 DEF TakeInitialMerged, TakeMerged, TcpMatchesRouter
<1>5. CASE Forward \/ AggregatorStep
  BY <1>1, <1>5 DEF Forward, AggregatorStep, TcpMatchesRouter
<1>6. CASE ApplyRouter
  BY <1>1, <1>6 DEF ApplyRouter, TcpMatchesRouter
<1>7. CASE ApplyTcp
  BY <1>1, <1>7 DEF ApplyTcp, NewTcpRoutes, TcpMatchesRouter, IInv, AppliedInv
<1>8. CASE Signal \/ StopWatcher \/ StopApplier
  BY <1>1, <1>8 DEF Signal, StopWatcher, StopApplier, TcpMatchesRouter
<1>9. CASE UNCHANGED vars
  BY <1>1, <1>9 DEF vars, TcpMatchesRouter
<1> QED BY <1>1, <1>2, <1>3, <1>4, <1>5, <1>6, <1>7, <1>8, <1>9 DEF Next, TcpMatchesRouter

LEMMA TypeHolds == ASSUME IInv, [Next]_vars PROVE TypeOK'
<1> USE Bounds DEF Providers
<1>1. Agg!TypeOK'
  BY AggregatorHolds DEF AP!IInv, AP!TypeOK, Agg!TypeOK, AP!Config, Agg!Config, AP!Snapshot,
     Agg!Snapshot, AP!Messages, Agg!Messages, AP!Capacity, Agg!Capacity
<1>2. router' \in Agg!Snapshot /\ tcp' \in Agg!Snapshot
  BY Applications, AggregatorFacts DEF IInv, TypeOK, Agg!TypeOK
<1>3. staticOnly' \in BOOLEAN /\ contents' \in FileCases
  BY GivensStay DEF IInv, TypeOK
<1>4. /\ published \in [Providers -> 0..MaxVersion] /\ held \in [Providers -> 0..MaxVersion]
      /\ configCh \in Seq(Messages) /\ Len(configCh) <= ChannelCap
      /\ main \in {"initial", "failed", "updating", "applying", "running"}
      /\ watcher \in {"select", "stopped"}
      /\ applier \in {"idle", "router", "tcp", "stopped"} /\ shutdown \in BOOLEAN
  BY DEF IInv, TypeOK
<1> DEFINE rest == /\ published' \in [Providers -> 0..MaxVersion]
                   /\ held' \in [Providers -> 0..MaxVersion]
                   /\ configCh' \in Seq(Messages) /\ Len(configCh') <= ChannelCap
                   /\ main' \in {"initial", "failed", "updating", "applying", "running"}
                   /\ watcher' \in {"select", "stopped"}
                   /\ applier' \in {"idle", "router", "tcp", "stopped"} /\ shutdown' \in BOOLEAN
<1>5. ASSUME NEW p \in Providers, Publish(p) PROVE rest
  <2>1. published[p] + 1 \in 0..MaxVersion
    BY <1>4, <1>5 DEF Publish
  <2>2. published' \in [Providers -> 0..MaxVersion] /\ held' \in [Providers -> 0..MaxVersion]
    BY <1>4, <1>5, <2>1 DEF Publish
  <2> QED BY <1>4, <1>5, <2>2 DEF Publish
<1>6. ASSUME NEW p \in Providers, SendMessage(p) PROVE rest
  <2>1. [provider |-> p, version |-> held[p]] \in Messages
    <3>1. held[p] \in 1..MaxVersion
      BY <1>4, <1>6 DEF SendMessage
    <3> QED BY <3>1 DEF Messages, Versions
  <2>2. configCh' \in Seq(Messages) /\ Len(configCh') <= ChannelCap
    BY <1>4, <1>6, <2>1 DEF SendMessage, ChannelHasRoom
  <2>3. held' \in [Providers -> 0..MaxVersion]
    BY <1>4, <1>6 DEF SendMessage
  <2> QED BY <1>4, <1>6, <2>2, <2>3 DEF SendMessage
<1>7. configCh # <<>> => Tail(configCh) \in Seq(Messages) /\ Len(Tail(configCh)) <= ChannelCap
  BY <1>4
<1>8. TakeInitial \/ Forward => rest
  BY <1>4, <1>7 DEF TakeInitial, Forward, AfterReject, provVars
<1>9. TakeInitialMerged \/ TakeMerged \/ AggregatorStep => rest
  BY <1>4 DEF TakeInitialMerged, TakeMerged, AggregatorStep, provVars
<1>10. ApplyRouter \/ ApplyTcp => rest
  BY <1>4 DEF ApplyRouter, ApplyTcp, provVars
<1>11. Signal \/ StopWatcher \/ StopApplier => rest
  BY <1>4 DEF Signal, StopWatcher, StopApplier, provVars
<1>12. UNCHANGED vars => rest
  BY <1>4 DEF vars, provVars
<1> HIDE DEF rest
<1>13. rest
  BY <1>5, <1>6, <1>8, <1>9, <1>10, <1>11, <1>12 DEF Next
<1> QED BY <1>1, <1>2, <1>3, <1>13 DEF TypeOK, rest

\* The invariant holds throughout.
THEOREM Invariance == Spec => []IInv
<1>1. IInv /\ [Next]_vars => IInv'
  <2> SUFFICES ASSUME IInv, [Next]_vars PROVE IInv'
    OBVIOUS
  <2> QED BY AggregatorHolds, StartupHolds, ValidHolds, AcceptedHolds, AppliedHolds, TcpHolds,
             TypeHolds DEF IInv
<1> QED BY <1>1, InitHolds, PTL DEF Spec

-----------------------------------------------------------------------------
(* Theorems *)

\* main and the watcher call the aggregator, and receive from it, only in the ways that
\* Aggregator allows: all that is proved of it holds in the pipeline (main.go:94-154).
THEOREM UsesAggregator == Spec => Agg!Spec
<1>1. Init => Agg!Init
  BY DEF Init
<1>2. IInv /\ [Next]_vars => [Agg!Next]_(Agg!vars)
  BY StepOfAggregator DEF IInv
<1> QED BY <1>1, <1>2, Invariance, PTL DEF Spec, Agg!Spec

\* What is served was accepted as a whole, from the file first on, and the TCP routes
\* come from the configuration of the router (main.go:94-154).
THEOREM ServesWhatWasAccepted == Spec => []RunsAsAccepted
<1>1. IInv => RunsAsAccepted
  <2> SUFFICES ASSUME IInv PROVE RunsAsAccepted
    OBVIOUS
  <2>1. /\ Len(accepted) \in 0..Len(accepted) /\ configs = Entry(Len(accepted))
        /\ router.stamp \in 0..Len(accepted) /\ router.cfg = Entry(router.stamp)
        /\ tcp.stamp \in 0..Len(accepted) /\ tcp.cfg = Entry(tcp.stamp)
    BY AggregatorFacts DEF IInv, AppliedInv, Follows, TypeOK, Agg!Snapshot
  <2>2. Clean(configs) /\ Clean(router.cfg) /\ Clean(tcp.cfg)
    BY <2>1, EntriesAreClean
  <2>3. RejectedStaysOut
    BY <2>2 DEF Clean, RejectedStaysOut, IInv, AppliedInv
  <2>4. FileComesFirst
    BY <2>1, EntriesAreClean DEF FileComesFirst, IInv, StartupInv
  <2> QED BY <2>3, <2>4 DEF RunsAsAccepted, IInv
<1> QED BY <1>1, Invariance, PTL

\* The router only ever moves forward in the log of accepted configurations, and holds
\* each as it was accepted (main.go:140-150).
THEOREM RouterImplementsLog == Spec => RouterFollowsLog
<1>1. Init => Log!Init
  BY DEF Init, Agg!Init, Log!Init, Agg!Empty, Agg!Nothing, Log!Nothing
<1>2. IInv /\ [Next]_vars => [Log!Next]_(Log!vars)
  <2> SUFFICES ASSUME IInv, [Next]_vars PROVE [Log!Next]_(Log!vars)
    OBVIOUS
  <2>1. CASE router' = received /\ received' = received /\ accepted' = accepted
    <3>1. /\ Len(accepted) \in Nat /\ router.stamp \in Nat /\ received.stamp \in Nat
          /\ received.stamp <= Len(accepted) /\ received.cfg = Entry(received.stamp)
          /\ router.stamp <= received.stamp /\ router.cfg = Entry(router.stamp)
      BY AggregatorFacts DEF IInv, AppliedInv, Follows, TypeOK, Agg!Snapshot
    <3>2. CASE router.stamp = received.stamp
      BY <2>1, <3>1, <3>2 DEF Log!vars
    <3>3. CASE router.stamp < received.stamp
      <4>1. /\ router'.stamp \in (router.stamp + 1)..Len(accepted)
            /\ router'.cfg = accepted[router'.stamp]
        BY <2>1, <3>1, <3>3 DEF Entry, Log!Entry
      <4> QED BY <2>1, <4>1 DEF Log!Next, Log!Deliver
    <3> QED BY <3>1, <3>2, <3>3
  <2>2. CASE router' = router
    <3>1. ASSUME NEW u \in Updaters, accepted' = Append(accepted, Agg!Stored(msg[u]))
          PROVE  Log!Next
      <4>1. msg[u].provider \in Providers /\ msg[u].version \in Versions
        BY AggregatorFacts DEF IInv, Agg!TypeOK, Agg!Messages
      <4>2. Log!Register(msg[u].provider, msg[u].version)
        BY <2>2, <3>1, AggregatorFacts DEF IInv, Log!Register, Agg!Stored, Entry
      <4> QED BY <4>1, <4>2 DEF Log!Next
    <3>2. CASE accepted' = accepted
      BY <2>2, <3>2 DEF Log!vars
    <3> QED BY <3>1, <3>2, LogSteps
  <2> QED BY <2>1, <2>2, Applications
<1> QED BY <1>1, <1>2, Invariance, PTL DEF Spec, RouterFollowsLog, Log!SafeSpec

-----------------------------------------------------------------------------
(* The system *)

\* What is open is registered, or is about to be by the goroutine that opened it.
ListenersInv ==
    /\ \A s \in Starters : starting[s] # NoPort => starting[s] \in todo[s]
    /\ \A s \in Starters : bound[s] => starting[s] # NoPort
    /\ listening = registered \cup {starting[s] : s \in {x \in Starters : bound[x]}}

\* The ports in use are open, or left for one of the goroutines; neither is given new
\* ports before it is through with the old ones.
PlanInv ==
    /\ staticOnly => listening = {} /\ \A s \in Starters : todo[s] = {}
    /\ main # "running" => \A s \in Starters : todo[s] = {}
    /\ applier \in {"router", "tcp"} => todo["applier"] = {}
    /\ main = "running" /\ ~staticOnly =>
           PortsOf(tcp.cfg) \subseteq todo["main"] \cup todo["applier"] \cup listening

SystemInv == FileTypeOK /\ TcpTypeOK /\ ListenersInv /\ PlanInv

-----------------------------------------------------------------------------
(* The system is the pipeline *)

\* No step of the providers or the listeners does more than a step of the pipeline.
LEMMA StepOfPipeline == [SystemNext]_allVars => [Next]_vars
<1>1. ASSUME PipelineStep PROVE Next
  BY <1>1 DEF PipelineStep, Next, Providers
<1>2. ASSUME SelectApplier PROVE Next
  BY <1>2 DEF SelectApplier, Next
<1>3. ASSUME ApplyTcpRoutes PROVE Next
  BY <1>3 DEF ApplyTcpRoutes, Next
<1>4. ASSUME ProviderStep PROVE Next \/ UNCHANGED vars
  BY <1>4 DEF ProviderStep, FileStep, LoadFile, AddWatch, Reload, StopReader, WriteFile,
              ReplaceFile, Next, Providers
<1>5. ASSUME StartPorts PROVE UNCHANGED vars
  BY <1>5 DEF StartPorts
<1>6. ASSUME UNCHANGED allVars PROVE UNCHANGED vars
  BY <1>6 DEF allVars
<1> QED BY <1>1, <1>2, <1>3, <1>4, <1>5, <1>6 DEF SystemNext

\* The configuration pipeline keeps its promises with its neighbours attached.
THEOREM SystemIsPipeline == SystemSpec => Spec
<1>1. SystemInit => Init
  BY DEF SystemInit
<1> QED BY <1>1, StepOfPipeline, PTL DEF SystemSpec, Spec

\* Nothing that was rejected is applied, and TCP and HTTP follow one configuration, in
\* the whole system (main.go:94-154).
THEOREM SystemServesWhatWasAccepted == SystemSpec => []RunsAsAccepted
BY SystemIsPipeline, ServesWhatWasAccepted, PTL

\* With the file provider and the listeners attached the router still moves forward in
\* the log of accepted configurations (main.go:140-150).
THEOREM SystemImplementsLog == SystemSpec => RouterFollowsLog
BY SystemIsPipeline, RouterImplementsLog, PTL

-----------------------------------------------------------------------------
(* The listeners *)

LEMMA SystemInitHolds == SystemInit => SystemInv
<1> SUFFICES ASSUME SystemInit PROVE SystemInv
  OBVIOUS
<1> USE DEF SystemInit, TcpInit
<1>1. FileTypeOK
  BY DEF FileInit, FileTypeOK
<1>2. TcpTypeOK
  BY DEF TcpTypeOK
<1>3. ListenersInv
  BY DEF ListenersInv
<1>4. PlanInv
  BY DEF PlanInv, Init, Starters
<1> QED BY <1>1, <1>2, <1>3, <1>4 DEF SystemInv

\* The file provider keeps its types.
LEMMA FileTypes == FileTypeOK /\ [SystemNext]_allVars => FileTypeOK'
<1> SUFFICES ASSUME FileTypeOK, [SystemNext]_allVars PROVE FileTypeOK'
  OBVIOUS
<1> USE DEF FileTypeOK
<1>1. CASE UNCHANGED fileVars
  BY <1>1 DEF fileVars
<1>2. CASE FileStep
  BY <1>2 DEF FileStep, LoadFile, AddWatch, Reload, StopReader, WriteFile, ReplaceFile,
              AfterLoad
<1>3. SystemNext => UNCHANGED fileVars \/ FileStep
  BY DEF SystemNext, PipelineStep, SelectApplier, ApplyTcpRoutes, ProviderStep, StartPorts
<1> QED BY <1>1, <1>2, <1>3 DEF allVars

\* The ports of an applied configuration are ports.
LEMMA PortsArePorts ==
    ASSUME IInv PROVE PortsOf(received.cfg) \subseteq Ports
<1>1. received.cfg \in [Providers -> Versions \cup {0}]
  BY AggregatorFacts DEF IInv, Agg!TypeOK, Agg!Snapshot, Agg!Config
<1>2. received.cfg[Docker] \in 0..MaxVersion /\ received.cfg[File] \in Versions \cup {0}
  BY <1>1, Bounds DEF Providers, Versions
<1>3. contents \in [Versions -> Content]
  BY PipelineAssumption DEF IInv, TypeOK
<1>4. \A v \in Versions : contents[v].ports \subseteq Ports
  BY <1>3 DEF Content
<1>5. DockerPorts[received.cfg[Docker]] \subseteq Ports
  BY <1>2, TcpRouterAssumption
<1> QED BY <1>2, <1>4, <1>5 DEF PortsOf

\* A step of a goroutine inside StartPort.
LEMMA TcpStepHolds ==
    ASSUME SystemInv, NEW s \in Starters, TcpStep(s), UNCHANGED vars
    PROVE  TcpTypeOK' /\ ListenersInv' /\ PlanInv'
<1> USE TcpRouterAssumption
<1>1. UNCHANGED <<main, applier, staticOnly>> /\ PortsOf(tcp.cfg)' = PortsOf(tcp.cfg)
  BY DEF vars, appVars, givens, PortsOf
<1>2. /\ todo \in [Starters -> SUBSET Ports]
      /\ starting \in [Starters -> Ports \cup {NoPort}] /\ bound \in [Starters -> BOOLEAN]
      /\ listening \subseteq Ports /\ registered \subseteq Ports
  BY DEF SystemInv, TcpTypeOK
<1>3. registered \subseteq listening /\ \A x \in Starters : bound[x] => starting[x] \in listening
  BY DEF SystemInv, ListenersInv
<1>4. todo[s] # {}
  BY DEF TcpStep, LookUp, Listen, Register, SystemInv, ListenersInv
<1>5. main = "running" /\ ~staticOnly /\ (applier \in {"router", "tcp"} => s # "applier")
  BY <1>4 DEF SystemInv, PlanInv
<1>6. ASSUME listening \subseteq listening',
             \A x \in Starters \ {s} : todo'[x] = todo[x],
             todo[s] \subseteq todo'[s] \cup listening'
      PROVE  PlanInv'
  <2>1. "main" \in Starters /\ "applier" \in Starters
    BY DEF Starters
  <2>2. todo["main"] \cup todo["applier"] \cup listening
            \subseteq todo'["main"] \cup todo'["applier"] \cup listening'
    BY <1>6, <2>1 DEF Starters
  <2>3. PortsOf(tcp.cfg)' \subseteq todo'["main"] \cup todo'["applier"] \cup listening'
    BY <1>1, <1>5, <2>2 DEF SystemInv, PlanInv
  <2>4. applier' \in {"router", "tcp"} => todo'["applier"] = {}
    BY <1>1, <1>5, <1>6, <2>1 DEF SystemInv, PlanInv
  <2> QED BY <1>1, <1>5, <2>3, <2>4 DEF PlanInv
<1>7. CASE LookUp(s)
  <2>1. PICK port \in todo[s] :
          /\ starting[s] = NoPort /\ UNCHANGED <<bound, listening, registered>>
          /\ IF port \in registered
             THEN todo' = [todo EXCEPT ![s] = @ \ {port}] /\ UNCHANGED starting
             ELSE starting' = [starting EXCEPT ![s] = port] /\ UNCHANGED todo
    BY <1>7 DEF LookUp
  <2>2. port \in Ports /\ ~bound[s]
    BY <1>2, <2>1 DEF SystemInv, ListenersInv
  <2>3. TcpTypeOK'
    BY <1>2, <2>1, <2>2 DEF TcpTypeOK
  <2>4. \A x \in Starters : starting'[x] # NoPort => starting'[x] \in todo'[x]
    BY <1>2, <2>1, <2>2 DEF SystemInv, ListenersInv
  <2>5. \A x \in Starters : bound'[x] => bound[x] /\ starting'[x] = starting[x]
    BY <1>2, <2>1, <2>2
  <2>6. ListenersInv'
    BY <1>2, <2>1, <2>4, <2>5 DEF SystemInv, ListenersInv
  <2>7. PlanInv'
    BY <1>2, <1>3, <1>6, <2>1
  <2> QED BY <2>3, <2>6, <2>7
<1>8. ASSUME Done(s), starting[s] # NoPort, listening' = listening, starting[s] \in listening,
             registered' = registered \/ (bound[s] /\ registered' = registered \cup {starting[s]}),
             bound[s] => registered' = registered \cup {starting[s]}
      PROVE  TcpTypeOK' /\ ListenersInv' /\ PlanInv'
  <2>1. /\ todo' = [todo EXCEPT ![s] = @ \ {starting[s]}]
        /\ starting' = [starting EXCEPT ![s] = NoPort]
        /\ bound' = [bound EXCEPT ![s] = FALSE]
    BY <1>8 DEF Done
  <2>2. TcpTypeOK'
    BY <1>2, <1>8, <2>1 DEF TcpTypeOK
  <2>3. \A x \in Starters : starting'[x] # NoPort => starting'[x] \in todo'[x]
    BY <1>2, <2>1 DEF SystemInv, ListenersInv
  <2>4. \A x \in Starters : bound'[x] <=> x # s /\ bound[x]
    BY <1>2, <2>1
  <2>5. \A x \in Starters \ {s} : starting'[x] = starting[x]
    BY <1>2, <2>1
  <2>6. listening' = registered' \cup {starting'[x] : x \in {y \in Starters : bound'[y]}}
    BY <1>2, <1>8, <2>4, <2>5 DEF SystemInv, ListenersInv
  <2>7. \A x \in Starters : bound'[x] => starting'[x] # NoPort
    BY <2>4, <2>5 DEF SystemInv, ListenersInv
  <2>8. PlanInv'
    BY <1>2, <1>6, <1>8, <2>1
  <2> QED BY <2>2, <2>3, <2>6, <2>7, <2>8 DEF ListenersInv
<1>9. CASE Listen(s)
  <2>1. starting[s] # NoPort /\ ~bound[s]
    BY <1>9 DEF Listen
  <2>2. CASE starting[s] \in listening
    BY <1>8, <1>9, <2>1, <2>2 DEF Listen, LeaveRegistered
  <2>3. CASE starting[s] \notin listening
    <3>1. /\ listening' = listening \cup {starting[s]}
          /\ bound' = [bound EXCEPT ![s] = TRUE]
          /\ UNCHANGED <<todo, starting, registered>>
      BY <1>9, <2>3 DEF Listen
    <3>2. TcpTypeOK'
      BY <1>2, <2>1, <3>1 DEF TcpTypeOK
    <3>3. \A x \in Starters : bound'[x] <=> x = s \/ bound[x]
      BY <1>2, <3>1
    <3>4. listening' = registered' \cup {starting'[x] : x \in {y \in Starters : bound'[y]}}
      BY <3>1, <3>3 DEF SystemInv, ListenersInv
    <3>5. ListenersInv'
      BY <2>1, <3>1, <3>3, <3>4 DEF SystemInv, ListenersInv
    <3>6. PlanInv'
      BY <1>6, <3>1
    <3> QED BY <3>2, <3>5, <3>6
  <2> QED BY <2>2, <2>3
<1>10. CASE Register(s)
  <2>1. bound[s] /\ starting[s] # NoPort /\ starting[s] \in listening
    BY <1>3, <1>10 DEF Register, SystemInv, ListenersInv
  <2> QED BY <1>8, <1>10, <2>1 DEF Register
<1> QED BY <1>7, <1>9, <1>10 DEF TcpStep

-----------------------------------------------------------------------------
(* The rest of the pipeline *)

\* Applying the TCP routes gives one goroutine their ports, and it has none left.
LEMMA ApplyHolds ==
    ASSUME IInv, SystemInv, ApplyTcpRoutes
    PROVE  TcpTypeOK' /\ ListenersInv' /\ PlanInv'
<1> USE TcpRouterAssumption
<1>1. /\ applier = "tcp" /\ main' = "running" /\ applier' = "idle" /\ tcp' = received
      /\ staticOnly' = staticOnly /\ contents' = contents
      /\ UNCHANGED <<starting, bound, listening, registered>>
  BY DEF ApplyTcpRoutes, ApplyTcp, NewTcpRoutes, PlanPorts, givens
<1>2. /\ todo \in [Starters -> SUBSET Ports]
      /\ starting \in [Starters -> Ports \cup {NoPort}] /\ bound \in [Starters -> BOOLEAN]
      /\ listening \subseteq Ports /\ registered \subseteq Ports
  BY DEF SystemInv, TcpTypeOK
<1>3. "main" \in Starters /\ "applier" \in Starters
  BY DEF Starters
<1>4. CASE staticOnly
  <2>1. todo' = todo
    BY <1>4 DEF ApplyTcpRoutes, PlanPorts
  <2> QED BY <1>1, <1>2, <1>4, <2>1 DEF SystemInv, TcpTypeOK, ListenersInv, PlanInv
<1>5. CASE ~staticOnly
  <2> DEFINE s == IF main = "applying" THEN "main" ELSE "applier"
  <2>1. s \in Starters /\ todo' = [todo EXCEPT ![s] = PortsOf(received.cfg)]
    BY <1>3, <1>5 DEF ApplyTcpRoutes, PlanPorts, NewPorts
  <2>2. todo[s] = {}
    BY <1>1, <1>3 DEF SystemInv, PlanInv
  <2> HIDE DEF s
  <2>3. starting[s] = NoPort
    BY <2>1, <2>2 DEF SystemInv, ListenersInv
  <2>4. todo' \in [Starters -> SUBSET Ports] /\ todo'[s] = PortsOf(received.cfg)
    BY <1>2, <2>1, PortsArePorts
  <2>5. TcpTypeOK'
    BY <1>1, <1>2, <2>4 DEF TcpTypeOK
  <2>6. ListenersInv'
    BY <1>1, <1>2, <2>1, <2>3 DEF SystemInv, ListenersInv
  <2>7. PortsOf(tcp.cfg)' = PortsOf(received.cfg)
    BY <1>1 DEF PortsOf
  <2>8. PortsOf(tcp.cfg)' \subseteq todo'["main"] \cup todo'["applier"]
    BY <2>1, <2>4, <2>7 DEF Starters
  <2>9. PlanInv'
    BY <1>1, <1>5, <2>8 DEF PlanInv
  <2> QED BY <2>5, <2>6, <2>9
<1> QED BY <1>4, <1>5

\* No other step touches the listeners; a configuration is only taken by a goroutine that
\* is through with its ports.
LEMMA OtherHolds ==
    ASSUME IInv, SystemInv,
           PipelineStep \/ SelectApplier \/ ProviderStep \/ UNCHANGED allVars
    PROVE  TcpTypeOK' /\ ListenersInv' /\ PlanInv'
<1>1. UNCHANGED <<todo, starting, bound, listening, registered>>
  BY DEF tcpVars, PipelineStep, SelectApplier, ProviderStep, allVars
<1>2. TcpTypeOK' /\ ListenersInv'
  BY <1>1 DEF SystemInv, TcpTypeOK, ListenersInv
<1> DEFINE Quiet == /\ tcp' = tcp /\ (main' = "running" => main = "running")
                    /\ (main = "running" => main' = "running")
                    /\ (applier' \in {"router", "tcp"} =>
                           applier \in {"router", "tcp"} \/ todo["applier"] = {})
<1>3. Quiet
  <2>1. CASE UNCHANGED <<tcp, main, applier>>
    BY <2>1
  <2>2. CASE TakeInitial \/ TakeInitialMerged
    BY <2>2 DEF TakeInitial, TakeInitialMerged, appVars, SystemInv, PlanInv, Starters
  <2>3. CASE ApplyRouter
    BY <2>3 DEF ApplyRouter
  <2>4. CASE SelectApplier
    BY <2>4 DEF SelectApplier, TakeMerged, StopApplier, ApplierIsFree, appVars
  <2>5. ASSUME NEW p \in Providers, Publish(p) \/ SendMessage(p)
        PROVE  UNCHANGED <<tcp, main, applier>>
    BY <2>5 DEF Publish, SendMessage, appVars
  <2>6. ASSUME Forward \/ AggregatorStep \/ Signal \/ StopWatcher
        PROVE  UNCHANGED <<tcp, main, applier>>
    BY <2>6 DEF Forward, AggregatorStep, Signal, StopWatcher, appVars
  <2>7. CASE PipelineStep
    BY <2>1, <2>2, <2>3, <2>5, <2>6, <2>7 DEF PipelineStep, Providers
  <2>8. CASE ProviderStep
    BY <2>1, <2>5, <2>8 DEF ProviderStep, FileStep, LoadFile, AddWatch, Reload, StopReader,
       WriteFile, ReplaceFile, vars, appVars, Providers
  <2>9. CASE UNCHANGED allVars
    BY <2>1, <2>9 DEF allVars, vars, appVars
  <2> QED BY <2>4, <2>7, <2>8, <2>9
<1>4. staticOnly' = staticOnly /\ contents' = contents
  <2>1. [SystemNext]_allVars
    BY DEF SystemNext
  <2> QED BY <2>1, StepOfPipeline, GivensStay
<1>5. PortsOf(tcp.cfg)' = PortsOf(tcp.cfg)
  BY <1>3, <1>4 DEF PortsOf
<1> HIDE DEF Quiet
<1>6. PlanInv'
  BY <1>1, <1>3, <1>4, <1>5 DEF Quiet, SystemInv, PlanInv
<1> QED BY <1>2, <1>6

\* The invariant of the listeners, on top of that of the pipeline, holds throughout.
THEOREM SystemInvariance == SystemSpec => []SystemInv
<1>1. SystemInit => SystemInv
  BY SystemInitHolds
<1>2. IInv /\ SystemInv /\ [SystemNext]_allVars => SystemInv'
  <2> SUFFICES ASSUME IInv, SystemInv, [SystemNext]_allVars PROVE SystemInv'
    OBVIOUS
  <2>1. FileTypeOK'
    BY FileTypes DEF SystemInv
  <2>2. CASE ApplyTcpRoutes
    BY <2>1, <2>2, ApplyHolds DEF SystemInv
  <2>3. CASE StartPorts
    BY <2>1, <2>3, TcpStepHolds DEF StartPorts, SystemInv
  <2>4. CASE PipelineStep \/ SelectApplier \/ ProviderStep \/ UNCHANGED allVars
    BY <2>1, <2>4, OtherHolds DEF SystemInv
  <2> QED BY <2>2, <2>3, <2>4 DEF SystemNext
<1>3. SystemSpec => []IInv
  BY SystemIsPipeline, Invariance, PTL
<1> QED BY <1>1, <1>2, <1>3, PTL DEF SystemSpec

\* When both goroutines are through, every port in use is open and what is open is
\* registered; static-only mode opens nothing (tcp.go:44-61, main.go:168-175, 272-280).
THEOREM ListenersServeThePorts == SystemSpec => []PortsAreServed
<1>1. SystemInv => PortsAreServed
  <2> SUFFICES ASSUME SystemInv PROVE PortsAreServed
    OBVIOUS
  <2>1. staticOnly => listening = {}
    BY DEF SystemInv, PlanInv
  <2>2. ASSUME \A s \in Starters : todo[s] = {}, main = "running", ~staticOnly
        PROVE  PortsOf(tcp.cfg) \subseteq listening /\ listening = registered
    <3>1. \A s \in Starters : ~bound[s]
      BY <2>2 DEF SystemInv, ListenersInv
    <3>2. listening = registered
      BY <3>1 DEF SystemInv, ListenersInv
    <3>3. PortsOf(tcp.cfg) \subseteq listening
      BY <2>2 DEF SystemInv, PlanInv, Starters
    <3> QED BY <3>2, <3>3
  <2> QED BY <2>1, <2>2 DEF PortsAreServed, PortsAreOpen, SystemInv
<1> QED BY <1>1, SystemInvariance, PTL
=============================================================================
