-------------------------- MODULE AggregatorProofs --------------------------
(***************************************************************************)
(* Proofs about Aggregator for every set of updaters, providers, versions  *)
(* and every bound.  The mutex makes Update one interval: while u holds    *)
(* it, what u has merged is the newest entry of the history and everything *)
(* in the channel or at the consumer is older, until u has sent it.        *)
(***************************************************************************)
EXTENDS Aggregator, SequenceTheorems, TLAPS

Inside == {"offer", "drain", "send", "unlock"}

\* The holder of the mutex is the one updater inside its critical section.
MutexInv == \A u \in Updaters : holder = u <=> pc[u] \in Inside

\* What the consumer has is older than what is in the channel.
OrderInv ==
    /\ received.stamp <= Len(accepted)
    /\ outputCh # <<>> => /\ received.stamp < outputCh[1].stamp
                          /\ outputCh[1].stamp <= Len(accepted)

\* The latest configuration is in the channel or with the consumer.
Delivered ==
    IF outputCh = <<>> THEN received.stamp = Len(accepted)
                       ELSE outputCh[1].stamp = Len(accepted)

\* The updater inside holds the newest entry, unsent until it unlocks.
HolderInv ==
    \A u \in Updaters : holder = u =>
        /\ accepted # <<>>
        /\ merged[u].stamp = Len(accepted)
        /\ pc[u] = "unlock" => Delivered
        /\ pc[u] \in {"offer", "drain", "send"} =>
              /\ received.stamp < Len(accepted)
              /\ outputCh # <<>> => outputCh[1].stamp < Len(accepted)
        /\ pc[u] = "send" => outputCh = <<>>

\* A snapshot is the entry of the history that its stamp names.
IsEntry(s) == s.stamp <= Len(accepted) /\ s.cfg = Log!Entry(accepted, s.stamp)
ContentInv ==
    /\ configs = Log!Entry(accepted, Len(accepted))
    /\ \A u \in Updaters : holder = u => IsEntry(merged[u])
    /\ outputCh # <<>> => IsEntry(outputCh[1])
    /\ IsEntry(received)

IInv ==
    /\ TypeOK
    /\ MutexInv
    /\ OrderInv
    /\ HolderInv
    /\ LatestIsOffered
    /\ ContentInv

-----------------------------------------------------------------------------
\* The stamps are natural numbers, and the channel is empty or holds one value.
LEMMA Stamps ==
    ASSUME TypeOK
    PROVE  /\ Len(accepted) \in Nat
           /\ received \in Snapshot /\ received.stamp \in Nat
           /\ \A u \in Updaters : merged[u] \in Snapshot /\ merged[u].stamp \in Nat
           /\ \/ outputCh = <<>>
              \/ /\ outputCh # <<>> /\ Len(outputCh) = 1 /\ outputCh[1] \in Snapshot
                 /\ outputCh[1].stamp \in Nat
                 /\ Head(outputCh) = outputCh[1] /\ Tail(outputCh) = <<>>
  <1>1. \A s \in Snapshot : s.stamp \in Nat
    BY DEF Snapshot
  <1>2. /\ outputCh \in Seq(Snapshot) /\ Len(outputCh) \in Nat /\ Len(outputCh) <= 1
        /\ Len(accepted) \in Nat
    BY DEF TypeOK, Capacity
  <1>3. received \in Snapshot /\ \A u \in Updaters : merged[u] \in Snapshot
    BY DEF TypeOK
  <1>4. CASE Len(outputCh) = 0
    <2>1. outputCh = <<>>
      BY <1>2, <1>4
    <2> QED BY <1>1, <1>2, <1>3, <2>1
  <1>5. CASE Len(outputCh) = 1
    <2>1. outputCh[1] \in Snapshot /\ outputCh # <<>>
      BY <1>2, <1>5
    <2>2. Head(outputCh) = outputCh[1]
      BY <1>2, <1>5
    <2>3. Tail(outputCh) \in Seq(Snapshot) /\ Len(Tail(outputCh)) = 0
      BY <1>2, <1>5, <2>1
    <2>4. Tail(outputCh) = <<>>
      BY <2>3, EmptySeq
    <2> QED BY <1>1, <1>2, <1>3, <1>5, <2>1, <2>2, <2>4, Zenon
  <1>6. Len(outputCh) = 0 \/ Len(outputCh) = 1
    <2>1. \A n \in Nat : n <= 1 => n = 0 \/ n = 1
      OBVIOUS
    <2> QED BY <1>2, <2>1, Zenon
  <1> QED BY <1>4, <1>5, <1>6, Zenon

LEMMA InitIInv == Init => IInv
  <1> SUFFICES ASSUME Init PROVE IInv
    OBVIOUS
  <1> USE DEF Init
  <1>1. Nothing \in Config /\ Empty \in Snapshot
    BY DEF Nothing, Config, Empty, Snapshot
  <1>2. \E m \in Messages : TRUE
    <2>1. PICK p \in Providers, v \in Versions : TRUE
      BY SomeMessage DEF SomeMessage
    <2>2. [provider |-> p, version |-> v] \in Messages
      BY DEF Messages
    <2> QED BY <2>2
  <1>3. TypeOK
    BY <1>1, <1>2 DEF TypeOK, Capacity
  <1>4. MutexInv /\ HolderInv
    BY UpdatersAssumption DEF UpdatersAssumption, MutexInv, HolderInv, Inside
  <1>5. OrderInv /\ LatestIsOffered
    BY DEF OrderInv, LatestIsOffered, Empty
  <1>6. ContentInv
    BY UpdatersAssumption
       DEF UpdatersAssumption, ContentInv, IsEntry, Log!Entry, Log!Nothing, Nothing, Empty
  <1> QED BY <1>3, <1>4, <1>5, <1>6 DEF IInv

LEMMA CallInv ==
    ASSUME IInv, NEW u \in Updaters, NEW m \in Messages, Call(u, m) PROVE IInv'
  <1> USE DEF IInv, Call
  <1>1. TypeOK'
    BY DEF TypeOK
  <1>2. MutexInv'
    BY DEF MutexInv, Inside, TypeOK
  <1>3. HolderInv'
    BY DEF HolderInv, MutexInv, Inside, Delivered, TypeOK
  <1>4. OrderInv' /\ LatestIsOffered' /\ ContentInv'
    BY DEF OrderInv, LatestIsOffered, ContentInv, IsEntry, Log!Entry, Log!Nothing
  <1> QED BY <1>1, <1>2, <1>3, <1>4

\* Appending to the history leaves its entries where they are.
LEMMA EntriesStay ==
    ASSUME TypeOK, NEW c \in Config, accepted' = Append(accepted, c)
    PROVE  /\ accepted' \in Seq(Config) /\ Len(accepted') = Len(accepted) + 1
           /\ Log!Entry(accepted', Len(accepted')) = c
           /\ \A i \in 0..Len(accepted) : Log!Entry(accepted', i) = Log!Entry(accepted, i)
  BY DEF TypeOK, Log!Entry

LEMMA LockInv == ASSUME IInv, NEW u \in Updaters, Lock(u) PROVE IInv'
  <1> USE UpdatersAssumption DEF IInv, Lock, Free, UpdatersAssumption
  <1>1. configs' \in Config
    BY DEF TypeOK, Stored, Messages, Config
  <1>2. /\ accepted' \in Seq(Config) /\ Len(accepted') = Len(accepted) + 1
        /\ Len(accepted) \in Nat
        /\ Log!Entry(accepted', Len(accepted')) = configs'
        /\ \A i \in 0..Len(accepted) : Log!Entry(accepted', i) = Log!Entry(accepted, i)
    BY <1>1, EntriesStay DEF TypeOK
  <1>3. merged' = [merged EXCEPT ![u] = [stamp |-> Len(accepted'), cfg |-> configs']]
    BY <1>2
  <1>4. TypeOK'
    BY <1>1, <1>2, <1>3 DEF TypeOK, Snapshot
  <1>5. MutexInv'
    BY DEF MutexInv, Inside, TypeOK
  <1>6. OrderInv'
    BY <1>2, Stamps DEF OrderInv
  <1>7. HolderInv'
    <2>1. pc'[u] = "offer" /\ merged'[u].stamp = Len(accepted')
      BY <1>3 DEF TypeOK
    <2>2. received'.stamp < Len(accepted')
      BY <1>2, Stamps DEF OrderInv
    <2>3. outputCh' # <<>> => outputCh'[1].stamp < Len(accepted')
      BY <1>2, Stamps DEF OrderInv
    <2>4. accepted' # <<>>
      BY <1>2
    <2> QED BY <2>1, <2>2, <2>3, <2>4 DEF HolderInv
  <1>8. LatestIsOffered'
    BY DEF LatestIsOffered
  <1>9. ContentInv'
    <2>1. ASSUME NEW s \in Snapshot, IsEntry(s)
          PROVE  s.stamp <= Len(accepted') /\ s.cfg = Log!Entry(accepted', s.stamp)
      BY <1>2, <2>1 DEF IsEntry, Snapshot
    <2>2. IsEntry(received)'
      BY <2>1 DEF ContentInv, IsEntry, TypeOK
    <2>3. outputCh' # <<>> => IsEntry(outputCh[1])'
      BY <2>1 DEF ContentInv, IsEntry, TypeOK
    <2>4. IsEntry(merged[u])'
      BY <1>2, <1>3 DEF IsEntry, TypeOK
    <2> QED BY <1>2, <2>2, <2>3, <2>4 DEF ContentInv
  <1> QED BY <1>4, <1>5, <1>6, <1>7, <1>8, <1>9

\* Steps inside the critical section: only the channel and the updater move.
LEMMA InsideInv ==
    ASSUME IInv, NEW u \in Updaters, holder = u,
           NEW next \in Inside, pc' = [pc EXCEPT ![u] = next],
           UNCHANGED <<configs, holder, msg, merged, accepted, received>>,
           \/ outputCh' = outputCh /\ pc[u] = "offer" /\ next = "drain"
           \/ outputCh' = <<>> /\ pc[u] = "drain" /\ next = "send"
           \/ /\ outputCh = <<>> /\ outputCh' = <<merged[u]>>
              /\ pc[u] \in {"offer", "send"} /\ next = "unlock"
    PROVE  IInv'
  <1> USE UpdatersAssumption DEF IInv, UpdatersAssumption
  <1>1. TypeOK'
    <2>1. merged[u] \in Snapshot
      BY DEF TypeOK
    <2>2. outputCh' \in Seq(Snapshot) /\ Len(outputCh') <= 1
      <3>1. <<>> \in Seq(Snapshot) /\ Len(<<>>) <= 1
        OBVIOUS
      <3>2. <<merged[u]>> \in Seq(Snapshot) /\ Len(<<merged[u]>>) <= 1
        BY <2>1
      <3>3. outputCh \in Seq(Snapshot) /\ Len(outputCh) <= 1
        BY DEF TypeOK, Capacity
      <3> QED BY <3>1, <3>2, <3>3
    <2>3. pc' \in [Updaters -> {"idle", "lock", "offer", "drain", "send", "unlock"}]
      BY DEF TypeOK, Inside
    <2> QED BY <2>2, <2>3 DEF TypeOK, Capacity
  <1>2. MutexInv'
    BY DEF MutexInv, TypeOK
  <1>3. OrderInv'
    BY Stamps DEF OrderInv, HolderInv
  <1>4. HolderInv'
    <2>1. pc'[u] = next
      BY DEF TypeOK
    <2>2. received.stamp < Len(accepted) /\ merged[u].stamp = Len(accepted)
      BY DEF HolderInv
    <2>3. CASE outputCh' = <<merged[u]>> /\ next = "unlock"
      BY <2>1, <2>2, <2>3 DEF HolderInv, Delivered
    <2>4. CASE outputCh' = <<>> /\ next = "send"
      BY <2>1, <2>2, <2>4 DEF HolderInv
    <2>5. CASE outputCh' = outputCh /\ next = "drain"
      BY <2>1, <2>2, <2>5 DEF HolderInv
    <2> QED BY <2>3, <2>4, <2>5
  <1>5. LatestIsOffered'
    BY DEF LatestIsOffered
  <1>6. ContentInv'
    BY DEF ContentInv, IsEntry, Log!Entry, Log!Nothing
  <1> QED BY <1>1, <1>2, <1>3, <1>4, <1>5, <1>6

LEMMA SendingInv ==
    ASSUME IInv, NEW u \in Updaters, Offer(u) \/ Drain(u) \/ Send(u) PROVE IInv'
  <1> USE DEF IInv, HasRoom, WhenFull, Drained, Capacity, Inside
  <1>1. pc[u] \in Inside => holder = u
    BY DEF MutexInv
  <1>2. outputCh = <<>> => Append(outputCh, merged[u]) = <<merged[u]>>
    OBVIOUS
  <1>3. Len(outputCh) < 1 <=> outputCh = <<>>
    BY Stamps
  <1>4. outputCh # <<>> => Tail(outputCh) = <<>>
    BY Stamps
  <1>5. CASE Offer(u)
    BY <1>1, <1>2, <1>3, <1>5, InsideInv DEF Offer
  <1>6. CASE Drain(u)
    BY <1>1, <1>4, <1>6, InsideInv DEF Drain
  <1>7. CASE Send(u)
    BY <1>1, <1>2, <1>3, <1>7, InsideInv DEF Send
  <1> QED BY <1>5, <1>6, <1>7

LEMMA UnlockInv == ASSUME IInv, NEW u \in Updaters, Unlock(u) PROVE IInv'
  <1> USE UpdatersAssumption DEF IInv, Unlock, UpdatersAssumption
  <1>1. holder = u
    BY DEF MutexInv, Inside
  <1>2. TypeOK'
    BY DEF TypeOK
  <1>3. MutexInv'
    BY <1>1 DEF MutexInv, Inside, TypeOK
  <1>4. OrderInv' /\ HolderInv'
    BY <1>1 DEF OrderInv, HolderInv
  <1>5. LatestIsOffered'
    BY <1>1 DEF LatestIsOffered, HolderInv, Delivered
  <1>6. ContentInv'
    BY DEF ContentInv, IsEntry, Log!Entry, Log!Nothing
  <1> QED BY <1>2, <1>3, <1>4, <1>5, <1>6

LEMMA ReceiveInv == ASSUME IInv, Receive PROVE IInv'
  <1> USE DEF IInv, Receive
  <1>1. outputCh' = <<>> /\ received' = outputCh[1] /\ received' \in Snapshot
    BY DEF TypeOK, Capacity
  <1>2. TypeOK'
    BY <1>1 DEF TypeOK, Capacity
  <1>3. MutexInv' /\ OrderInv'
    BY <1>1 DEF MutexInv, OrderInv, TypeOK, Snapshot
  <1>4. HolderInv'
    BY <1>1 DEF HolderInv, OrderInv, Delivered, TypeOK, Snapshot
  <1>5. LatestIsOffered'
    BY <1>1 DEF LatestIsOffered
  <1>6. ContentInv'
    BY <1>1 DEF ContentInv, IsEntry, Log!Entry, Log!Nothing
  <1> QED BY <1>2, <1>3, <1>4, <1>5, <1>6

LEMMA NextIInv == IInv /\ [Next]_vars => IInv'
  <1> SUFFICES ASSUME IInv, [Next]_vars PROVE IInv'
    OBVIOUS
  <1>1. ASSUME NEW u \in Updaters, UpdateStep(u) PROVE IInv'
    BY <1>1, LockInv, SendingInv, UnlockInv DEF UpdateStep
  <1>2. ASSUME NEW u \in Updaters, NEW m \in Messages, Call(u, m) PROVE IInv'
    BY <1>2, CallInv
  <1>3. CASE Receive
    BY <1>3, ReceiveInv
  <1>4. CASE UNCHANGED vars
    BY <1>4 DEF vars, IInv, TypeOK, MutexInv, OrderInv, HolderInv, Delivered,
                LatestIsOffered, ContentInv, IsEntry, Log!Entry, Log!Nothing
  <1> QED BY <1>1, <1>2, <1>3, <1>4 DEF Next

LEMMA SpecIInv == Spec => []IInv
  BY InitIInv, NextIInv, PTL DEF Spec

-----------------------------------------------------------------------------
\* The aggregator is well typed; the channel never holds more than one value.
THEOREM TypeCorrect == Spec => []TypeOK
  <1>1. IInv => TypeOK
    BY DEF IInv
  <1> QED BY <1>1, SpecIInv, PTL

\* Update never blocks on the channel while it holds the mutex.
THEOREM SendNeverBlocks == Spec => []SendFindsRoom
  <1>1. IInv => SendFindsRoom
    BY DEF IInv, HolderInv, MutexInv, Inside, SendFindsRoom
  <1> QED BY <1>1, SpecIInv, PTL

\* Outside Update the latest configuration is on its way or has arrived.
THEOREM LatestSurvives == Spec => []LatestIsOffered
  <1>1. IInv => LatestIsOffered
    BY DEF IInv
  <1> QED BY <1>1, SpecIInv, PTL

\* Every step of the aggregator is a step of the log or leaves it unchanged:
\* no configuration is invented, altered, or delivered after a later one.
THEOREM ImplementsConfigLog == Spec => Log!SafeSpec
  <1>1. Init => Log!Init
    BY DEF Init, Log!Init, Empty, Nothing, Log!Nothing
  <1>2. IInv /\ [Next]_vars => [Log!Next]_Log!vars
    <2> SUFFICES ASSUME IInv, [Next]_vars PROVE [Log!Next]_Log!vars
      OBVIOUS
    <2>1. ASSUME NEW u \in Updaters, Lock(u) PROVE Log!Next
      <3>1. msg[u].provider \in Providers /\ msg[u].version \in Versions
        BY DEF IInv, TypeOK, Messages
      <3>2. Log!Register(msg[u].provider, msg[u].version)
        BY <2>1 DEF Lock, Stored, Log!Register, IInv, ContentInv
      <3> QED BY <3>1, <3>2 DEF Log!Next
    <2>2. CASE Receive
      <3>1. /\ received' = outputCh[1]
            /\ received'.stamp \in (received.stamp + 1)..Len(accepted)
            /\ received'.cfg = accepted[received'.stamp]
        <4>1. /\ received' = outputCh[1] /\ outputCh # <<>>
              /\ outputCh[1].stamp \in Nat /\ Len(accepted) \in Nat
              /\ received.stamp \in Nat
          BY <2>2, Stamps DEF Receive, IInv
        <4>2. received.stamp < outputCh[1].stamp /\ outputCh[1].stamp <= Len(accepted)
          BY <4>1 DEF IInv, OrderInv
        <4>3. outputCh[1].cfg = Log!Entry(accepted, outputCh[1].stamp)
          BY <4>1 DEF IInv, ContentInv, IsEntry
        <4> QED BY <4>1, <4>2, <4>3 DEF Log!Entry
      <3> QED BY <2>2, <3>1 DEF Receive, Log!Next, Log!Deliver
    <2>3. ASSUME NEW u \in Updaters, Offer(u) \/ Drain(u) \/ Send(u) \/ Unlock(u)
          PROVE  UNCHANGED Log!vars
      BY <2>3 DEF Offer, Drain, Send, Unlock, Log!vars
    <2>4. ASSUME NEW u \in Updaters, NEW m \in Messages, Call(u, m)
          PROVE  UNCHANGED Log!vars
      BY <2>4 DEF Call, Log!vars
    <2>5. CASE UNCHANGED vars
      BY <2>5 DEF vars, Log!vars
    <2> QED BY <2>1, <2>2, <2>3, <2>4, <2>5 DEF Next, UpdateStep
  <1> QED BY <1>1, <1>2, SpecIInv, PTL DEF Spec, Log!SafeSpec
=============================================================================
