------------------------- MODULE HealthProbesProofs -------------------------
(***************************************************************************)
(* Proofs about HealthProbes for every set of backends and tables, every   *)
(* number of workers and every bound on the generations.                   *)
(*                                                                         *)
(* The inductive invariant IInv adds to the type invariant what ties the   *)
(* parts together: the workers in flight are the holders of the slots and  *)
(* all belong to the sweep; a sweep is never of a future generation, and   *)
(* every past generation is cancelled; an answer that waits for the lock   *)
(* is the observation the record will say.                                 *)
(***************************************************************************)
EXTENDS HealthProbes, FiniteSetTheorems, TLAPS

\* The workers that exist are those that hold a slot of the present sweep.
SlotsInv ==
    /\ InFlight = slots
    /\ \A p \in slots : p[1] = sweep
    /\ \A b \in jobs : <<sweep, b>> \notin slots
    /\ IsFiniteSet(slots)
    /\ Cardinality(slots) <= MaxWorkers
    /\ runner \in {"unstarted", "select", "capture", "stopped"} => slots = {}

\* Generations only grow, and those of the past are cancelled.
GenerationInv ==
    /\ sweep <= generation
    /\ runner = "unstarted" => generation <= MaxGeneration
    /\ \A g \in Generations : g < generation => g \in cancelled

\* From its capture to its end, a sweep that was overtaken left a token.
WakeInv ==
    (runner \in {"select", "dispatch", "check", "wait"} /\ sweep < generation) => wake

\* An answer of a live generation that waits for the lock is the last one.
PendingInv ==
    \A b \in Backends :
        (/\ ~GenerationDone(generation)
         /\ phase[<<generation, b>>] \in {"ready", "down"})
        => observed[b] = phase[<<generation, b>>]

\* Only a checked record of a running router is healthy.
HealthyInv ==
    \A b \in DOMAIN health : health[b].healthy => health[b].checked /\ HealthRunning

IInv ==
    /\ TypeOK
    /\ SlotsInv
    /\ GenerationInv
    /\ WakeInv
    /\ PendingInv
    /\ HealthyInv
    /\ AdmissionFollowsObservation

-----------------------------------------------------------------------------
(* Tables and records. *)

\* The members of an installed table are backends.
LEMMA MembersAreBackends ==
    ASSUME NEW t \in Tables \cup {NoRoutes}
    PROVE  /\ t.members \in Seq(Backends)
           /\ t.gated \in BOOLEAN
           /\ Members(t) \subseteq Backends
           /\ GatedMembers(t) \subseteq Backends
  <1>1. t \in [members: Seq(Backends), gated: BOOLEAN]
    <2>1. CASE t \in Tables
      BY <2>1, TablesAssumption DEF TablesAssumption
    <2>2. CASE t = NoRoutes
      BY <2>2 DEF NoRoutes
    <2> QED BY <2>1, <2>2
  <1>2. Members(t) \subseteq Backends
    BY <1>1 DEF Members
  <1> QED BY <1>1, <1>2 DEF GatedMembers

LEMMA UncheckedType == Unchecked \in HealthState
  BY DEF Unchecked, HealthState

\* The empty set of slots is finite and within the bound.
LEMMA NoSlots == IsFiniteSet({}) /\ Cardinality({}) <= MaxWorkers
  BY FS_EmptySet, WorkersAssumption DEF WorkersAssumption

-----------------------------------------------------------------------------
(* The initial states. *)

LEMMA InitIInv == Init => IInv
  <1> SUFFICES ASSUME Init PROVE IInv
    OBVIOUS
  <1> USE GenerationAssumption, CycleAssumption
      DEF Init, GenerationAssumption, CycleAssumption
  <1>1. TypeOK
    <2>1. GatedMembers(table) = {}
      BY DEF GatedMembers, NoRoutes
    <2>2. 0 \in Generations
      BY DEF Generations
    <2>3. table \in Tables \cup {NoRoutes} /\ cursor \in 0..(CursorCycle - 1)
      OBVIOUS
    <2>4. health \in [GatedMembers(table) -> HealthState]
      BY <2>1
    <2>5. phase \in [Probes -> {"idle", "spawned", "cleared", "asked", "ready", "down"}]
      OBVIOUS
    <2>6. served \in Seq(Nat)
      OBVIOUS
    <2> QED BY <2>2, <2>3, <2>4, <2>5, <2>6 DEF TypeOK, Init
  <1>2. SlotsInv
    <2>1. InFlight = {}
      BY DEF InFlight
    <2> QED BY <2>1, NoSlots DEF SlotsInv
  <1>3. GenerationInv
    BY DEF GenerationInv, Generations
  <1>4. WakeInv /\ HealthyInv /\ AdmissionFollowsObservation
    BY DEF WakeInv, HealthyInv, AdmissionFollowsObservation
  <1>5. PendingInv
    BY DEF PendingInv, Probes, Generations
  <1> QED BY <1>1, <1>2, <1>3, <1>4, <1>5 DEF IInv

-----------------------------------------------------------------------------
(* Reloads: the steps that call resetHealthLocked. *)

\* What ResetHealth establishes, whichever step runs it.
LEMMA ResetInv ==
    ASSUME IInv,
           NEW t \in Tables \cup {NoRoutes}, NEW parented \in BOOLEAN,
           ResetHealth(t, parented),
           generation <= MaxGeneration,
           table' = t,
           UNCHANGED <<sweep, jobs, slots, shutdown, phase, ready>>,
           cursor' \in 0..(CursorCycle - 1),
           served' \in Seq(Nat),
           \/ runner' = runner /\ (runner = "unstarted" => generation < MaxGeneration)
           \/ runner = "unstarted" /\ runner' = "select"
    PROVE  IInv'
  <1> USE GenerationAssumption DEF IInv, GenerationAssumption
  <1>1. /\ generation' = generation + 1
        /\ generation \in Generations /\ generation' \in Generations
        /\ cancelled' \subseteq Generations
        /\ cancelled \cup {generation} \subseteq cancelled'
        /\ health' = [b \in GatedMembers(t) |-> Unchecked]
        /\ wake' = TRUE
        /\ observed' = [b \in Backends |-> "none"]
    BY DEF TypeOK, ResetHealth, Generations, Superseded, FreshRecords
  <1>2. TypeOK'
    BY <1>1, UncheckedType DEF TypeOK
  <1>3. SlotsInv'
    BY DEF SlotsInv, InFlight
  <1>4. GenerationInv'
    BY <1>1 DEF GenerationInv, Generations, TypeOK
  <1>5. \A b \in Backends : phase'[<<generation', b>>] = "idle"
    <2> SUFFICES ASSUME NEW b \in Backends, phase[<<generation + 1, b>>] # "idle"
                 PROVE  FALSE
      BY <1>1
    <2>1. <<generation + 1, b>> \in slots
      BY <1>1 DEF SlotsInv, InFlight, Probes
    <2>2. sweep = generation + 1
      BY <2>1 DEF SlotsInv
    <2> QED BY <2>2 DEF GenerationInv, TypeOK, Generations
  <1>6. PendingInv'
    BY <1>5 DEF PendingInv
  <1>7. WakeInv' /\ HealthyInv' /\ AdmissionFollowsObservation'
    BY <1>1 DEF WakeInv, HealthyInv, AdmissionFollowsObservation, Unchecked
  <1> QED BY <1>2, <1>3, <1>4, <1>6, <1>7

LEMMA UpdateInv == ASSUME IInv, NEW t \in Tables, Update(t) PROVE IInv'
  <1> USE CycleAssumption DEF Update, CycleAssumption
  <1>1. generation \in Nat /\ generation <= MaxGeneration
    BY GenerationAssumption DEF GenerationAssumption, IInv, TypeOK, Generations
  <1>2. cursor' \in 0..(CursorCycle - 1) /\ served' \in Seq(Nat)
    OBVIOUS
  <1> QED BY <1>1, <1>2, ResetInv DEF sweepVars

LEMMA StartRunnerInv == ASSUME IInv, StartRunner PROVE IInv'
  <1> USE DEF StartRunner
  <1>1. generation <= MaxGeneration /\ table \in Tables \cup {NoRoutes}
    BY DEF IInv, GenerationInv, TypeOK
  <1>2. cursor' \in 0..(CursorCycle - 1) /\ served' \in Seq(Nat)
    BY DEF IInv, TypeOK, Rotation
  <1> QED BY <1>1, <1>2, ResetInv

-----------------------------------------------------------------------------
(* Requests. *)

LEMMA ResolveInv == ASSUME IInv, Resolve PROVE IInv'
  <1> USE CycleAssumption
      DEF IInv, Resolve, recordVars, sweepVars, NextCursor, CycleAssumption
  <1>1. PICK i \in Turns : served' = IF Len(served) = Cardinality(Turns)
                                     THEN <<i>> ELSE Append(served, i)
    OBVIOUS
  <1>2. i \in Nat
    BY <1>1, MembersAreBackends DEF Turns, TypeOK
  <1>3. served' \in Seq(Nat)
    BY <1>1, <1>2 DEF TypeOK
  <1>4. cursor' \in 0..(CursorCycle - 1)
    BY DEF TypeOK
  <1>5. TypeOK'
    BY <1>3, <1>4 DEF TypeOK
  <1>6. SlotsInv' /\ GenerationInv' /\ WakeInv' /\ PendingInv'
    BY DEF SlotsInv, InFlight, GenerationInv, WakeInv, PendingInv, GenerationDone
  <1>7. HealthyInv' /\ AdmissionFollowsObservation'
    BY DEF HealthyInv, HealthRunning, AdmissionFollowsObservation, GenerationDone
  <1> QED BY <1>5, <1>6, <1>7

-----------------------------------------------------------------------------
(* The runner. *)

\* Steps that move the runner between two points of a sweep, and no record.
LEMMA SweepMoveInv ==
    ASSUME IInv,
           UNCHANGED <<tableVars, health, generation, cancelled, observed,
                       sweep, slots, shutdown, phase, ready>>,
           wake' \in BOOLEAN, jobs' \subseteq jobs,
           runner \notin {"unstarted", "stopped"},
           runner' \in {"select", "capture", "dispatch", "wait"},
           runner' \in {"select", "capture"} => slots = {},
           WakeInv'
    PROVE  IInv'
  <1> USE DEF IInv, tableVars
  <1>1. TypeOK'
    BY DEF TypeOK
  <1>2. SlotsInv' /\ GenerationInv' /\ PendingInv'
    BY DEF SlotsInv, InFlight, GenerationInv, PendingInv, GenerationDone
  <1>3. HealthyInv' /\ AdmissionFollowsObservation'
    BY DEF HealthyInv, HealthRunning, AdmissionFollowsObservation, GenerationDone
  <1> QED BY <1>1, <1>2, <1>3

LEMMA RunnerMovesInv ==
    ASSUME IInv,
           \/ TakeWake \/ TakeTick \/ ObserveCancel
           \/ CheckGeneration \/ FinishDispatch \/ AwaitWorkers
    PROVE  IInv'
  <1> USE DEF IInv, SlotsInv, WakeInv, TypeOK, tableVars, recordVars
  <1>1. CASE TakeWake
    BY <1>1, SweepMoveInv DEF TakeWake
  <1>2. CASE TakeTick
    BY <1>2, SweepMoveInv DEF TakeTick
  <1>3. CASE ObserveCancel
    BY <1>3, SweepMoveInv DEF ObserveCancel
  <1>4. CASE CheckGeneration
    BY <1>4, SweepMoveInv DEF CheckGeneration
  <1>5. CASE FinishDispatch
    BY <1>5, SweepMoveInv DEF FinishDispatch
  <1>6. CASE AwaitWorkers
    BY <1>6, SweepMoveInv DEF AwaitWorkers
  <1> QED BY <1>1, <1>2, <1>3, <1>4, <1>5, <1>6

LEMMA CaptureInv == ASSUME IInv, Capture PROVE IInv'
  <1> USE DEF IInv, Capture, tableVars, recordVars
  <1>1. slots = {}
    BY DEF SlotsInv
  <1>2. DueRecords \subseteq Backends
    BY MembersAreBackends DEF DueRecords, TypeOK
  <1>3. TypeOK'
    BY <1>1, <1>2 DEF TypeOK
  <1>4. SlotsInv'
    BY <1>1 DEF SlotsInv, InFlight
  <1>5. GenerationInv' /\ WakeInv'
    BY DEF GenerationInv, WakeInv, TypeOK, Generations
  <1>6. PendingInv' /\ HealthyInv' /\ AdmissionFollowsObservation'
    BY DEF PendingInv, HealthyInv, HealthRunning, AdmissionFollowsObservation,
           GenerationDone
  <1> QED BY <1>3, <1>4, <1>5, <1>6

\* A spawn takes a free slot for a probe of the sweep's own generation.
LEMMA SpawnInv == ASSUME IInv, NEW b \in Backends, Spawn(b) PROVE IInv'
  <1> USE DEF IInv, Spawn, tableVars, recordVars
  <1> DEFINE p == <<sweep, b>>
  <1>1. p \in Probes
    BY DEF Probes, TypeOK
  <1>2. TypeOK'
    BY <1>1 DEF TypeOK
  <1>3. InFlight' = slots \cup {p}
    BY <1>1 DEF SlotsInv, InFlight, TypeOK
  <1>4. IsFiniteSet(slots \cup {p}) /\ Cardinality(slots \cup {p}) <= MaxWorkers
    <2>1. IsFiniteSet(slots) /\ Cardinality(slots) \in Nat /\ Cardinality(slots) < MaxWorkers
      BY FS_CardinalityType DEF SlotsInv
    <2>2. /\ IsFiniteSet(slots \cup {p})
          /\ \/ Cardinality(slots \cup {p}) = Cardinality(slots)
             \/ Cardinality(slots \cup {p}) = Cardinality(slots) + 1
      BY <2>1, FS_AddElement
    <2> QED BY <2>1, <2>2, WorkersAssumption DEF WorkersAssumption
  <1>5. SlotsInv'
    BY <1>3, <1>4 DEF SlotsInv
  <1>6. GenerationInv' /\ WakeInv'
    BY DEF GenerationInv, WakeInv
  <1>7. PendingInv'
    BY <1>1 DEF PendingInv, GenerationDone, TypeOK
  <1>8. HealthyInv'
    BY DEF HealthyInv, HealthRunning
  <1>9. AdmissionFollowsObservation'
    <2>1. phase[p] = "idle"
      BY <1>1 DEF SlotsInv, InFlight
    <2> QED BY <1>1, <2>1 DEF AdmissionFollowsObservation, GenerationDone, TypeOK
  <1> QED BY <1>2, <1>5, <1>6, <1>7, <1>8, <1>9

LEMMA StopRunnerInv == ASSUME IInv, StopRunner PROVE IInv'
  <1> USE DEF IInv, StopRunner, NoneHealthy
  <1>1. health' \in [GatedMembers(table) -> HealthState]
    BY DEF TypeOK, HealthState
  <1>2. served' \in Seq(Nat)
    BY DEF TypeOK, Rotation
  <1>3. TypeOK'
    BY <1>1, <1>2 DEF TypeOK
  <1>4. SlotsInv' /\ GenerationInv' /\ WakeInv'
    BY DEF SlotsInv, InFlight, GenerationInv, WakeInv, TypeOK
  <1>5. PendingInv'
    BY DEF PendingInv, GenerationDone, TypeOK
  <1>6. HealthyInv' /\ AdmissionFollowsObservation'
    BY <1>1 DEF HealthyInv, AdmissionFollowsObservation, GenerationDone, TypeOK, HealthState
  <1> QED BY <1>3, <1>4, <1>5, <1>6

-----------------------------------------------------------------------------
(* One probe. *)

\* What a retiring worker leaves of the slots.
LEMMA RetireSlots ==
    ASSUME IInv, NEW p \in Probes, Retire(p), phase[p] # "idle"
    PROVE  /\ SlotsInv'
           /\ slots' \subseteq Probes
           /\ phase' \in [Probes -> {"idle", "spawned", "cleared", "asked", "ready", "down"}]
           /\ HealthRunning
  <1> USE DEF IInv, Retire
  <1>1. p \in slots /\ HealthRunning
    BY DEF SlotsInv, InFlight, HealthRunning
  <1>2. InFlight' = slots \ {p}
    BY DEF SlotsInv, InFlight, TypeOK
  <1>3. IsFiniteSet(slots \ {p}) /\ Cardinality(slots \ {p}) <= MaxWorkers
    <2>1. IsFiniteSet(slots) /\ Cardinality(slots) \in Nat /\ Cardinality(slots) <= MaxWorkers
      BY FS_CardinalityType DEF SlotsInv
    <2>2. IsFiniteSet(slots \ {p}) /\ Cardinality(slots \ {p}) = Cardinality(slots) - 1
      BY <1>1, <2>1, FS_RemoveElement
    <2> QED BY <2>1, <2>2, WorkersAssumption DEF WorkersAssumption
  <1> QED BY <1>1, <1>2, <1>3 DEF SlotsInv, TypeOK

LEMMA AbandonProbeInv == ASSUME IInv, NEW p \in Probes, AbandonProbe(p) PROVE IInv'
  <1> USE DEF IInv, AbandonProbe
  <1>1. SlotsInv' /\ slots' \subseteq Probes
    BY RetireSlots
  <1>2. TypeOK'
    BY RetireSlots DEF TypeOK, Retire
  <1>3. GenerationInv' /\ WakeInv'
    BY DEF GenerationInv, WakeInv, Retire
  <1>4. PendingInv' /\ HealthyInv'
    BY DEF PendingInv, HealthyInv, HealthRunning, GenerationDone, Retire, TypeOK
  <1>5. AdmissionFollowsObservation'
    BY DEF AdmissionFollowsObservation, GenerationDone, Retire, TypeOK
  <1> QED BY <1>1, <1>2, <1>3, <1>4, <1>5

\* A worker that changes its phase but stays in flight keeps its slot.
LEMMA StillInFlight ==
    ASSUME IInv, NEW p \in Probes, NEW new \in {"cleared", "asked", "ready", "down"},
           phase[p] # "idle", phase' = [phase EXCEPT ![p] = new],
           UNCHANGED <<sweepVars>>
    PROVE  SlotsInv'
  BY DEF IInv, SlotsInv, InFlight, TypeOK, sweepVars

\* Neither the check nor the request tells the router anything.
LEMMA PassProbeInv ==
    ASSUME IInv, NEW p \in Probes, NEW new \in {"cleared", "asked"},
           phase[p] \in {"spawned", "cleared"}, phase' = [phase EXCEPT ![p] = new],
           UNCHANGED <<tableVars, recordVars, sweepVars, shutdown, ready>>
    PROVE  IInv'
  <1> USE DEF IInv, tableVars, recordVars, sweepVars
  <1>1. SlotsInv'
    BY StillInFlight
  <1>2. TypeOK'
    BY DEF TypeOK
  <1>3. GenerationInv' /\ WakeInv' /\ PendingInv'
    BY DEF GenerationInv, WakeInv, PendingInv, GenerationDone, TypeOK
  <1>4. HealthyInv' /\ AdmissionFollowsObservation'
    BY DEF HealthyInv, HealthRunning, AdmissionFollowsObservation, GenerationDone, TypeOK
  <1> QED BY <1>1, <1>2, <1>3, <1>4

\* The answer becomes the observation of its generation, if that is current.
LEMMA AnswerProbeInv == ASSUME IInv, NEW p \in Probes, AnswerProbe(p) PROVE IInv'
  <1> USE DEF IInv, AnswerProbe, tableVars, sweepVars
  <1> DEFINE result == IF ready[p[2]] /\ ~GenerationDone(p[1]) THEN "ready" ELSE "down"
  <1>1. /\ result \in {"ready", "down"}
        /\ p[1] \in Generations /\ p[2] \in Backends /\ p = <<p[1], p[2]>>
        /\ phase' = [phase EXCEPT ![p] = result]
        /\ observed' = IF p[1] = generation
                       THEN [observed EXCEPT ![p[2]] = result] ELSE observed
    BY DEF Probes
  <1> HIDE DEF result
  <1>2. SlotsInv'
    BY <1>1, StillInFlight
  <1>3. TypeOK'
    BY <1>1 DEF TypeOK
  <1>4. GenerationInv' /\ WakeInv'
    BY DEF GenerationInv, WakeInv
  <1>5. PendingInv'
    BY <1>1 DEF PendingInv, GenerationDone, TypeOK
  <1>6. HealthyInv'
    BY DEF HealthyInv, HealthRunning
  <1>7. AdmissionFollowsObservation'
    <2> SUFFICES ASSUME NEW b \in DOMAIN health
                 PROVE  AdmissionFollowsObservation!(b)'
      BY DEF AdmissionFollowsObservation
    <2>1. b \in Backends
      BY MembersAreBackends DEF TypeOK
    <2>2. CASE p = <<generation, b>>
      BY <1>1, <2>1, <2>2 DEF AdmissionFollowsObservation, TypeOK
    <2>3. CASE p # <<generation, b>>
      <3>1. observed'[b] = observed[b] /\ phase'[<<generation, b>>] = phase[<<generation, b>>]
        BY <1>1, <2>1, <2>3 DEF TypeOK
      <3> QED BY <3>1 DEF AdmissionFollowsObservation, GenerationDone
    <2> QED BY <2>2, <2>3
  <1> QED BY <1>2, <1>3, <1>4, <1>5, <1>6, <1>7

\* Only the answer of a live, current probe reaches a record, and it is the
\* last observation.
LEMMA PublishProbeInv == ASSUME IInv, NEW p \in Probes, PublishProbe(p) PROVE IInv'
  <1> USE DEF IInv, PublishProbe
  <1>1. SlotsInv' /\ slots' \subseteq Probes /\ HealthRunning
    BY RetireSlots
  <1>2. GenerationInv' /\ WakeInv' /\ PendingInv'
    BY DEF GenerationInv, WakeInv, PendingInv, GenerationDone, Retire, TypeOK
  <1>3. p[1] \in Generations /\ p[2] \in Backends /\ p = <<p[1], p[2]>>
    BY DEF Probes
  <1>4. CASE IsCurrent(p)
    <2>1. health' = [health EXCEPT ![p[2]] =
                       [healthy |-> phase[p] = "ready", checked |-> TRUE, due |-> FALSE]]
      BY <1>4
    <2>2. health' \in [GatedMembers(table) -> HealthState]
      BY <2>1 DEF TypeOK, HealthState
    <2>3. TypeOK'
      <3>1. served' = served \/ served' = <<>>
        BY <1>4, Zenon
      <3>2. served' \in Seq(Nat)
        <4>1. served \in Seq(Nat) /\ <<>> \in Seq(Nat)
          BY DEF TypeOK
        <4> QED BY <3>1, <4>1, Zenon
      <3> QED BY <2>2, <3>2, RetireSlots DEF TypeOK, Retire
    <2>4. observed[p[2]] = phase[p] /\ p[1] = generation /\ p[2] \in DOMAIN health
      BY <1>3, <1>4 DEF PendingInv, IsCurrent
    <2>5. HealthyInv'
      BY <1>1, <2>1 DEF HealthyInv, HealthRunning, Retire, TypeOK
    <2>6. AdmissionFollowsObservation'
      <3> SUFFICES ASSUME NEW b \in DOMAIN health
                   PROVE  AdmissionFollowsObservation!(b)'
        BY <2>1 DEF AdmissionFollowsObservation
      <3>1. CASE b = p[2]
        BY <2>1, <2>4, <3>1 DEF Retire
      <3>2. CASE b # p[2]
        <4>1. health'[b] = health[b] /\ phase'[<<generation, b>>] = phase[<<generation, b>>]
          BY <1>3, <2>1, <3>2 DEF Retire, TypeOK
        <4> QED BY <4>1 DEF AdmissionFollowsObservation, GenerationDone, Retire
      <3> QED BY <3>1, <3>2
    <2> QED BY <1>1, <1>2, <2>3, <2>5, <2>6
  <1>5. CASE ~IsCurrent(p)
    <2>1. UNCHANGED <<health, served>>
      BY <1>5
    <2>2. TypeOK'
      BY <2>1, RetireSlots DEF TypeOK, Retire
    <2>3. HealthyInv'
      BY <2>1 DEF HealthyInv, HealthRunning, Retire
    <2>4. AdmissionFollowsObservation'
      BY <1>3, <1>5, <2>1, MembersAreBackends
         DEF AdmissionFollowsObservation, GenerationDone, IsCurrent, Retire, TypeOK
    <2> QED BY <1>1, <1>2, <2>2, <2>3, <2>4
  <1> QED BY <1>4, <1>5

-----------------------------------------------------------------------------
(* The environment. *)

LEMMA IntervalElapsesInv == ASSUME IInv, NEW b \in Backends, IntervalElapses(b) PROVE IInv'
  <1> USE DEF IInv, IntervalElapses, tableVars, sweepVars
  <1>1. health' \in [GatedMembers(table) -> HealthState]
    BY DEF TypeOK, HealthState
  <1>2. \A c \in DOMAIN health : /\ health'[c].healthy = health[c].healthy
                                 /\ health'[c].checked = health[c].checked
    BY DEF TypeOK, HealthState
  <1>3. TypeOK'
    BY <1>1 DEF TypeOK
  <1>4. SlotsInv' /\ GenerationInv' /\ WakeInv' /\ PendingInv'
    BY DEF SlotsInv, InFlight, GenerationInv, WakeInv, PendingInv, GenerationDone
  <1>5. HealthyInv' /\ AdmissionFollowsObservation'
    BY <1>2 DEF HealthyInv, HealthRunning, AdmissionFollowsObservation, GenerationDone
  <1> QED BY <1>3, <1>4, <1>5

\* A change outside the router: a backend, the signal, a context cancelled.
LEMMA OutsideInv ==
    ASSUME IInv,
           UNCHANGED <<tableVars, health, generation, wake, observed, sweepVars, phase>>,
           cancelled \subseteq cancelled', cancelled' \subseteq Generations,
           shutdown' \in BOOLEAN, ready' \in [Backends -> BOOLEAN]
    PROVE  IInv'
  <1> USE DEF IInv, tableVars, sweepVars
  <1>1. TypeOK'
    BY DEF TypeOK
  <1>2. SlotsInv' /\ GenerationInv' /\ WakeInv' /\ PendingInv'
    BY DEF SlotsInv, InFlight, GenerationInv, WakeInv, PendingInv, GenerationDone
  <1>3. HealthyInv' /\ AdmissionFollowsObservation'
    BY DEF HealthyInv, HealthRunning, AdmissionFollowsObservation, GenerationDone
  <1> QED BY <1>1, <1>2, <1>3

LEMMA EnvironmentInv ==
    ASSUME IInv, Signal \/ PropagateCancel \/ \E b \in Backends : BackendChanges(b)
    PROVE  IInv'
  <1> USE DEF IInv, TypeOK, recordVars
  <1>1. CASE Signal
    BY <1>1, OutsideInv DEF Signal
  <1>2. CASE PropagateCancel
    BY <1>2, OutsideInv DEF PropagateCancel
  <1>3. ASSUME NEW b \in Backends, BackendChanges(b) PROVE IInv'
    BY <1>3, OutsideInv DEF BackendChanges
  <1> QED BY <1>1, <1>2, <1>3

LEMMA StutterInv == ASSUME IInv, UNCHANGED vars PROVE IInv'
  BY OutsideInv DEF IInv, TypeOK, vars, recordVars

-----------------------------------------------------------------------------
(* The invariant and what follows from it. *)

LEMMA NextIInv == IInv /\ [Next]_vars => IInv'
  <1> SUFFICES ASSUME IInv, [Next]_vars PROVE IInv'
    OBVIOUS
  <1>1. ASSUME NEW t \in Tables, Update(t) PROVE IInv'
    BY <1>1, UpdateInv
  <1>2. CASE Resolve
    BY <1>2, ResolveInv
  <1>3. CASE RunnerStep
    BY <1>3, StartRunnerInv, RunnerMovesInv, CaptureInv, SpawnInv, StopRunnerInv
       DEF RunnerStep
  <1>4. ASSUME NEW p \in Probes, ProbeStep(p) PROVE IInv'
    <2>1. CASE CheckProbe(p) \/ SendProbe(p)
      BY <2>1, PassProbeInv DEF CheckProbe, SendProbe
    <2> QED BY <1>4, <2>1, AbandonProbeInv, AnswerProbeInv, PublishProbeInv DEF ProbeStep
  <1>5. ASSUME NEW b \in Backends, IntervalElapses(b) PROVE IInv'
    BY <1>5, IntervalElapsesInv
  <1>6. CASE Signal \/ PropagateCancel \/ \E b \in Backends : BackendChanges(b)
    BY <1>6, EnvironmentInv
  <1>7. CASE UNCHANGED vars
    BY <1>7, StutterInv
  <1> QED BY <1>1, <1>2, <1>3, <1>4, <1>5, <1>6, <1>7 DEF Next

LEMMA SpecIInv == Spec => []IInv
  BY InitIInv, NextIInv, PTL DEF Spec

\* Every reachable state of the router's health machinery is well typed, and
\* its records are those of the installed table.
THEOREM TypeCorrect == Spec => []TypeOK
  <1>1. IInv => TypeOK
    BY DEF IInv
  <1> QED BY <1>1, SpecIInv, PTL

\* RunHealth never has more than MaxWorkers probes in flight, over all reloads.
THEOREM ProbesAreBounded == Spec => []ProbeBound
  <1>1. IInv => ProbeBound
    BY DEF IInv, SlotsInv, ProbeBound
  <1> QED BY <1>1, SpecIInv, PTL

\* No probe of an earlier table, and no overtaken answer, ever admits a backend.
THEOREM AdmissionIsObserved == Spec => []AdmissionFollowsObservation
  <1>1. IInv => AdmissionFollowsObservation
    BY DEF IInv
  <1> QED BY <1>1, SpecIInv, PTL

\* The health report and the choice of backends agree in every state.
THEOREM SnapshotIsTraffic == Spec => []SnapshotAgreesWithTraffic
  <1>1. IInv => SnapshotAgreesWithTraffic
    <2> SUFFICES ASSUME IInv, table.gated
                 PROVE  {b \in DOMAIN health : SnapshotState(b) = "ready"} = EligibleSet
      BY DEF SnapshotAgreesWithTraffic
    <2>1. DOMAIN health = Members(table)
      BY DEF IInv, TypeOK, GatedMembers
    <2>2. \A b \in DOMAIN health : SnapshotState(b) = "ready" <=> health[b].healthy
      BY DEF IInv, HealthyInv, SnapshotState
    <2> QED BY <2>1, <2>2 DEF EligibleSet, Eligible
  <1> QED BY <1>1, SpecIInv, PTL

\* The wake-up of a reload survives until a sweep has read the new records.
THEOREM WakeIsKept == Spec => []NoLostWake
  <1>1. IInv => NoLostWake
    BY DEF IInv, WakeInv, NoLostWake
  <1> QED BY <1>1, SpecIInv, PTL

\* A worker of a replaced table that has not passed its check never will, and none is
\* left when the workers of the new table start.
THEOREM ReplacedTablesAreLeftAlone == Spec => ReplacedTableDriesUp
  <1> DEFINE Dries == /\ UNCHANGED <<generation, cancelled>> => Late' \subseteq Late
                      /\ sweep' = generation' => \A p \in InFlight' : p[1] = generation'
  <1>1. ASSUME IInv, Next, UNCHANGED <<generation, cancelled>>, NEW p \in Late'
        PROVE  p \in Late
    <2>1. /\ p \in Probes
          /\ phase'[p] \in {"cleared", "asked"}
          /\ p[1] # generation \/ GenerationDone(p[1])
      BY <1>1 DEF Late, GenerationDone
    <2>2. SUFFICES ASSUME phase[p] \notin {"cleared", "asked"} PROVE FALSE
      BY <2>1 DEF Late
    <2>3. PICK q \in Probes : ProbeStep(q) \/ \E b \in Backends : Spawn(b)
      BY <1>1, <2>1, <2>2
         DEF Next, Update, Resolve, RunnerStep, StartRunner, TakeWake, TakeTick, Capture,
             ObserveCancel, CheckGeneration, FinishDispatch, AwaitWorkers, StopRunner,
             IntervalElapses, BackendChanges, Signal, PropagateCancel
    <2>4. ~\E b \in Backends : Spawn(b)
      BY <1>1, <2>1, <2>2 DEF Spawn, IInv, TypeOK, Probes
    <2>5. CheckProbe(p)
      BY <1>1, <2>1, <2>2, <2>3, <2>4
         DEF ProbeStep, AbandonProbe, CheckProbe, SendProbe, AnswerProbe, PublishProbe,
             Retire, IInv, TypeOK
    <2>6. phase[p] # "idle" /\ ~GenerationDone(p[1])
      BY <2>5 DEF CheckProbe
    <2>7. p[1] \in Generations /\ generation \in Generations
      BY <1>1, <2>1 DEF IInv, TypeOK, Probes
    <2>8. p[1] <= generation
      BY <1>1, <2>1, <2>6, <2>7
         DEF IInv, SlotsInv, InFlight, GenerationInv, TypeOK, Generations
    <2>9. ~(p[1] < generation)
      BY <1>1, <2>6, <2>7 DEF IInv, GenerationInv, GenerationDone
    <2>10. p[1] = generation
      BY <2>7, <2>8, <2>9, GenerationAssumption DEF Generations, GenerationAssumption
    <2> QED BY <2>1, <2>6, <2>10
  <1>2. IInv /\ [Next]_vars => SlotsInv'
    BY NextIInv DEF IInv
  <1>3. IInv /\ [Next]_vars => [Dries]_vars
    BY <1>1, <1>2 DEF SlotsInv
  <1> HIDE DEF Dries
  <1>4. Spec => [][Dries]_vars
    BY <1>3, SpecIInv, PTL DEF Spec
  <1> QED BY <1>4 DEF ReplacedTableDriesUp, Dries

-----------------------------------------------------------------------------
(* The rotation over the eligible members. *)

\* The number of eligible members before position i.
Rank(i) == Cardinality({j \in Turns : j < i})

\* The offset that n turns in a row had d steps before the offset p.
Earlier(p, d, n) == IF p >= d THEN p - d ELSE (p + n) - d

\* The picks of a rotation are the last offsets the counter went through.
RotationInv ==
    /\ Len(served) <= Cardinality(Turns)
    /\ \A m \in 1..Len(served) :
          /\ served[m] \in Turns
          /\ Rank(served[m]) = Earlier(cursor % Cardinality(Turns),
                                       (Len(served) - m) + 1, Cardinality(Turns))

\* One more step of a counter is one step further around a ring of n.
LEMMA RingStep ==
    ASSUME NEW n \in Nat \ {0}, NEW a \in Nat
    PROVE  /\ a % n \in 0..(n - 1)
           /\ (a + 1) % n = IF (a % n) + 1 = n THEN 0 ELSE (a % n) + 1
  <1> DEFINE q == a \div n
             r == a % n
  <1>1. q \in Int /\ r \in 0..(n - 1) /\ a = (n * q) + r
    OBVIOUS
  <1>2. ASSUME NEW k \in Int, NEW x \in 0..(n - 1) PROVE ((n * k) + x) % n = x
    OBVIOUS
  <1> HIDE DEF q, r
  <1>3. CASE r + 1 = n
    <2>1. a + 1 = (n * (q + 1)) + 0 /\ q + 1 \in Int /\ 0 \in 0..(n - 1)
      BY <1>1, <1>3
    <2>2. (a + 1) % n = 0
      BY <1>2, <2>1
    <2> QED BY <1>1, <1>3, <2>2 DEF r
  <1>4. CASE r + 1 # n
    <2>1. a + 1 = (n * q) + (r + 1) /\ r + 1 \in 0..(n - 1)
      BY <1>1, <1>4
    <2>2. (a + 1) % n = r + 1
      BY <1>1, <1>2, <2>1
    <2> QED BY <1>1, <1>4, <2>2 DEF r
  <1> QED BY <1>3, <1>4

\* The pool counter wraps at a multiple of n, so that it too goes around the ring.
LEMMA CursorStep ==
    ASSUME NEW n \in Nat \ {0}, CursorCycle % n = 0, cursor \in 0..(CursorCycle - 1)
    PROVE  /\ cursor % n \in 0..(n - 1)
           /\ NextCursor % n = IF (cursor % n) + 1 = n THEN 0 ELSE (cursor % n) + 1
  <1>1. CursorCycle \in Nat \ {0} /\ cursor \in Nat
    BY CycleAssumption DEF CycleAssumption
  <1>2. /\ cursor % n \in 0..(n - 1)
        /\ (cursor + 1) % n = IF (cursor % n) + 1 = n THEN 0 ELSE (cursor % n) + 1
    BY <1>1, RingStep
  <1>3. NextCursor = IF cursor + 1 = CursorCycle THEN 0 ELSE cursor + 1
    BY <1>1 DEF NextCursor
  <1>4. 0 % n = 0
    OBVIOUS
  <1> QED BY <1>2, <1>3, <1>4

\* Some positions of a table: finitely many, and no more of them than members.
LEMMA PositionsAreFinite ==
    ASSUME NEW t \in Tables \cup {NoRoutes}, NEW T \in SUBSET DOMAIN t.members
    PROVE  /\ T \subseteq Nat
           /\ IsFiniteSet(T)
           /\ Cardinality(T) \in Nat
           /\ T # {} => /\ Cardinality(T) # 0
                        /\ CursorCycle % Cardinality(T) = 0
  <1>1. t.members \in Seq(Backends)
    BY MembersAreBackends
  <1>2. T \subseteq 1..Len(t.members) /\ Len(t.members) \in Nat
    BY <1>1
  <1>3. /\ IsFiniteSet(1..Len(t.members))
        /\ Cardinality(1..Len(t.members)) = Len(t.members)
    <2> DEFINE n == Len(t.members)
    <2>1. 1 \in Int /\ n \in Int /\ n \in Nat
      BY <1>2
    <2> HIDE DEF n
    <2>2. IsFiniteSet(1..n) /\ Cardinality(1..n) = IF 1 > n THEN 0 ELSE n - 1 + 1
      BY <2>1, FS_Interval
    <2>3. Cardinality(1..n) = n
      BY <2>1, <2>2
    <2> QED BY <2>2, <2>3 DEF n
  <1>4. IsFiniteSet(T) /\ Cardinality(T) <= Len(t.members)
    BY <1>2, <1>3, FS_Subset
  <1>5. Cardinality(T) \in Nat
    BY <1>4, FS_CardinalityType
  <1>6. ASSUME T # {} PROVE Cardinality(T) # 0 /\ CursorCycle % Cardinality(T) = 0
    <2>1. Cardinality(T) # 0
      BY <1>4, <1>6, FS_EmptySet
    <2>2. t \in Tables
      BY <1>6 DEF NoRoutes
    <2> QED BY <1>2, <1>4, <1>5, <2>1, <2>2, CycleAssumption DEF CycleAssumption
  <1> QED BY <1>2, <1>4, <1>5, <1>6

LEMMA TurnsAreFinite ==
    ASSUME TypeOK
    PROVE  /\ Turns \subseteq Nat
           /\ IsFiniteSet(Turns)
           /\ Cardinality(Turns) \in Nat
           /\ Turns # {} => /\ Cardinality(Turns) # 0
                            /\ CursorCycle % Cardinality(Turns) = 0
  <1>1. Turns \subseteq DOMAIN table.members /\ table \in Tables \cup {NoRoutes}
    BY DEF Turns, TypeOK
  <1> QED BY <1>1, PositionsAreFinite

LEMMA NoPicks == ASSUME TypeOK, served = <<>> PROVE RotationInv
  BY TurnsAreFinite DEF RotationInv

\* A request appends the offset of the counter, or starts over after a full rotation.
LEMMA ResolveRotation == ASSUME IInv, RotationInv, Resolve PROVE RotationInv'
  <1> DEFINE n == Cardinality(Turns)
             p == cursor % n
             k == Len(served)
  <1>1. PICK i \in Turns : /\ Rank(i) = p
                           /\ served' = IF k = n THEN <<i>> ELSE Append(served, i)
    BY DEF Resolve, Rank
  <1>2. n \in Nat \ {0} /\ CursorCycle % n = 0 /\ i \in Nat
    BY <1>1, TurnsAreFinite DEF IInv
  <1>3. p \in 0..(n - 1) /\ cursor' % n = IF p + 1 = n THEN 0 ELSE p + 1
    BY <1>2, CursorStep DEF IInv, TypeOK, Resolve
  <1>4. Turns' = Turns /\ \A j : Rank(j)' = Rank(j)
    BY DEF Resolve, Turns, Eligible, Rank, recordVars
  <1>5. served \in Seq(Nat) /\ k \in Nat /\ k <= n
    BY <1>2 DEF IInv, TypeOK, RotationInv
  <1>6. \A m \in 1..k : /\ served[m] \in Turns
                        /\ Rank(served[m]) = Earlier(p, (k - m) + 1, n)
    BY DEF RotationInv
  <1> DEFINE pnext == cursor' % n
  <1> HIDE DEF n, p, k, pnext
  <1>7. pnext = IF p + 1 = n THEN 0 ELSE p + 1
    BY <1>3 DEF pnext
  <1>8. Earlier(pnext, 1, n) = p
    BY <1>2, <1>3, <1>7 DEF Earlier
  <1>9. \A d \in 1..(n - 1) : Earlier(pnext, d + 1, n) = Earlier(p, d, n)
    BY <1>2, <1>3, <1>7 DEF Earlier
  <1>10. SUFFICES /\ Len(served') <= n
                  /\ \A m \in 1..Len(served') :
                        /\ served'[m] \in Turns
                        /\ Rank(served'[m]) = Earlier(pnext, (Len(served') - m) + 1, n)
    BY <1>4 DEF RotationInv, n, pnext
  <1>11. CASE k = n
    <2>1. served' = <<i>> /\ Len(served') = 1
      BY <1>1, <1>11
    <2> QED BY <1>1, <1>2, <1>8, <2>1
  <1>12. CASE k # n
    <2>1. served' = Append(served, i) /\ Len(served') = k + 1
      BY <1>1, <1>5, <1>12 DEF k
    <2>2. k + 1 <= n
      BY <1>2, <1>5, <1>12
    <2>3. ASSUME NEW m \in 1..(k + 1)
          PROVE  /\ served'[m] \in Turns
                 /\ Rank(served'[m]) = Earlier(pnext, ((k + 1) - m) + 1, n)
      <3>1. CASE m = k + 1
        <4>1. served'[m] = i /\ ((k + 1) - m) + 1 = 1
          BY <1>5, <2>1, <3>1 DEF k
        <4> QED BY <1>1, <1>8, <4>1
      <3>2. CASE m # k + 1
        <4>1. m \in 1..k /\ served'[m] = served[m]
          BY <1>5, <2>1, <2>3, <3>2 DEF k
        <4>2. (k - m) + 1 \in 1..(n - 1) /\ ((k + 1) - m) + 1 = ((k - m) + 1) + 1
          BY <1>2, <1>5, <2>2, <4>1
        <4>3. Earlier(pnext, ((k + 1) - m) + 1, n) = Earlier(p, (k - m) + 1, n)
          BY <1>9, <4>2
        <4> QED BY <1>6, <4>1, <4>3
      <3> QED BY <3>1, <3>2
    <2> QED BY <2>1, <2>2, <2>3
  <1> QED BY <1>11, <1>12

\* Every other step starts a history over or leaves the turns and the counter alone.
LEMMA OtherStepsRotation ==
    ASSUME IInv, [Next]_vars, ~Resolve
    PROVE  \/ served' = <<>>
           \/ UNCHANGED <<served, cursor, table>> /\ EligibleSet' = EligibleSet
  <1> DEFINE Goal == \/ served' = <<>>
                     \/ UNCHANGED <<served, cursor, table>> /\ EligibleSet' = EligibleSet
  <1> USE DEF tableVars, recordVars
  <1>1. ASSUME UNCHANGED tableVars, UNCHANGED health PROVE Goal
    BY <1>1 DEF EligibleSet, Eligible
  <1>2. ASSUME NEW t \in Tables, Update(t) PROVE Goal
    BY <1>2 DEF Update
  <1>3. CASE StartRunner
    <2>1. UNCHANGED <<cursor, table>> /\ health' = FreshRecords(table)
      BY <1>3 DEF StartRunner, ResetHealth
    <2>2. EligibleSet' = IF table.gated THEN {} ELSE EligibleSet
      BY <2>1 DEF EligibleSet, Eligible, FreshRecords, GatedMembers, Unchecked
    <2>3. served' = Rotation(IF table.gated THEN {} ELSE EligibleSet)
      BY <1>3 DEF StartRunner
    <2> QED BY <2>1, <2>2, <2>3 DEF Rotation
  <1>4. CASE StopRunner
    <2>1. UNCHANGED <<cursor, table>> /\ health' = NoneHealthy
      BY <1>4 DEF StopRunner
    <2>2. EligibleSet' = IF table.gated THEN {} ELSE EligibleSet
      BY <2>1 DEF EligibleSet, Eligible, NoneHealthy, GatedMembers, HealthState, IInv, TypeOK
    <2>3. served' = Rotation(IF table.gated THEN {} ELSE EligibleSet)
      BY <1>4 DEF StopRunner
    <2> QED BY <2>1, <2>2, <2>3 DEF Rotation
  <1>5. CASE TakeWake \/ TakeTick \/ Capture \/ ObserveCancel \/ CheckGeneration
             \/ FinishDispatch \/ AwaitWorkers \/ \E b \in Backends : Spawn(b)
    BY <1>1, <1>5 DEF TakeWake, TakeTick, Capture, ObserveCancel, CheckGeneration,
                      FinishDispatch, AwaitWorkers, Spawn
  <1>6. ASSUME NEW q \in Probes, ProbeStep(q) PROVE Goal
    <2>1. CASE AbandonProbe(q) \/ CheckProbe(q) \/ SendProbe(q) \/ AnswerProbe(q)
      BY <1>1, <2>1 DEF AbandonProbe, CheckProbe, SendProbe, AnswerProbe, Retire
    <2>2. CASE PublishProbe(q)
      <3>1. UNCHANGED <<cursor, table>>
        BY <2>2 DEF PublishProbe, Retire
      <3>2. CASE IsCurrent(q) /\ health[q[2]].healthy = (phase[q] = "ready")
        <4>1. /\ served' = served
              /\ health' = [health EXCEPT ![q[2]] =
                   [healthy |-> phase[q] = "ready", checked |-> TRUE, due |-> FALSE]]
          BY <2>2, <3>2 DEF PublishProbe
        <4>2. \A b \in DOMAIN health : health'[b].healthy = health[b].healthy
          BY <3>2, <4>1 DEF IInv, TypeOK, HealthState
        <4>3. table.gated => DOMAIN health = Members(table)
          BY DEF IInv, TypeOK, GatedMembers
        <4> QED BY <3>1, <4>1, <4>2, <4>3 DEF EligibleSet, Eligible
      <3>3. CASE ~IsCurrent(q)
        BY <1>1, <2>2, <3>1, <3>3 DEF PublishProbe
      <3>4. CASE IsCurrent(q) /\ health[q[2]].healthy # (phase[q] = "ready")
        BY <2>2, <3>4 DEF PublishProbe
      <3> QED BY <3>2, <3>3, <3>4
    <2> QED BY <1>6, <2>1, <2>2 DEF ProbeStep
  <1>7. ASSUME NEW b \in Backends, IntervalElapses(b) PROVE Goal
    <2>1. UNCHANGED tableVars /\ health' = [health EXCEPT ![b].due = TRUE]
      BY <1>7 DEF IntervalElapses
    <2>2. \A c \in DOMAIN health : health'[c].healthy = health[c].healthy
      BY <2>1 DEF IInv, TypeOK, HealthState
    <2>3. table.gated => DOMAIN health = Members(table)
      BY DEF IInv, TypeOK, GatedMembers
    <2> QED BY <2>1, <2>2, <2>3 DEF EligibleSet, Eligible
  <1>8. CASE Signal \/ PropagateCancel \/ (\E b \in Backends : BackendChanges(b)) \/ UNCHANGED vars
    BY <1>1, <1>8 DEF Signal, PropagateCancel, BackendChanges, vars
  <1> QED BY <1>2, <1>3, <1>4, <1>5, <1>6, <1>7, <1>8 DEF Next, RunnerStep

LEMMA NextRotation == IInv /\ RotationInv /\ [Next]_vars => RotationInv'
  <1> SUFFICES ASSUME IInv, RotationInv, [Next]_vars PROVE RotationInv'
    OBVIOUS
  <1>1. TypeOK'
    BY NextIInv DEF IInv
  <1>2. CASE Resolve
    BY <1>2, ResolveRotation
  <1>3. ASSUME served' = <<>> PROVE RotationInv'
    <2>1. Turns' \subseteq DOMAIN table'.members /\ table' \in Tables \cup {NoRoutes}
      BY <1>1 DEF Turns, TypeOK
    <2>2. Cardinality(Turns') \in Nat
      BY <2>1, PositionsAreFinite
    <2> QED BY <1>3, <2>2 DEF RotationInv
  <1>4. ASSUME UNCHANGED <<served, cursor, table>>, EligibleSet' = EligibleSet
        PROVE  RotationInv'
    <2>1. Turns = {i \in DOMAIN table.members : table.members[i] \in EligibleSet}
      BY DEF Turns, EligibleSet, Members
    <2>2. Turns' = {i \in DOMAIN table'.members : table'.members[i] \in EligibleSet'}
      BY DEF Turns, EligibleSet, Members
    <2>3. Turns' = Turns
      BY <1>4, <2>1, <2>2
    <2> QED BY <1>4, <2>3 DEF RotationInv, Rank
  <1> QED BY <1>2, <1>3, <1>4, OtherStepsRotation

\* Picks at different offsets are different: a window of at most n steps around a
\* ring of n meets no offset twice.
LEMMA WindowIsFair == ASSUME TypeOK, RotationInv PROVE RotationIsFair
  <1> DEFINE n == Cardinality(Turns)
             p == cursor % n
             k == Len(served)
             Picked == {served[i] : i \in DOMAIN served}
  <1>1. served \in Seq(Nat) /\ k \in Nat /\ DOMAIN served = 1..k
    BY DEF TypeOK
  <1>2. Picked \subseteq Turns
    BY <1>1 DEF RotationInv
  <1>3. ASSUME NEW a \in 1..k, NEW b \in 1..k, a # b PROVE served[a] # served[b]
    <2>1. Turns # {}
      BY DEF RotationInv
    <2>2. n \in Nat \ {0} /\ p \in 0..(n - 1) /\ k <= n
      BY <1>1, <2>1, TurnsAreFinite, CursorStep DEF TypeOK, RotationInv
    <2>3. /\ Rank(served[a]) = Earlier(p, (k - a) + 1, n)
          /\ Rank(served[b]) = Earlier(p, (k - b) + 1, n)
      BY DEF RotationInv
    <2> HIDE DEF n, p, k
    <2>4. Earlier(p, (k - a) + 1, n) # Earlier(p, (k - b) + 1, n)
      BY <1>1, <1>3, <2>2 DEF Earlier
    <2> QED BY <2>3, <2>4
  <1>4. Cardinality(Picked) = k
    <2>1. served \in Bijection(1..k, Picked)
      BY <1>1, <1>3 DEF Bijection, Injection, Surjection, IsInjective
    <2> QED BY <1>1, <2>1, FS_CountingElements DEF ExistsBijection
  <1> QED BY <1>2, <1>4 DEF RotationIsFair

\* While the eligible members stay the same, no request goes to one of them a second
\* time before every other one had its turn, for every pool (router.go:224-230).
THEOREM RotationStaysFair == Spec => []RotationIsFair
  <1>1. Init => TypeOK /\ served = <<>>
    BY InitIInv DEF IInv, Init
  <1>2. Init => RotationInv
    BY <1>1, NoPicks
  <1>3. Spec => []RotationInv
    BY <1>2, SpecIInv, NextRotation, PTL DEF Spec
  <1>4. IInv /\ RotationInv => RotationIsFair
    BY WindowIsFair DEF IInv
  <1> QED BY <1>3, <1>4, SpecIInv, PTL
=============================================================================
