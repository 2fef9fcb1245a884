------------------------- MODULE SteadyState_proofs -------------------------
(***************************************************************************)
(* Theorems about SteadyState, for every number of mutants, permits,       *)
(* epochs and errors: the permits of _in_flight_sema are conserved, the    *)
(* engine's state is well typed (in particular the semaphore is never      *)
(* released above its initial value), no stored mutant is forgotten, none  *)
(* is judged twice, a drain is complete when it closes the gate, and run() *)
(* returns with nothing in flight.                                         *)
(***************************************************************************)
EXTENDS SteadyState, FiniteSetTheorems, TLAPS

TaskPhases == {"free", "mutating", "persisted", "tracked", "lost"}
LoopPoints == {"gate", "acquire", "granted", "ending", "ended"}

SlotTypeOK ==
  /\ free \in Nat /\ inFlight \subseteq Mutants
  /\ lpc \in LoopPoints
  /\ task \in [Mutants -> TaskPhases]

(* A program in flight no longer has a mutation task that owns a permit.   *)
InFlightTracked == \A m \in inFlight : task[m] = "tracked"

(* The inductive invariant.                                                *)
SlotInv == SlotTypeOK /\ InFlightTracked /\ SlotsConserved

-----------------------------------------------------------------------------
(* Facts about the two sets that hold permits.                             *)

(* Both are finite.                                                        *)
LEMMA Finite ==
  ASSUME SlotTypeOK
  PROVE  /\ IsFiniteSet(Owning) /\ Cardinality(Owning) \in Nat
         /\ IsFiniteSet(inFlight) /\ Cardinality(inFlight) \in Nat
<1>1. IsFiniteSet(Mutants) /\ Owning \subseteq Mutants /\ inFlight \subseteq Mutants
  BY SteadyAssumption DEF Owning, SlotTypeOK
<1>2. IsFiniteSet(Owning) /\ IsFiniteSet(inFlight)
  BY <1>1, FS_Subset
<1> QED BY <1>2, FS_CardinalityType

(* A task that starts adds one owner.                                      *)
LEMMA OwnerAdded ==
  ASSUME SlotTypeOK, NEW m \in Mutants, m \notin Owning,
         task' = [task EXCEPT ![m] = "mutating"]
  PROVE  Cardinality(Owning') = Cardinality(Owning) + 1
<1>1. Owning' = Owning \cup {m}
  BY DEF SlotTypeOK, Owning
<1> QED BY <1>1, Finite, FS_AddElement

(* A task that gives its permit up removes one.                            *)
LEMMA OwnerGone ==
  ASSUME SlotTypeOK, NEW m \in Owning, NEW v \in {"free", "tracked", "lost"},
         task' = [task EXCEPT ![m] = v]
  PROVE  /\ Cardinality(Owning') = Cardinality(Owning) - 1
         /\ Cardinality(Owning') \in Nat
<1>1. Owning' = Owning \ {m}
  BY DEF SlotTypeOK, Owning
<1>2. IsFiniteSet(Owning')
  BY <1>1, Finite, FS_RemoveElement
<1> QED BY <1>1, <1>2, Finite, FS_RemoveElement, FS_CardinalityType

(* Releasing a batch returns exactly the permits of those in flight.       *)
LEMMA Freed ==
  ASSUME SlotTypeOK, NEW ms, FreeSlots(ms)
  PROVE  /\ free' + Cardinality(inFlight') = free + Cardinality(inFlight)
         /\ free' \in Nat /\ inFlight' \subseteq inFlight
         /\ Cardinality(inFlight') \in Nat
<1>1. IsFiniteSet(inFlight) /\ Cardinality(inFlight) \in Nat
  BY Finite
<1>2. /\ IsFiniteSet(inFlight \ ms)
      /\ Cardinality(inFlight \ ms) = Cardinality(inFlight) - Cardinality(inFlight \cap ms)
  BY <1>1, FS_Difference
<1>3. Cardinality(inFlight \cap ms) \in Nat
  BY <1>1, FS_Intersection, FS_CardinalityType
<1>4. free' = free + Cardinality(inFlight \cap ms) /\ inFlight' = inFlight \ ms
  <2>1. ms \cap inFlight = inFlight \cap ms
    OBVIOUS
  <2> QED BY <2>1 DEF FreeSlots
<1>5. free \in Nat
  BY DEF SlotTypeOK
<1>6. Cardinality(inFlight') = Cardinality(inFlight) - Cardinality(inFlight \cap ms)
  BY <1>2, <1>4
<1>7. free' + Cardinality(inFlight') = free + Cardinality(inFlight)
  BY <1>1, <1>3, <1>4, <1>5, <1>6
<1>8. Cardinality(inFlight') \in Nat
  BY <1>2, <1>4, FS_CardinalityType
<1> QED BY <1>3, <1>4, <1>5, <1>7, <1>8

(* How the terms of SlotsConserved may change together.                    *)
LEMMA Balance ==
  ASSUME SlotInv, free' \in Nat, held' \in Nat,
         Cardinality(Owning') \in Nat, Cardinality(inFlight') \in Nat,
         free' + held' + Cardinality(Owning') + Cardinality(inFlight')
           = free + held + Cardinality(Owning) + Cardinality(inFlight)
  PROVE  SlotsConserved'
BY DEF SlotInv, SlotsConserved

(* A step that touches neither the semaphore, the tasks nor the loop.      *)
LEMMA SlotsUntouched ==
  ASSUME SlotInv, UNCHANGED <<slots, mutate>>
  PROVE  SlotInv'
BY DEF SlotInv, SlotTypeOK, InFlightTracked, SlotsConserved, Owning, held, slots, mutate

(* A step that releases a batch and touches neither the tasks nor the loop.*)
LEMMA SlotsFreed ==
  ASSUME SlotInv, NEW ms, FreeSlots(ms), UNCHANGED mutate
  PROVE  SlotInv'
<1>1. /\ free' + Cardinality(inFlight') = free + Cardinality(inFlight)
      /\ free' \in Nat /\ inFlight' \subseteq inFlight
      /\ Cardinality(inFlight') \in Nat
  BY Freed DEF SlotInv
<1>2. Owning' = Owning /\ lpc' = lpc /\ task' = task
  BY DEF mutate, Owning
<1>3. SlotTypeOK' /\ InFlightTracked'
  BY <1>1, <1>2 DEF SlotInv, SlotTypeOK, InFlightTracked
<1>4. /\ free \in Nat /\ held \in Nat /\ held' = held
      /\ Cardinality(Owning') = Cardinality(Owning)
      /\ Cardinality(Owning) \in Nat /\ Cardinality(inFlight) \in Nat
  BY <1>2, Finite DEF held, SlotInv, SlotTypeOK
<1>5. SlotsConserved'
  BY <1>1, <1>4, Balance
<1> QED BY <1>3, <1>5 DEF SlotInv

-----------------------------------------------------------------------------
(* The semaphore is full and nothing holds a permit when the loops start.  *)
LEMMA SlotInit == Init => SlotInv
<1> SUFFICES ASSUME Init PROVE SlotInv
  OBVIOUS
<1>1. Owning = {}
  BY DEF Init, Owning
<1>2. SlotTypeOK /\ InFlightTracked
  BY SteadyAssumption DEF Init, SlotTypeOK, InFlightTracked, LoopPoints, TaskPhases
<1>3. /\ Cardinality(Owning) = 0 /\ Cardinality(inFlight) = 0
      /\ held = 0 /\ free = MaxInFlight
  BY <1>1, FS_EmptySet DEF Init, held
<1>4. SlotsConserved
  BY <1>3, SteadyAssumption DEF SlotsConserved
<1> QED BY <1>2, <1>4 DEF SlotInv

(* The mutation loop: a granted permit is spent on a task or given back.   *)
LEMMA LoopKeeps == SlotInv /\ MutationLoop => SlotInv'
<1> SUFFICES ASSUME SlotInv, MutationLoop PROVE SlotInv'
  OBVIOUS
<1> USE DEF SlotTypeOK, LoopPoints, TaskPhases, InFlightTracked
<1>1. /\ Cardinality(Owning) \in Nat /\ Cardinality(inFlight) \in Nat
      /\ free \in Nat /\ SlotTypeOK
  BY Finite DEF SlotInv
<1>2. ASSUME UNCHANGED <<task, inFlight>>, SlotTypeOK', held \in Nat, held' \in Nat,
             free' + held' = free + held
      PROVE  SlotInv'
  <2>1. Owning' = Owning
    BY <1>2 DEF Owning
  <2>2. /\ Cardinality(Owning') = Cardinality(Owning)
        /\ Cardinality(inFlight') = Cardinality(inFlight)
    BY <1>2, <2>1
  <2>3. SlotsConserved'
    BY <1>1, <1>2, <2>2, Balance
  <2> QED BY <1>2, <2>3 DEF SlotInv
<1>3. CASE GatePassed
  BY <1>1, <1>2, <1>3 DEF GatePassed, slots, held
<1>4. CASE Granted
  BY <1>1, <1>2, <1>4 DEF Granted, held
<1>5. CASE StopAtCap
  BY <1>1, <1>2, <1>5 DEF StopAtCap, held
<1>6. CASE BackToGate
  BY <1>1, <1>2, <1>6 DEF BackToGate, held
<1>7. CASE LoopEnded
  BY <1>1, <1>2, <1>7 DEF LoopEnded, slots, held
<1>8. ASSUME NEW m \in Mutants, Spawn(m) PROVE SlotInv'
  <2>1. Cardinality(Owning') = Cardinality(Owning) + 1
    BY <1>1, <1>8, OwnerAdded DEF Spawn, Owning
  <2>2. SlotTypeOK' /\ InFlightTracked' /\ free' = free /\ inFlight' = inFlight
    BY <1>8 DEF Spawn, slots, SlotInv
  <2>3. held = 1 /\ held' = 0
    BY <1>8 DEF Spawn, held
  <2>4. Cardinality(inFlight') = Cardinality(inFlight)
    BY <2>2
  <2>5. SlotsConserved'
    BY <1>1, <2>1, <2>2, <2>3, <2>4, Balance
  <2> QED BY <2>2, <2>5 DEF SlotInv
<1> QED BY <1>3, <1>4, <1>5, <1>6, <1>7, <1>8 DEF MutationLoop

(* A mutation task gives its permit to _in_flight or releases it.          *)
LEMMA TaskKeeps ==
  ASSUME SlotInv, NEW m \in Mutants, MutationTask(m)
  PROVE  SlotInv'
<1> USE DEF SlotTypeOK, LoopPoints, TaskPhases, InFlightTracked
<1>1. /\ Cardinality(Owning) \in Nat /\ Cardinality(inFlight) \in Nat
      /\ IsFiniteSet(inFlight) /\ free \in Nat /\ SlotTypeOK
      /\ held \in Nat /\ (lpc' = lpc => held' = held)
  BY Finite DEF SlotInv, held
<1>2. ASSUME m \in Owning, NEW v \in {"free", "lost"}, UNCHANGED <<lpc, inFlight>>,
             task' = [task EXCEPT ![m] = v], free' = free + 1
      PROVE  SlotInv'
  <2>1. Cardinality(Owning') = Cardinality(Owning) - 1
    BY <1>1, <1>2, OwnerGone
  <2>2. SlotTypeOK' /\ InFlightTracked' /\ held' = held
    BY <1>1, <1>2 DEF SlotInv, Owning
  <2>3. Cardinality(Owning') \in Nat
    BY <1>1, <1>2, OwnerGone
  <2>4. Cardinality(inFlight') = Cardinality(inFlight)
    BY <1>2
  <2>5. SlotsConserved'
    BY <1>1, <1>2, <2>1, <2>2, <2>3, <2>4, Balance
  <2> QED BY <2>2, <2>5 DEF SlotInv
<1>3. CASE Persist(m)
  <2>1. Owning' = Owning
    BY <1>3 DEF Persist, Owning, SlotInv
  <2>2. SlotTypeOK' /\ InFlightTracked' /\ held' = held /\ free' = free /\ inFlight' = inFlight
    BY <1>1, <1>3 DEF Persist, slots, SlotInv
  <2>3. SlotsConserved'
    BY <1>1, <2>1, <2>2, Balance
  <2> QED BY <2>2, <2>3 DEF SlotInv
<1>4. CASE NoMutant(m)
  BY <1>2, <1>4 DEF NoMutant, Owning
<1>5. CASE Track(m)
  <2>1. Cardinality(Owning') = Cardinality(Owning) - 1
    BY <1>1, <1>5, OwnerGone DEF Track, Owning
  <2>2. m \notin inFlight
    BY <1>5 DEF Track, SlotInv
  <2>3. Cardinality(inFlight') = Cardinality(inFlight) + 1
    BY <1>1, <1>5, <2>2, FS_AddElement DEF Track
  <2>4. SlotTypeOK' /\ InFlightTracked' /\ held' = held /\ free' = free
    BY <1>1, <1>5 DEF Track, SlotInv
  <2>5. Cardinality(Owning') \in Nat
    BY <1>1, <1>5, OwnerGone DEF Track, Owning
  <2>6. SlotsConserved'
    BY <1>1, <2>1, <2>3, <2>4, <2>5, Balance
  <2> QED BY <2>4, <2>6 DEF SlotInv
<1>6. CASE CancelTask(m)
  BY <1>2, <1>6 DEF CancelTask, Owning
<1> QED BY <1>3, <1>4, <1>5, <1>6 DEF MutationTask

(* Polls, ingestions, drains and epochs release what is in flight only.    *)
LEMMA IngestionKeeps == SlotInv /\ Ingestion => SlotInv'
<1> SUFFICES ASSUME SlotInv, Ingestion PROVE SlotInv'
  OBVIOUS
<1>1. CASE Release
  <2> DEFINE ms == handled \cup gone
  <2>1. FreeSlots(ms) /\ UNCHANGED mutate
    BY <1>1 DEF Release
  <2> HIDE DEF ms
  <2> QED BY <2>1, SlotsFreed
<1>2. CASE DrainRelease
  <2>1. UNCHANGED mutate /\ (FreeSlots(handled \cup gone) \/ FreeSlots(remaining))
    BY <1>2 DEF DrainRelease
  <2> QED BY <2>1, SlotsFreed
<1>3. CASE RetryRelease
  BY <1>3, SlotsFreed DEF RetryRelease
<1>4. CASE Poll \/ IngestRead \/ RejectBatch
  BY <1>4, SlotsUntouched DEF Poll, PollOf, IngestRead, RejectBatch
<1>5. CASE \E m \in todo : Accept(m) \/ Reject(m) \/ AddRaises(m)
  BY <1>5, SlotsUntouched DEF Accept, Reject, AddRaises
<1>6. CASE DrainRead \/ HookReturns \/ Refresh \/ OpenGate
  BY <1>6, SlotsUntouched DEF DrainRead, DrainReadOf, HookReturns, Refresh,
     OpenGate
<1>7. CASE AwaitIdle \/ Reindex \/ BumpEpoch \/ EndEpoch
  BY <1>7, SlotsUntouched DEF AwaitIdle, Reindex, BumpEpoch, EndEpoch
<1> QED BY <1>1, <1>2, <1>3, <1>4, <1>5, <1>6, <1>7 DEF Ingestion, Epoch

(* run() gives back the permit of the loop it cancels, and no other.       *)
LEMMA RunKeeps == SlotInv /\ Run => SlotInv'
<1> SUFFICES ASSUME SlotInv, Run PROVE SlotInv'
  OBVIOUS
<1>1. CASE CancelMutation
  <2>1. /\ Owning' = Owning /\ inFlight' = inFlight /\ free' = free + held
        /\ lpc' = "ending" /\ task' = task
    BY <1>1 DEF CancelMutation, CancelMutationReturning, Owning
  <2>2. held \in Nat /\ held' = 0 /\ free \in Nat
    BY <2>1 DEF held, SlotInv, SlotTypeOK
  <2>3. SlotTypeOK' /\ InFlightTracked'
    BY <2>1, <2>2 DEF SlotInv, SlotTypeOK, InFlightTracked, LoopPoints
  <2>4. /\ Cardinality(Owning') = Cardinality(Owning)
        /\ Cardinality(inFlight') = Cardinality(inFlight)
        /\ Cardinality(Owning) \in Nat /\ Cardinality(inFlight) \in Nat
    BY <2>1, Finite DEF SlotInv
  <2>5. SlotsConserved'
    BY <2>1, <2>2, <2>4, Balance
  <2> QED BY <2>3, <2>5 DEF SlotInv
<1>2. CASE CancelIngestion \/ Join
  BY <1>2, SlotsUntouched DEF CancelIngestion, Join, JoinIf
<1> QED BY <1>1, <1>2 DEF Run

(* The failures and the DAG runner touch no permit; an identifier is       *)
(* renewed only when nothing holds it.                                     *)
LEMMA RestKeeps ==
  SlotInv /\ (\/ CallRaises \/ BudgetExpires
              \/ \E m \in Mutants : LateDiscard(m) \/ Renew(m)
              \/ \E p \in Programs, o \in {"DONE", "DISCARDED"} : Evaluate(p, o)) => SlotInv'
<1> SUFFICES ASSUME SlotInv,
                    \/ CallRaises \/ BudgetExpires
                    \/ \E m \in Mutants : LateDiscard(m) \/ Renew(m)
                    \/ \E p \in Programs, o \in {"DONE", "DISCARDED"} : Evaluate(p, o)
             PROVE  SlotInv'
  OBVIOUS
<1>1. CASE CallRaises \/ BudgetExpires
  BY <1>1, SlotsUntouched DEF CallRaises, BudgetExpires
<1>2. ASSUME NEW m \in Mutants, LateDiscard(m) PROVE SlotInv'
  BY <1>2, SlotsUntouched DEF LateDiscard
<1>3. ASSUME NEW m \in Mutants, Renew(m) PROVE SlotInv'
  BY <1>3 DEF Renew, slots, SlotInv, SlotTypeOK, TaskPhases, InFlightTracked,
     SlotsConserved, Owning, held
<1>4. ASSUME NEW p \in Programs, NEW o \in {"DONE", "DISCARDED"}, Evaluate(p, o)
      PROVE  SlotInv'
  BY <1>4, SlotsUntouched DEF Evaluate
<1> QED BY <1>1, <1>2, <1>3, <1>4

(* Every step keeps the permits' balance and the types it rests on.        *)
LEMMA SlotStep == SlotInv /\ [Next]_vars => SlotInv'
<1>1. SlotInv /\ UNCHANGED vars => SlotInv'
  BY SlotsUntouched DEF vars
<1> QED BY <1>1, LoopKeeps, TaskKeeps, IngestionKeeps, RunKeeps, RestKeeps DEF Next

(* No permit of the semaphore leaks or is released twice, whatever the     *)
(* interleaving of the loops, the tasks, the cancellations and the errors. *)
THEOREM SlotsAreConserved == Spec => []SlotsConserved
<1>1. SlotInv => SlotsConserved
  BY DEF SlotInv
<1> QED BY SlotInit, SlotStep, <1>1, PTL DEF Spec

-----------------------------------------------------------------------------
(* Type correctness.                                                       *)

(* The semaphore's value never exceeds the number of permits.              *)
LEMMA FreeBounded == SlotInv => free \in 0..MaxInFlight
<1> SUFFICES ASSUME SlotInv PROVE free \in 0..MaxInFlight
  OBVIOUS
<1>1. /\ free \in Nat /\ held \in Nat
      /\ Cardinality(Owning) \in Nat /\ Cardinality(inFlight) \in Nat
      /\ MaxInFlight \in Nat
  BY Finite, SteadyAssumption DEF SlotInv, SlotTypeOK, held
<1>2. free + held + Cardinality(Owning) + Cardinality(inFlight) = MaxInFlight
  BY DEF SlotInv, SlotsConserved
<1> QED BY <1>1, <1>2

(* The same bound after a step.                                            *)
LEMMA FreeStaysBounded == (SlotInv => free \in 0..MaxInFlight)'
  BY FreeBounded, PTL

(* Initially every variable has its type.                                  *)
LEMMA TypeInit == Init => SteadyTypeOK
<1> SUFFICES ASSUME Init PROVE SteadyTypeOK
  OBVIOUS
<1>1. free \in 0..MaxInFlight /\ errors \in 0..MaxErrors
  BY SteadyAssumption DEF Init
<1>2. blob \in [Programs -> {"absent", "QUEUED", "DONE", "DISCARDED"}]
  BY DEF Init
<1> QED BY <1>1, <1>2 DEF Init, SteadyTypeOK, Programs

(* Every step keeps the types; the balance of the permits bounds free.     *)
LEMMA TypeStep ==
  ASSUME SteadyTypeOK, SlotInv, [Next]_vars
  PROVE  SteadyTypeOK'
<1> USE DEF SteadyTypeOK, BatchPoints, DrainPoints, EpochPoints,
        store, mutate, slots, epoch, ingestion, control
<1>1. free' \in 0..MaxInFlight
  BY SlotStep, FreeStaysBounded
<1>2. CASE MutationLoop
  BY <1>1, <1>2 DEF MutationLoop, GatePassed, Granted, StopAtCap, BackToGate,
     LoopEnded, Spawn
<1>3. ASSUME NEW m \in Mutants, MutationTask(m) PROVE SteadyTypeOK'
  <2>1. m \in Programs
    BY DEF Programs
  <2>2. CASE Persist(m) \/ NoMutant(m) \/ Track(m)
    BY <1>1, <2>1, <2>2 DEF Persist, NoMutant, Track
  <2>3. CASE CancelTask(m)
    BY <1>1, <2>1, <2>3 DEF CancelTask
  <2> QED BY <1>3, <2>2, <2>3 DEF MutationTask
<1>4. CASE Ingestion
  <2> USE DEF InState, FreeSlots, CloseGate, Drain, StartEpoch
  <2>1. CASE Poll
    BY <2>1 DEF Poll, PollOf, candidates
  <2>2. CASE IngestRead
    BY <2>2 DEF IngestRead
  <2>3. ASSUME NEW m \in todo, Accept(m) \/ Reject(m) \/ AddRaises(m)
        PROVE  SteadyTypeOK'
    <3>1. m \in Programs /\ m \in Mutants /\ archive' \subseteq Programs
      BY <2>3 DEF Programs, Accept, Reject, AddRaises, ArchivesWith
    <3>2. errors' \in 0..MaxErrors
      BY <2>3, SteadyAssumption DEF Accept, Reject, AddRaises
    <3> QED BY <1>1, <2>3, <3>1, <3>2 DEF Accept, Reject, AddRaises
  <2>4. CASE RejectBatch
    <3>1. errors' \in 0..MaxErrors
      BY <2>4, SteadyAssumption DEF RejectBatch
    <3> QED BY <2>4, <3>1 DEF RejectBatch
  <2>5. CASE Release
    <3>1. Cardinality(handled) \in Nat
      BY SteadyAssumption, FS_Subset, FS_CardinalityType
    <3>2. processed' \in Nat
      BY <2>5, <3>1, SteadyAssumption DEF Release, Count
    <3> QED BY <1>1, <2>5, <3>2 DEF Release, BackToDrain, Trigger, KeepPolling
  <2>6. CASE DrainRead
    BY <2>6 DEF DrainRead, DrainReadOf
  <2>7. CASE DrainRelease
    BY <1>1, <2>7 DEF DrainRelease
  <2>8. CASE RetryRelease
    BY <1>1, <2>8 DEF RetryRelease
  <2>9. CASE Refresh
    <3>1. errors' \in 0..MaxErrors /\ processed' \in Nat
      BY <2>9, SteadyAssumption DEF Refresh
    <3> QED BY <2>9, <3>1 DEF Refresh
  <2>10. CASE HookReturns \/ OpenGate \/ AwaitIdle
    <3>1. CASE HookReturns
      BY <3>1 DEF HookReturns
    <3>2. CASE OpenGate
      BY <3>2 DEF OpenGate
    <3>3. CASE AwaitIdle
      BY <3>3 DEF AwaitIdle
    <3> QED BY <2>10, <3>1, <3>2, <3>3
  <2>11. CASE Reindex
    BY <2>11 DEF Reindex
  <2>12. CASE BumpEpoch
    BY <2>12 DEF BumpEpoch
  <2>13. CASE EndEpoch
    BY <2>13 DEF EndEpoch
  <2> QED BY <1>4, <2>1, <2>2, <2>3, <2>4, <2>5, <2>6, <2>7, <2>8, <2>9, <2>10,
             <2>11, <2>12, <2>13 DEF Ingestion, Epoch
<1>5. CASE Run
  <2>1. CASE CancelMutation
    BY <1>1, <2>1 DEF CancelMutation, CancelMutationReturning
  <2>2. CASE CancelIngestion
    BY <2>2 DEF CancelIngestion, Leave, LeaveThen
  <2>3. CASE Join
    BY <2>3 DEF Join, JoinIf, StartEpoch, Drain
  <2> QED BY <1>5, <2>1, <2>2, <2>3 DEF Run
<1>6. CASE CallRaises \/ BudgetExpires
  <2>1. CASE CallRaises
    <3>1. errors' \in 0..MaxErrors
      <4>1. errors \in Nat /\ errors < MaxErrors /\ errors' = errors + 1
        BY <2>1, SteadyAssumption DEF CallRaises
      <4> QED BY <4>1, SteadyAssumption
    <3> QED BY <2>1, <3>1 DEF CallRaises, Leave, LeaveThen
  <2>2. CASE BudgetExpires
    BY <2>2 DEF BudgetExpires
  <2> QED BY <1>6, <2>1, <2>2
<1>7. ASSUME NEW m \in Mutants, LateDiscard(m) \/ Renew(m) PROVE SteadyTypeOK'
  <2>1. errors' \in 0..MaxErrors
    BY <1>7, SteadyAssumption DEF LateDiscard, Renew
  <2> QED BY <1>7, <2>1 DEF LateDiscard, Renew
<1>8. ASSUME NEW p \in Programs, NEW o \in {"DONE", "DISCARDED"}, Evaluate(p, o)
      PROVE  SteadyTypeOK'
  BY <1>8 DEF Evaluate
<1>9. CASE UNCHANGED vars
  BY <1>9 DEF vars
<1> QED BY <1>2, <1>3, <1>4, <1>5, <1>6, <1>7, <1>8, <1>9 DEF Next

(* Every variable keeps its type; in particular the semaphore never holds  *)
(* more permits than it was created with.                                  *)
THEOREM TypeCorrect == Spec => []SteadyTypeOK
<1>1. Init => SteadyTypeOK /\ SlotInv
  BY TypeInit, SlotInit
<1>2. SteadyTypeOK /\ SlotInv /\ [Next]_vars => SteadyTypeOK' /\ SlotInv'
  BY TypeStep, SlotStep
<1> QED BY <1>1, <1>2, PTL DEF Spec

-----------------------------------------------------------------------------
(* The engine's invariant: what the phase of a task, a batch, a drain and  *)
(* the end of a run say of the stored programs.  It holds of the instance  *)
(* of steady_loops.cfg too.                                                *)

(* A program that needs no further attention.                              *)
Ruled(m) == m \in judged \/ blob[m] = "DISCARDED"

(* What the phase of its task says of a mutant.                            *)
TasksOK ==
  /\ \A m \in Mutants :
       /\ task[m] \in {"free", "mutating"} => blob[m] = "absent"
       /\ task[m] \in {"persisted", "tracked"} => blob[m] # "absent"
       /\ task[m] = "lost" => lpc \in {"ending", "ended"}
  /\ \A m \in judged \cup inFlight \cup drainSet : task[m] = "tracked"
  /\ archive \cap Mutants \subseteq judged
  /\ lpc = "ended" => Owning = {}

(* A batch: the programs that were DONE or DISCARDED when they were polled *)
(* and which of them have been ruled on since.                             *)
BatchOK ==
  /\ done \cup gone \subseteq inFlight
  /\ todo \subseteq handled /\ handled \subseteq done
  /\ ipc \notin BatchPoints => done = {} /\ gone = {}
  /\ ipc \notin {"judge", "release"} => handled = {}
  /\ ipc # "judge" => todo = {}
  /\ handled \ todo \subseteq judged
  /\ \A m \in gone : blob[m] = "DISCARDED"
  /\ \A m \in done : blob[m] \in {"DONE", "DISCARDED"}
  /\ ipc \in {"judge", "release"} => \A m \in done \ handled : blob[m] = "DISCARDED"

(* A drain: what remains of it is in flight, what does not has been ruled  *)
(* on; a poll made meanwhile leaves its programs alone, and its last pass  *)
(* finds every one of them resolved.                                       *)
DrainOK ==
  /\ remaining \subseteq drainSet \cap inFlight
  /\ \A m \in drainSet \ remaining : m \notin inFlight /\ Ruled(m)
  /\ remaining # {} => ipc \in DrainPoints \/ (ipc \in BatchPoints /\ caller # "loop")
  /\ ipc \in BatchPoints =>
       /\ caller = "side" => (done \cup gone) \cap drainSet = {}
       /\ caller = "drain" => /\ done \cup gone \subseteq remaining
                              /\ ~active => remaining = done \cup gone
       /\ caller = "retry" => gone = {} /\ remaining = done

(* Nothing in flight has been judged but what the current batch has.       *)
FreshOK == ~expired => inFlight \cap judged \subseteq handled \ todo

(* The loops end at the cap: no epoch or poll is then under way.           *)
CapOK ==
  rpc = "loops" =>
    /\ lpc \in {"ending", "ended"} => ReachedCap
    /\ epochs >= MaxEpochs /\ ~expired =>
         ipc \in {"saved", "ended"} \/ (inFlight = {} /\ Owning = {})

(* The final epoch: nothing is made any more, and all that is in flight is *)
(* drained.                                                                *)
FinalOK ==
  /\ rpc \in {"final", "stopped"} => lpc = "ended"
  /\ rpc = "final" =>
       /\ ipc \in DrainPoints \cup BatchPoints \cup EpochPoints
       /\ ipc \in BatchPoints => caller # "loop"
       /\ inFlight \subseteq remaining
  /\ rpc = "stopped" => ipc = "ended" /\ (errors = 0 => inFlight = {})

EngineInv == TasksOK /\ BatchOK /\ DrainOK /\ FreshOK /\ CapOK /\ FinalOK /\ Tracked

(* Nothing is stored, polled or drained when the loops start.              *)
LEMMA EngineInit == Init => EngineInv
<1> SUFFICES ASSUME Init PROVE EngineInv
  OBVIOUS
<1> USE DEF Init, Programs, Owning, BatchPoints, DrainPoints, EpochPoints
<1>1. TasksOK /\ BatchOK
  BY SteadyAssumption DEF TasksOK, BatchOK
<1>2. DrainOK /\ FreshOK /\ CapOK /\ FinalOK /\ Tracked
  BY SteadyAssumption DEF DrainOK, FreshOK, CapOK, FinalOK, Tracked, Awaited
<1> QED BY <1>1, <1>2 DEF EngineInv

(* The mutation loop creates tasks until the cap.                          *)
LEMMA EngineLoop ==
  ASSUME SteadyTypeOK, SlotInv, EngineInv, MutationLoop
  PROVE  EngineInv'
<1> USE DEF SteadyTypeOK, SlotInv, InFlightTracked, EngineInv, TasksOK, BatchOK, DrainOK,
        FreshOK, CapOK, FinalOK, Tracked, Ruled, Awaited, ReachedCap, Owning,
        InState, Programs, BatchPoints, DrainPoints, EpochPoints,
        store, mutate, slots, epoch, ingestion, control
<1>1. CASE GatePassed \/ Granted \/ StopAtCap \/ BackToGate
  BY <1>1, SteadyAssumption DEF GatePassed, Granted, StopAtCap, BackToGate
<1>2. CASE LoopEnded
  BY <1>2, SteadyAssumption DEF LoopEnded
<1>3. ASSUME NEW m \in Mutants, Spawn(m) PROVE EngineInv'
  BY <1>3, SteadyAssumption DEF Spawn
<1> QED BY <1>1, <1>2, <1>3 DEF MutationLoop

(* A task stores its mutant and hands it over, unless it is cancelled.     *)
LEMMA EngineTask ==
  ASSUME SteadyTypeOK, SlotInv, EngineInv, NEW m \in Mutants, MutationTask(m)
  PROVE  EngineInv'
<1> USE DEF SteadyTypeOK, SlotInv, InFlightTracked, EngineInv, TasksOK, BatchOK, DrainOK,
        FreshOK, CapOK, FinalOK, Tracked, Ruled, Awaited, ReachedCap, Owning,
        InState, Programs, BatchPoints, DrainPoints, EpochPoints,
        store, mutate, slots, epoch, ingestion, control
<1>1. CASE Persist(m)
  BY <1>1, SteadyAssumption DEF Persist
<1>2. CASE NoMutant(m)
  BY <1>2, SteadyAssumption DEF NoMutant
<1>3. CASE Track(m)
  BY <1>3, SteadyAssumption DEF Track
<1>4. CASE CancelTask(m)
  BY <1>4, SteadyAssumption DEF CancelTask
<1> QED BY <1>1, <1>2, <1>3, <1>4 DEF MutationTask

(* A batch, from its poll to the release of its slots.                     *)
LEMMA EngineBatch ==
  ASSUME SteadyTypeOK, SlotInv, EngineInv,
         \/ Poll \/ IngestRead \/ RejectBatch \/ Release
         \/ \E m \in todo : Accept(m) \/ Reject(m) \/ AddRaises(m)
  PROVE  EngineInv'
<1> USE DEF SteadyTypeOK, SlotInv, InFlightTracked, EngineInv, TasksOK, BatchOK, DrainOK,
        FreshOK, CapOK, FinalOK, Tracked, Ruled, Awaited, ReachedCap, Owning,
        InState, Programs, BatchPoints, DrainPoints, EpochPoints,
        store, mutate, slots, epoch, ingestion, control
<1>1. CASE Poll
  BY <1>1, SteadyAssumption DEF Poll, PollOf, candidates
<1>2. CASE IngestRead
  BY <1>2, SteadyAssumption DEF IngestRead
<1>3. ASSUME NEW m \in todo, Accept(m) PROVE EngineInv'
  BY <1>3, SteadyAssumption DEF Accept, ArchivesWith
<1>4. ASSUME NEW m \in todo, Reject(m) PROVE EngineInv'
  BY <1>4, SteadyAssumption DEF Reject
<1>5. ASSUME NEW m \in todo, AddRaises(m) PROVE EngineInv'
  BY <1>5, SteadyAssumption DEF AddRaises, ArchivesWith
<1>6. CASE RejectBatch
  BY <1>6, SteadyAssumption DEF RejectBatch
<1>7. CASE Release
  BY <1>7, SteadyAssumption DEF Release, BackToDrain, Drain, Trigger,
     CloseGate, StartEpoch, KeepPolling, FreeSlots
<1> QED BY <1>1, <1>2, <1>3, <1>4, <1>5, <1>6, <1>7

(* An epoch: the passes of its drain, the refresh and what follows.        *)
LEMMA EngineEpoch ==
  ASSUME SteadyTypeOK, SlotInv, EngineInv, Epoch
  PROVE  EngineInv'
<1> USE DEF SteadyTypeOK, SlotInv, InFlightTracked, EngineInv, TasksOK, BatchOK, DrainOK,
        FreshOK, CapOK, FinalOK, Tracked, Ruled, Awaited, ReachedCap, Owning,
        InState, Programs, BatchPoints, DrainPoints, EpochPoints,
        store, mutate, slots, epoch, ingestion, control
<1>1. CASE DrainRead
  <2>1. \A m \in remaining : m \in Programs /\ blob[m] \in {"QUEUED", "DONE", "DISCARDED"}
    OBVIOUS
  <2>2. ~active' => InState(remaining, "QUEUED") = {}
    BY <1>1, Zenon DEF DrainRead, DrainReadOf
  <2>3. /\ done' = {m \in remaining : blob[m] = "DONE"}
        /\ gone' = {m \in remaining : blob[m] = "DISCARDED"}
        /\ caller' = "drain" /\ ipc' \in {"release", "ingest"} /\ handled' = {} /\ ipc = "drain"
        /\ todo' = todo
        /\ (ipc' = "release" => done' = {})
        /\ UNCHANGED <<store, mutate, slots, drainSet, remaining, epochs, control>>
    BY <1>1 DEF DrainRead, DrainReadOf
  <2>4. ~active' => remaining' = done' \cup gone'
    BY <2>1, <2>2, <2>3
  <2> QED BY <2>3, <2>4
<1>2. CASE DrainRelease
  <2> DEFINE left == remaining \ (handled \cup gone)
             retry == left \cap done
  <2>1. /\ ipc = "release" /\ caller = "drain" /\ todo = {}
        /\ gone' = {} /\ handled' = {}
        /\ UNCHANGED <<store, mutate, epochs, drainSet, active, todo, control>>
        /\ \A m \in handled \cup gone : Ruled(m)
        /\ \A m \in done : m \in handled \/ Ruled(m)
    BY <1>2 DEF DrainRelease
  <2>2. CASE /\ active /\ FreeSlots(handled \cup gone) /\ remaining' = left
             /\ ipc' = "side" /\ done' = {} /\ UNCHANGED caller
    BY <2>1, <2>2 DEF FreeSlots
  <2>3. CASE /\ ~active /\ retry # {} /\ FreeSlots(handled \cup gone) /\ remaining' = left
             /\ ipc' = "ingest" /\ done' = retry /\ caller' = "retry"
    BY <2>1, <2>3 DEF FreeSlots
  <2>4. CASE /\ ~active /\ retry = {} /\ FreeSlots(remaining) /\ remaining' = {}
             /\ ipc' = "hook" /\ done' = {} /\ UNCHANGED caller
    BY <2>1, <2>4 DEF FreeSlots
  <2> QED BY <1>2, <2>2, <2>3, <2>4, Zenon DEF DrainRelease, CloseGate
<1>3. CASE RetryRelease
  BY <1>3, SteadyAssumption DEF RetryRelease, FreeSlots, CloseGate
<1>4. CASE HookReturns \/ OpenGate \/ AwaitIdle \/ BumpEpoch
  BY <1>4, SteadyAssumption DEF HookReturns, OpenGate, AwaitIdle, BumpEpoch
<1>5. CASE Reindex
  BY <1>5, SteadyAssumption DEF Reindex
<1>6. CASE Refresh
  BY <1>6, SteadyAssumption DEF Refresh
<1>7. CASE EndEpoch
  BY <1>7, SteadyAssumption DEF EndEpoch
<1> QED BY <1>1, <1>2, <1>3, <1>4, <1>5, <1>6, <1>7 DEF Epoch

(* run(), the failures, the DAG runner and the reuse of identifiers.       *)
LEMMA EngineRest ==
  ASSUME SteadyTypeOK, SlotInv, EngineInv,
         \/ Run \/ CallRaises \/ BudgetExpires \/ UNCHANGED vars
         \/ \E m \in Mutants : LateDiscard(m) \/ Renew(m)
         \/ \E p \in Programs, o \in {"DONE", "DISCARDED"} : Evaluate(p, o)
  PROVE  EngineInv'
<1> USE DEF SteadyTypeOK, SlotInv, InFlightTracked, EngineInv, TasksOK, BatchOK, DrainOK,
        FreshOK, CapOK, FinalOK, Tracked, Ruled, Awaited, ReachedCap, Owning,
        InState, Programs, BatchPoints, DrainPoints, EpochPoints,
        store, mutate, slots, epoch, ingestion, control
<1>1. CASE CancelMutation
  BY <1>1, SteadyAssumption DEF CancelMutation, CancelMutationReturning
<1>2. CASE CancelIngestion
  BY <1>2, SteadyAssumption DEF CancelIngestion, Leave, LeaveThen
<1>3. CASE Join
  BY <1>3, SteadyAssumption DEF Join, JoinIf, StartEpoch, Drain
<1>4. CASE CallRaises
  BY <1>4, SteadyAssumption DEF CallRaises, Leave, LeaveThen
<1>5. CASE BudgetExpires
  BY <1>5, SteadyAssumption DEF BudgetExpires
<1>6. ASSUME NEW p \in Programs, NEW o \in {"DONE", "DISCARDED"}, Evaluate(p, o)
      PROVE  EngineInv'
  BY <1>6, SteadyAssumption DEF Evaluate
<1>7. ASSUME NEW m \in Mutants, LateDiscard(m) PROVE EngineInv'
  BY <1>7, SteadyAssumption DEF LateDiscard
<1>8. ASSUME NEW m \in Mutants, Renew(m) PROVE EngineInv'
  BY <1>8, SteadyAssumption DEF Renew
<1>9. CASE UNCHANGED vars
  BY <1>9, SteadyAssumption DEF vars
<1> QED BY <1>1, <1>2, <1>3, <1>4, <1>5, <1>6, <1>7, <1>8, <1>9 DEF Run

(* Every step keeps the engine's invariant.                                *)
LEMMA EngineStep ==
  ASSUME SteadyTypeOK, SlotInv, EngineInv, [Next]_vars
  PROVE  EngineInv'
BY EngineLoop, EngineTask, EngineBatch, EngineEpoch, EngineRest DEF Next, Ingestion

(* It holds with the types and the balance of the permits, in every state. *)
LEMMA EngineAlways == Spec => [](SteadyTypeOK /\ SlotInv /\ EngineInv)
<1>1. Init => SteadyTypeOK /\ SlotInv /\ EngineInv
  BY TypeInit, SlotInit, EngineInit
<1>2. /\ SteadyTypeOK /\ SlotInv /\ EngineInv /\ [Next]_vars
      => SteadyTypeOK' /\ SlotInv' /\ EngineInv'
  BY TypeStep, SlotStep, EngineStep
<1> QED BY <1>1, <1>2, PTL DEF Spec

(* No mutant that is stored and not yet ruled on is forgotten before the   *)
(* mutation loop shuts down: it is in flight, or its task is about to hand *)
(* it over, whatever drains, retries and failures of the storage do.       *)
THEOREM NothingIsForgotten == Spec => []Tracked
<1>1. EngineInv => Tracked
  BY DEF EngineInv
<1> QED BY <1>1, EngineAlways, PTL

(* While the loops run to their own end, no program comes before the       *)
(* acceptor and the strategy twice.                                        *)
THEOREM JudgedOnce == Spec => []NeverJudgedTwice
<1>1. EngineInv => NeverJudgedTwice
  BY DEF EngineInv, BatchOK, FreshOK, NeverJudgedTwice
<1> QED BY <1>1, EngineAlways, PTL

(* When run() returns without a storage error nothing is in flight and the *)
(* semaphore is full.                                                      *)
THEOREM ReturnsDrained == Spec => []StoppedDrained
<1>1. ASSUME SlotInv, EngineInv PROVE StoppedDrained
  <2> SUFFICES ASSUME rpc = "stopped", errors = 0
               PROVE  inFlight = {} /\ free = MaxInFlight
    BY DEF StoppedDrained
  <2>1. inFlight = {} /\ lpc = "ended" /\ Owning = {} /\ held = 0
    BY <1>1 DEF EngineInv, FinalOK, TasksOK, held
  <2>2. Cardinality(inFlight) = 0 /\ Cardinality(Owning) = 0
    BY <2>1, FS_EmptySet
  <2> QED BY <1>1, <2>1, <2>2 DEF SlotInv, SlotTypeOK, SlotsConserved
<1> QED BY <1>1, EngineAlways, PTL

(* When an epoch closes the gate, every mutant that was in flight when it  *)
(* was triggered has been ruled on or discarded and holds no slot.         *)
THEOREM DrainIsComplete == Spec => ScopedDrain
<1>1. ASSUME SteadyTypeOK, SlotInv, EngineInv, [Next]_vars
      PROVE  gate /\ ~gate' => \A m \in drainSet' : m \notin inFlight' /\ ~Awaited(m)
  <2> SUFFICES ASSUME gate, ~gate', NEW m \in drainSet'
               PROVE  m \notin inFlight' /\ ~Awaited(m)
    OBVIOUS
  <2>1. CASE Release
    <3>1. drainSet' = {}
      BY <1>1, <2>1 DEF Release, BackToDrain, Drain, Trigger, StartEpoch, KeepPolling, CloseGate
    <3> QED BY <3>1
  <2>2. ASSUME /\ ipc = "release" /\ inFlight' = inFlight \ remaining
               /\ drainSet' = drainSet /\ \A w \in remaining : Ruled(w)
        PROVE  m \notin inFlight' /\ ~Awaited(m)
    BY <1>1, <2>2 DEF EngineInv, DrainOK, Ruled, Awaited
  <2>3. CASE DrainRelease
    <3>1. /\ ipc = "release" /\ caller = "drain" /\ drainSet' = drainSet
          /\ ~active /\ (remaining \ (handled \cup gone)) \cap done = {}
          /\ FreeSlots(remaining)
      BY <2>3 DEF DrainRelease
    <3>2. \A w \in remaining : Ruled(w)
      BY <1>1, <3>1 DEF EngineInv, DrainOK, BatchOK, BatchPoints, Ruled
    <3> QED BY <2>2, <3>1, <3>2 DEF FreeSlots
  <2>4. CASE RetryRelease
    <3>1. /\ ipc = "release" /\ caller = "retry" /\ drainSet' = drainSet
          /\ FreeSlots(remaining)
      BY <2>4 DEF RetryRelease
    <3>2. \A w \in remaining : Ruled(w)
      BY <1>1, <3>1 DEF EngineInv, DrainOK, BatchOK, BatchPoints, Ruled
    <3> QED BY <2>2, <3>1, <3>2 DEF FreeSlots
  <2>5. Release \/ DrainRelease \/ RetryRelease
    <3> USE DEF epoch
    <3>1. ~MutationLoop
      BY DEF MutationLoop, GatePassed, Granted, StopAtCap, BackToGate, LoopEnded, Spawn
    <3>2. \A w \in Mutants : ~(MutationTask(w) \/ LateDiscard(w) \/ Renew(w))
      BY DEF MutationTask, Persist, NoMutant, Track, CancelTask, LateDiscard, Renew
    <3>3. ~(Poll \/ IngestRead \/ RejectBatch \/ \E w \in todo : Accept(w) \/ Reject(w) \/ AddRaises(w))
      BY DEF Poll, PollOf, IngestRead, RejectBatch, Accept, Reject, AddRaises
    <3>4. ~(DrainRead \/ HookReturns \/ Refresh \/ OpenGate \/ AwaitIdle)
      BY DEF DrainRead, DrainReadOf, HookReturns, Refresh, OpenGate, AwaitIdle
    <3>5. ~(Reindex \/ BumpEpoch \/ EndEpoch)
      BY DEF Reindex, BumpEpoch, EndEpoch
    <3>6. ~(Run \/ CallRaises \/ BudgetExpires)
      BY DEF Run, CancelMutation, CancelMutationReturning, CancelIngestion, Join,
         JoinIf, Drain, CallRaises, BudgetExpires, Leave, LeaveThen
    <3>7. \A p \in Programs, o \in {"DONE", "DISCARDED"} : ~Evaluate(p, o)
      BY DEF Evaluate
    <3> QED BY <1>1, <3>1, <3>2, <3>3, <3>4, <3>5, <3>6, <3>7 DEF vars, Next, Ingestion, Epoch
  <2> QED BY <2>1, <2>3, <2>4, <2>5
<1>2. (/\ SteadyTypeOK /\ SlotInv /\ EngineInv /\ [Next]_vars)
      => [gate /\ ~gate' => \A m \in drainSet' : m \notin inFlight' /\ ~Awaited(m)]_vars
  BY <1>1
<1> QED BY <1>2, EngineAlways, PTL DEF ScopedDrain, Spec
=============================================================================
