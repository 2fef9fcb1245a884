-------------------------- MODULE DagRunner_proofs --------------------------
(***************************************************************************)
(* Theorems about DagRunner, for every number of programs, permits, failed *)
(* calls, lost replies, torn pipelines and crashes: its types; a program   *)
(* that no repeated, torn or outdated write has hit never has a DAG        *)
(* without owning RUNNING, is never forgotten and has one owner at a time; *)
(* and every stored program that no half pipeline and no ghost cleanup has *)
(* hit stays in some status set.                                           *)
(***************************************************************************)
EXTENDS DagRunner, FiniteSetTheorems, TLAPS

(* Initially every variable has its type.                                  *)
LEMMA TypeInit == Init => TypeOK
  BY RunnerAssumption DEF Init, Idle, StorageInit, Absent, TypeOK, StorageTypeOK,
     States, TaskStates, Phases, Offline, Discards, EnginePhases, Copies

(* Every operation of the storage keeps the types of blob and sset.        *)
LEMMA SetBlobsType ==
  ASSUME blob \in [Programs -> States \cup {Absent}], NEW ps, NEW s \in States, SetBlobs(ps, s)
  PROVE  blob' \in [Programs -> States \cup {Absent}]
  BY DEF SetBlobs

LEMMA MoveSetsType ==
  ASSUME sset \in [States -> SUBSET Programs], NEW ps \in SUBSET Programs, NEW old, NEW new,
         MoveSets(ps, old, new)
  PROVE  sset' \in [States -> SUBSET Programs]
  BY DEF MoveSets

(* A merge returns one of the two states.                                  *)
LEMMA MergeIsOne ==
  ASSUME NEW a, NEW b PROVE MergeStates(a, b) \in {a, b}
  BY DEF MergeStates

(* A copy's write keeps the types.                                         *)
LEMMA CopyTypes ==
  ASSUME TypeOK, NEW c \in copies, CopyUpdate(c) \/ CopyDiscard(c)
  PROVE  StorageTypeOK' /\ astray' \subseteq Programs /\ unplaced' \subseteq Programs
<1>1. c \in Copies
  BY DEF TypeOK
<1>2. c.p \in Programs /\ c.st \in States \cup {Absent, "unread"}
  BY <1>1 DEF Copies
<1>3. astray' \subseteq Programs /\ unplaced' \subseteq Programs
  BY <1>2 DEF CopyUpdate, CopyDiscard, Astray, TypeOK
<1>4. CASE CopyUpdate(c)
  <2>1. MergeStates(blob[c.p], c.st) \in {blob[c.p], c.st}
    BY MergeIsOne
  <2>2. MergeStates(blob[c.p], c.st) \in States \cup {Absent}
    BY <1>2, <1>4, <2>1 DEF CopyUpdate, TypeOK, StorageTypeOK
  <2> QED BY <1>3, <1>4, <2>2 DEF CopyUpdate, Update, SetBlobs, TypeOK, StorageTypeOK
<1>5. CASE CopyDiscard(c)
  BY <1>2, <1>3, <1>5, SetBlobsType, MoveSetsType DEF CopyDiscard, FastStateTransition,
     TypeOK, StorageTypeOK, States
<1> QED BY <1>4, <1>5

(* So does every batch write of the engine.                                *)
LEMMA BatchTypes == ASSUME TypeOK, BatchWrite PROVE StorageTypeOK'
<1>1. CASE BatchByIdsWrite(ebatch, "DONE", etarget)
  BY <1>1, SetBlobsType, MoveSetsType DEF BatchByIdsWrite, TypeOK, StorageTypeOK, States
<1>2. CASE BatchMoveStatusSets(ebatch, "DONE", "DISCARDED")
  BY <1>2, MoveSetsType DEF BatchMoveStatusSets, TypeOK, StorageTypeOK
<1> QED BY <1>1, <1>2 DEF BatchWrite

(* And every write of a task.                                              *)
LEMMA TaskTypes == ASSUME TypeOK, NEW p \in Programs, TaskWrite(p) PROVE StorageTypeOK'
  BY SetBlobsType, MoveSetsType DEF TaskWrite, WriteExclusive, FastStateTransition,
     BatchTransitionState, TypeOK, StorageTypeOK, States

LEMMA DiscardTypes == ASSUME TypeOK, NEW r \in todo, DiscardWrite(r) PROVE StorageTypeOK'
<1>1. r.p \in Programs /\ r.old \in States
  BY DEF TypeOK, Discards
<1> QED BY <1>1, SetBlobsType, MoveSetsType DEF DiscardWrite, FastStateTransition, TypeOK,
     StorageTypeOK, States

LEMMA FlushTypes == ASSUME TypeOK, FlushWrite PROVE StorageTypeOK'
  BY SetBlobsType, MoveSetsType DEF FlushWrite, BatchTransitionState, TypeOK, StorageTypeOK, States

LEMMA MarkTypes ==
  ASSUME TypeOK, BatchByIdsWrite(patch, "QUEUED", "RUNNING") PROVE StorageTypeOK'
  BY SetBlobsType, MoveSetsType DEF BatchByIdsWrite, TypeOK, StorageTypeOK, States

LEMMA AddTypes ==
  ASSUME TypeOK, NEW p \in Programs, Add(p, "QUEUED") PROVE StorageTypeOK'
  BY SetBlobsType, MoveSetsType DEF Add, TypeOK, StorageTypeOK, States

(* The programs of a pipeline in flight, and the states it moves between.  *)
LEMMA InFlightTypes ==
  ASSUME TypeOK, NEW w \in TransitionsInFlight \cup MovesInFlight
  PROVE  w.ps \in SUBSET Programs /\ w.new \in States
<1> USE DEF TypeOK, States, Transition
<1>1. CASE w \in MovesInFlight
  BY <1>1 DEF MovesInFlight
<1>2. ASSUME NEW r \in todo, w = Transition({r.p}, r.old, "DISCARDED")
      PROVE  w.ps \in SUBSET Programs /\ w.new \in States
  <2>1. r.p \in Programs
    BY DEF Discards
  <2> QED BY <1>2, <2>1
<1>3. ASSUME NEW c \in copies, w = Transition({c.p}, c.st, "DISCARDED")
      PROVE  w.ps \in SUBSET Programs /\ w.new \in States
  <2>1. c.p \in Programs
    BY DEF Copies
  <2> QED BY <1>3, <2>1
<1> QED BY <1>1, <1>2, <1>3 DEF TransitionsInFlight

(* Half a pipeline keeps the types.                                        *)
LEMMA TornTypes ==
  ASSUME TypeOK, NEW ps \in SUBSET Programs, NEW old, NEW new \in States,
         TornTransition(ps, old, new)
  PROVE  StorageTypeOK'
<1>1. CASE \E qs \in SUBSET ps \ {{}} : SetBlobs(qs, new) /\ UNCHANGED sset
  BY <1>1, SetBlobsType DEF TypeOK, StorageTypeOK
<1>2. CASE /\ SetBlobs(ps, new)
           /\ sset' = [s \in States |-> IF s = old THEN sset[s] \ ps ELSE sset[s]]
  BY <1>2, SetBlobsType DEF TypeOK, StorageTypeOK
<1> QED BY <1>1, <1>2 DEF TornTransition

(* A task's step keeps the types.                                          *)
LEMMA TaskTypeStep == ASSUME TypeOK, NEW p \in Programs, DagTask(p) PROVE TypeOK'
<1> USE DEF TypeOK, TaskStates, SetTask
<1>1. CASE TaskStart(p)
  BY <1>1 DEF TaskStart, StorageTypeOK, storage, sched, engine, batches, records, hits, faults
<1>2. CASE DagSucceed(p)
  BY <1>2 DEF DagSucceed, StorageTypeOK, storage, sched, engine, batches, records, hits, faults
<1>3. CASE DagFail(p)
  BY <1>3 DEF DagFail, StorageTypeOK, storage, sched, engine, batches, records, hits, faults
<1>4. CASE TaskStep(p)
  BY <1>4, TaskTypes DEF TaskStep, TaskReturn, sched, engine, batches, records, hits, faults
<1> QED BY <1>1, <1>2, <1>3, <1>4 DEF DagTask

(* The scheduler's step does.                                              *)
LEMMA SchedulerTypeStep == ASSUME TypeOK, Scheduler PROVE TypeOK'
<1> USE DEF TypeOK, States, TaskStates, Phases, Offline, Discards, storage, engine, batches,
        records, hits, faults
<1>1. CASE Maintain
  BY <1>1 DEF Maintain, active, StorageTypeOK, tasks
<1>2. CASE Harvest
  BY <1>2 DEF Harvest, SetTask, StorageTypeOK
<1>3. CASE Flush
  BY <1>3, FlushTypes DEF Flush, FlushReturn
<1>4. ASSUME NEW p \in Programs, Cancel(p) PROVE TypeOK'
  <2>1. StorageTypeOK'
    BY <1>4, TaskTypes DEF Cancel, StorageTypeOK
  <2> QED BY <1>4, <2>1 DEF Cancel, SetTask
<1>5. ASSUME NEW p \in Programs, Cancelled(p) PROVE TypeOK'
  BY <1>5 DEF Cancelled, SetTask, StorageTypeOK
<1>6. ASSUME NEW p \in Programs, GetTimedOut(p) PROVE TypeOK'
  BY <1>6 DEF GetTimedOut, InState, StorageTypeOK, tasks
<1>7. ASSUME NEW r \in todo, Discard(r) PROVE TypeOK'
  BY <1>7, DiscardTypes DEF Discard, DiscardReturn, tasks
<1>8. CASE ReadQueuedIds \/ ReadRunningIds
  BY <1>8 DEF ReadQueuedIds, ReadRunningIds, StorageTypeOK, tasks
<1>9. CASE Orphans
  BY <1>9 DEF Orphans, active, Absent, StorageTypeOK, tasks
<1>10. CASE Select
  BY <1>10 DEF Select, StorageTypeOK, tasks
<1>11. CASE Build
  BY <1>11 DEF Build, Absent, StorageTypeOK, tasks
<1>12. CASE ReadPrepared
  BY <1>12 DEF ReadPrepared, BatchByIdsFilter, InState, StorageTypeOK, tasks
<1>13. CASE MarkRunning
  BY <1>13, MarkTypes DEF MarkRunning, Create, SetTask
<1>14. CASE Reconcile
  BY <1>14 DEF Reconcile, Create, SetTask, InState, StorageTypeOK
<1> QED
  BY <1>1, <1>2, <1>3, <1>4, <1>5, <1>6, <1>7, <1>8, <1>9, <1>10, <1>11, <1>12, <1>13,
     <1>14 DEF Scheduler

(* The engine's step does.                                                 *)
LEMMA EngineTypeStep == ASSUME TypeOK, Engine PROVE TypeOK'
<1> USE DEF TypeOK, EnginePhases, tasks, sched, batches, records, hits, faults
<1>1. ASSUME NEW p \in Programs, Submit(p) \/ Resubmit(p) PROVE TypeOK'
  <2>1. StorageTypeOK'
    BY <1>1, AddTypes DEF Submit, Resubmit
  <2> QED BY <1>1, <2>1 DEF Submit, Resubmit, engine
<1>2. ASSUME NEW p \in Programs, Accept(p) PROVE TypeOK'
  BY <1>2 DEF Accept, StorageTypeOK, storage
<1>3. ASSUME NEW ps \in SUBSET Programs, NEW phase \in EnginePhases,
             NEW target \in {"QUEUED", "DISCARDED"}, StartBatch(ps, phase, target),
             elites' \subseteq elites
      PROVE  TypeOK'
  BY <1>3, RunnerAssumption DEF StartBatch, StorageTypeOK, storage
<1>4. CASE Refresh
  BY <1>3, <1>4 DEF Refresh, BatchByIdsFilter, InState
<1>5. CASE Reject
  BY <1>3, <1>5 DEF Reject, InState
<1>6. CASE Leftovers
  BY <1>3, <1>6 DEF Leftovers, StorageTypeOK, States
<1>7. CASE EngineReread
  BY <1>7 DEF EngineReread, BatchByIdsFilter, InState, StorageTypeOK, storage
<1>8. CASE EngineWrite
  BY <1>8, BatchTypes DEF EngineWrite, BatchEnd
<1>9. CASE GhostCheck
  BY <1>9, RunnerAssumption DEF GhostCheck, StorageTypeOK, storage
<1>10. CASE GhostStep
  BY <1>10 DEF GhostStep, Members, CountReal, RemoveGhosts, RemoveIdsFromStatusSet, Astray, Unplaced,
     StorageTypeOK, States, storage
<1>11. ASSUME NEW c \in Copies, NewCopy(c), elites' \subseteq elites PROVE TypeOK'
  BY <1>11, RunnerAssumption DEF NewCopy, StorageTypeOK, storage
<1>12. ASSUME NEW p \in Programs, SelectParent(p) \/ Evict(p) PROVE TypeOK'
  <2>1. [p |-> p, st |-> "unread", use |-> "update"] \in Copies
    BY DEF Copies
  <2>2. [p |-> p, st |-> blob[p], use |-> "evict"] \in Copies
    BY DEF Copies, StorageTypeOK
  <2> QED BY <1>11, <1>12, <2>1, <2>2 DEF SelectParent, Evict
<1>13. ASSUME NEW c \in copies, ReadCopy(c) PROVE TypeOK'
  <2>1. c \in Copies
    OBVIOUS
  <2>2. [c EXCEPT !.st = blob[c.p]] \in Copies
    BY <2>1 DEF Copies, StorageTypeOK
  <2> QED BY <1>13, <2>2 DEF ReadCopy, StorageTypeOK, storage
<1>14. ASSUME NEW c \in copies, CopyWrite(c) PROVE TypeOK'
  <2>1. c \in Copies
    OBVIOUS
  <2>2. [c EXCEPT !.use = "discard"] \in Copies
    BY <2>1 DEF Copies
  <2>3. StorageTypeOK' /\ astray' \subseteq Programs /\ unplaced' \subseteq Programs
    BY <1>14, CopyTypes DEF CopyWrite
  <2> QED BY <1>14, <2>2, <2>3 DEF CopyWrite, CopyEnd
<1> QED
  BY <1>1, <1>2, <1>4, <1>5, <1>6, <1>7, <1>8, <1>9, <1>10, <1>12, <1>13, <1>14
  DEF Engine, ReadCopy, CopyWrite, CopyUpdate, CopyDiscard

(* A failed call, a repeated or torn write, a crash and a restart do.      *)
LEMMA FaultTypeStep == ASSUME TypeOK, Fail \/ LoseReply \/ Tear \/ Crash \/ Boot PROVE TypeOK'
<1> USE DEF TypeOK, batches, records, hits
<1>1. CASE Fail
  <2>1. errors' \in 0..MaxErrors /\ UNCHANGED <<breaks, crashes>>
    BY <1>1, RunnerAssumption DEF Fail
  <2>2. ASSUME NEW p \in Programs, FailTask(p) PROVE TypeOK'
    <3>1. StorageTypeOK'
      BY <2>2, TaskTypes DEF FailTask, StorageTypeOK, storage
    <3> QED BY <2>1, <2>2, <3>1 DEF FailTask, TaskReturn, SetTask, TaskStates, sched, engine
  <2>3. ASSUME NEW r \in todo, FailDiscard(r) PROVE TypeOK'
    <3>1. StorageTypeOK'
      BY <2>3, DiscardTypes DEF FailDiscard, StorageTypeOK, storage
    <3> QED BY <2>1, <2>3, <3>1 DEF FailDiscard, DiscardReturn, tasks, engine
  <2>4. CASE FailFlush
    <3>1. StorageTypeOK'
      BY <2>4, FlushTypes DEF FailFlush, StorageTypeOK, storage
    <3> QED BY <2>1, <2>4, <3>1 DEF FailFlush, FlushReturn, Phases, engine
  <2>5. CASE FailGet \/ FailOrphans
    BY <2>1, <2>5 DEF FailGet, FailOrphans, Phases, StorageTypeOK, storage, tasks, engine
  <2>6. CASE FailLaunch
    <3>1. StorageTypeOK'
      BY <2>6, MarkTypes DEF FailLaunch, StorageTypeOK, storage
    <3> QED BY <2>1, <2>6, <3>1 DEF FailLaunch, Phases, tasks, engine
  <2>7. CASE FailEngine
    <3>1. StorageTypeOK' /\ astray' \subseteq Programs /\ unplaced' \subseteq Programs
      BY <2>7, BatchTypes, CopyTypes DEF FailEngine, StorageTypeOK, storage
    <3> QED BY <2>1, <2>7, <3>1 DEF FailEngine, BatchEnd, CopyEnd, EnginePhases, tasks, sched
  <2> QED BY <1>1, <2>2, <2>3, <2>4, <2>5, <2>6, <2>7 DEF Fail
<1>2. CASE LoseReply
  <2>1. breaks' \in 0..MaxStrays
    BY <1>2, RunnerAssumption DEF LoseReply
  <2>2. ASSUME NEW r \in todo PROVE r.p \in Programs
    BY DEF Discards
  <2>3. ASSUME NEW c \in copies PROVE c.p \in Programs
    BY DEF Copies
  <2>4. StorageTypeOK'
    BY <1>2, TaskTypes, FlushTypes, DiscardTypes, MarkTypes, BatchTypes, CopyTypes, AddTypes
    DEF LoseReply
  <2>5. astray' \subseteq Programs
    BY <1>2, <2>2, <2>3 DEF LoseReply, Astray
  <2> QED BY <1>2, <2>1, <2>4, <2>5 DEF LoseReply, Phases, EnginePhases, tasks
<1>3. CASE Tear
  <2>1. breaks' \in 0..MaxStrays
    BY <1>3, RunnerAssumption DEF Tear
  <2>2. ASSUME NEW w \in TransitionsInFlight, TornTransition(w.ps, w.old, w.new), Astray(w.ps),
               Unplaced(w.ps)
        PROVE  StorageTypeOK' /\ astray' \subseteq Programs /\ unplaced' \subseteq Programs
    BY <2>2, InFlightTypes, TornTypes DEF Astray, Unplaced
  <2>3. ASSUME NEW w \in MovesInFlight, TornMove(w.ps, w.old), Astray(w.ps), Unplaced(w.ps)
        PROVE  StorageTypeOK' /\ astray' \subseteq Programs /\ unplaced' \subseteq Programs
    BY <2>3, InFlightTypes DEF Astray, Unplaced, TornMove, RemoveIdsFromStatusSet, StorageTypeOK
  <2>4. ASSUME NEW p \in Programs, TornTransition({p}, Absent, "QUEUED"), Astray({p}), Unplaced({p})
        PROVE  StorageTypeOK' /\ astray' \subseteq Programs /\ unplaced' \subseteq Programs
    BY <2>4, TornTypes DEF Astray, Unplaced, States
  <2>5. StorageTypeOK' /\ astray' \subseteq Programs /\ unplaced' \subseteq Programs
    BY <1>3, <2>2, <2>3, <2>4 DEF Tear
  <2> QED BY <1>3, <2>1, <2>5 DEF Tear, tasks, sched
<1>4. CASE Crash
  BY <1>4, RunnerAssumption DEF Crash, SetTask, StorageTypeOK, TaskStates, Offline, EnginePhases,
     storage
<1>5. CASE Boot
  <2>1. CASE Restart \/ Start
    BY <2>1 DEF Restart, Start, StorageTypeOK, States, Offline, Phases, storage, tasks, engine, faults
  <2>2. ASSUME NEW p \in Programs, Recover(p) PROVE TypeOK'
    BY <2>2, SetBlobsType DEF Recover, RemoveIdsFromStatusSet, WriteExclusive, StorageTypeOK, States,
       Offline, tasks, engine, faults
  <2>3. CASE RecoverMove
    BY <2>3, MoveSetsType DEF RecoverMove, BatchMoveStatusSets, StorageTypeOK, Offline, tasks, engine,
       faults
  <2> QED BY <1>5, <2>1, <2>2, <2>3 DEF Boot
<1> QED BY <1>1, <1>2, <1>3, <1>4, <1>5

(* Every step keeps the types.                                             *)
LEMMA TypeStep == TypeOK /\ [Next]_vars => TypeOK'
<1>1. CASE UNCHANGED vars
  BY <1>1 DEF vars, storage, tasks, sched, engine, batches, records, hits, faults, TypeOK,
     StorageTypeOK
<1> QED BY <1>1, TaskTypeStep, SchedulerTypeStep, EngineTypeStep, FaultTypeStep DEF Next

(* Every variable keeps its type.                                          *)
THEOREM TypeCorrect == Spec => []TypeOK
  BY TypeInit, TypeStep, PTL DEF Spec

-----------------------------------------------------------------------------
(* The invariant is kept by every step.                                    *)

(* What leaves a program alone, as far as the invariant goes: its blob     *)
(* stays, or goes from DONE to DISCARDED, and it stays in, or out of, the  *)
(* two sets of active programs.                                            *)
Spares(p) ==
  /\ blob'[p] = blob[p] \/ (blob[p] \in {"DONE", "DISCARDED"} /\ blob'[p] = "DISCARDED")
  /\ \A s \in {"QUEUED", "RUNNING"} : p \in sset'[s] <=> p \in sset[s]

(* A write that spares all but the programs it leads astray keeps the      *)
(* invariant, whatever it does to those.                                   *)
LEMMA StrayKeeps ==
  ASSUME IInv, TypeOK', online, UNCHANGED <<tasks, sched>>, astray \subseteq astray',
         \A p \in Programs \ astray' : Spares(p),
         EngineOwns', RetryAstray'
  PROVE  IInv'
<1> USE DEF IInv, TypeOK, StorageTypeOK, States, Spares, tasks, sched, Sound, Live, Flushing
<1>1. LiveOwns'
  BY DEF LiveOwns
<1>2. FlushOwns'
  BY DEF FlushOwns
<1>3. OneBatch'
  BY DEF OneBatch
<1>4. (TodoIdle /\ CancelledIdle /\ HarvestEnded /\ PreparedIdle)'
  BY DEF TodoIdle, CancelledIdle, HarvestEnded, PreparedIdle
<1>5. QueuedApart'
  BY DEF QueuedApart
<1>6. PatchQueued'
  BY DEF PatchQueued
<1>7. (Recoverable /\ RecoverIds /\ OfflineIdle)'
  BY DEF Recoverable, RecoverIds, OfflineIdle, online, Offline
<1> QED BY <1>1, <1>2, <1>3, <1>4, <1>5, <1>6, <1>7

(* A step of a DAG's task, from its first line to the flush of its batch:  *)
(* only the owner of RUNNING leaves it.                                    *)
LEMMA TaskKeeps == ASSUME IInv, TypeOK', NEW p \in Programs, DagTask(p)
                   PROVE  IInv'
<1> USE DEF IInv, Sound, LiveOwns, FlushOwns, OneBatch, EngineOwns, TodoIdle,
        CancelledIdle, HarvestEnded, PreparedIdle, QueuedApart, PatchQueued,
        Recoverable, RecoverIds, OfflineIdle, RetryAstray, Live, Flushing, online,
        TypeOK, StorageTypeOK, States, TaskStates, Phases, Offline, Discards,
        storage, sched, engine, batches, records, hits, faults
<1>1. CASE TaskStart(p)
  BY <1>1 DEF TaskStart, SetTask
<1>2. CASE DagSucceed(p)
  BY <1>2 DEF DagSucceed, SetTask
<1>3. CASE DagFail(p)
  BY <1>3 DEF DagFail, SetTask
<1>4. CASE TaskStep(p)
  BY <1>4 DEF TaskStep, TaskReturn, TaskWrite, SetTask, WriteExclusive,
     FastStateTransition, BatchTransitionState, SetBlobs, MoveSets
<1> QED BY <1>1, <1>2, <1>3, <1>4 DEF DagTask

(* A step of the scheduler's loop: a DAG is created only for a program     *)
(* that this step moved to RUNNING or found there.                         *)
LEMMA SchedulerKeeps == ASSUME IInv, TypeOK', Scheduler PROVE IInv'
<1> USE DEF IInv, Sound, LiveOwns, FlushOwns, OneBatch, EngineOwns, TodoIdle,
        CancelledIdle, HarvestEnded, PreparedIdle, QueuedApart, PatchQueued,
        Recoverable, RecoverIds, OfflineIdle, RetryAstray, Live, Flushing, online,
        TypeOK, StorageTypeOK, States, TaskStates, Phases, Offline, Discards,
        storage, tasks, engine, batches, records, hits, faults
<1>1. CASE Maintain
  BY <1>1 DEF Maintain, active
<1>2. CASE Harvest
  BY <1>2 DEF Harvest, SetTask
<1>3. CASE Flush
  BY <1>3 DEF Flush, FlushWrite, FlushReturn, BatchTransitionState, SetBlobs, MoveSets
<1>4. ASSUME NEW p \in Programs, Cancel(p) PROVE IInv'
  BY <1>4 DEF Cancel, TaskWrite, WriteExclusive, FastStateTransition,
     BatchTransitionState, SetBlobs, MoveSets, SetTask
<1>5. ASSUME NEW p \in Programs, Cancelled(p) PROVE IInv'
  BY <1>5 DEF Cancelled, SetTask
<1>6. ASSUME NEW p \in Programs, GetTimedOut(p) PROVE IInv'
  BY <1>6 DEF GetTimedOut, InState
<1>7. ASSUME NEW r \in todo, Discard(r) PROVE IInv'
  BY <1>7 DEF Discard, DiscardWrite, DiscardReturn, FastStateTransition,
     SetBlobs, MoveSets
<1>8. CASE ReadQueuedIds
  BY <1>8 DEF ReadQueuedIds
<1>9. CASE ReadRunningIds
  BY <1>9 DEF ReadRunningIds
<1>10. CASE Orphans
  BY <1>10 DEF Orphans, active, Absent
<1>11. CASE Select
  BY <1>11 DEF Select, active
<1>12. CASE Build
  BY <1>12 DEF Build, Absent
<1>13. CASE ReadPrepared
  BY <1>13 DEF ReadPrepared, BatchByIdsFilter, InState
<1>14. CASE MarkRunning
  BY <1>14 DEF MarkRunning, Create, SetTask, BatchByIdsWrite, SetBlobs, MoveSets
<1>15. CASE Reconcile
  BY <1>15 DEF Reconcile, Create, SetTask, InState
<1> QED
  BY <1>1, <1>2, <1>3, <1>4, <1>5, <1>6, <1>7, <1>8, <1>9, <1>10,
     <1>11, <1>12, <1>13, <1>14, <1>15 DEF Scheduler

(* A write of the engine's batch: the archive goes back to QUEUED, or its  *)
(* programs are spared.                                                    *)
LEMMA BatchKeeps ==
  ASSUME IInv, TypeOK', atAwait, BatchWrite, UNCHANGED <<tasks, sched, adding>>, astray' = astray,
         EngineOwns'
  PROVE  IInv'
<1> USE DEF IInv, TypeOK, StorageTypeOK, States
<1>1. online
  BY DEF BatchWrite, OfflineIdle
<1>2. CASE epc = "leftover" /\ BatchMoveStatusSets(ebatch, "DONE", "DISCARDED")
  <2>1. \A p \in Programs \ astray' : Spares(p)
    BY <1>2 DEF Spares, BatchMoveStatusSets, MoveSets
  <2> QED BY <1>1, <2>1, StrayKeeps DEF RetryAstray
<1>3. CASE epc = "write" /\ etarget = "DISCARDED" /\ BatchByIdsWrite(ebatch, "DONE", "DISCARDED")
  <2>1. \A p \in Programs \ astray' : Spares(p)
    BY <1>3 DEF Spares, BatchByIdsWrite, SetBlobs, MoveSets, EngineOwns
  <2> QED BY <1>1, <2>1, StrayKeeps DEF RetryAstray
<1>4. CASE epc = "write" /\ etarget = "QUEUED" /\ BatchByIdsWrite(ebatch, "DONE", "QUEUED")
  <2>1. \A p \in Programs :
          /\ p \in ebatch \ astray => blob[p] \in {"DONE", "DISCARDED"} /\ p \notin Flushing \cup Live
          /\ p \in ebatch => blob'[p] = "QUEUED" /\ p \in sset'["QUEUED"]
          /\ p \notin ebatch => blob'[p] = blob[p]
                             /\ \A s \in States : p \in sset'[s] <=> p \in sset[s]
    BY <1>4 DEF EngineOwns, LiveOwns, BatchByIdsWrite, SetBlobs, MoveSets
  <2>2. /\ UNCHANGED <<task, doneQ, batch, sbatch, pc, harvest, timedOut, cancelling, todo,
                       queuedIds, runningIds, prepared, patch, adding, astray>>
        /\ Live' = Live /\ Flushing' = Flushing
        /\ Live \subseteq Programs /\ Flushing \subseteq Programs
    BY DEF tasks, sched, Live, Flushing
  <2>3. LiveOwns' /\ FlushOwns'
    BY <2>1, <2>2 DEF LiveOwns, FlushOwns
  <2>4. OneBatch' /\ TodoIdle' /\ CancelledIdle' /\ HarvestEnded' /\ PreparedIdle' /\ RetryAstray'
    BY <2>2 DEF OneBatch, TodoIdle, CancelledIdle, HarvestEnded, PreparedIdle, RetryAstray, Sound
  <2>5. QueuedApart'
    BY <2>1, <2>2 DEF QueuedApart, Sound
  <2>6. PatchQueued'
    BY <2>1, <2>2 DEF PatchQueued
  <2>7. Recoverable' /\ RecoverIds' /\ OfflineIdle'
    BY <1>1, <2>1, <2>2 DEF Recoverable, RecoverIds, OfflineIdle, Sound, online, Offline
  <2> QED BY <2>3, <2>4, <2>5, <2>6, <2>7
<1> QED BY <1>2, <1>3, <1>4 DEF BatchWrite

(* A step of the engine: it moves only programs that no task and no batch  *)
(* holds, or leads them astray.                                            *)
LEMMA EngineKeeps == ASSUME IInv, TypeOK', atAwait, Engine PROVE IInv'
<1>0. online
  BY DEF Engine, Submit, Resubmit, Accept, SelectParent, Evict, NewCopy, Refresh, Reject,
     Leftovers, StartBatch, EngineReread, EngineWrite, BatchWrite, GhostCheck, GhostStep,
     ReadCopy, CopyWrite, CopyUpdate, CopyDiscard, IInv, OfflineIdle
<1>1. ASSUME NEW p \in Programs, Submit(p) PROVE IInv'
  BY <1>1 DEF Submit, Add, Absent, SetBlobs, MoveSets,
     IInv, Sound, LiveOwns, FlushOwns, OneBatch, EngineOwns, TodoIdle,
     CancelledIdle, HarvestEnded, PreparedIdle, QueuedApart, PatchQueued,
     Recoverable, RecoverIds, OfflineIdle, RetryAstray, Live, Flushing, online,
     atAwait, TypeOK, StorageTypeOK, States, TaskStates, Phases, Offline,
     tasks, sched, engine, batches, records, hits
<1>2. ASSUME \A p \in Programs \ astray' : Spares(p),
             UNCHANGED <<tasks, sched>>, astray \subseteq astray', adding' \subseteq adding,
             epc' \in {"read", "write"} => epc' = epc /\ ebatch' = ebatch
      PROVE  IInv'
  <2>1. EngineOwns'
    BY <1>2 DEF EngineOwns, Spares, IInv, TypeOK, Live, Flushing, tasks
  <2>2. RetryAstray'
    BY <1>2 DEF RetryAstray, IInv
  <2> QED BY <1>0, <1>2, <2>1, <2>2, StrayKeeps
<1>3. ASSUME NEW p \in Programs, Resubmit(p) PROVE IInv'
  <2>1. p \in astray
    BY <1>3 DEF Resubmit, IInv, RetryAstray
  <2>2. \A q \in Programs \ astray' : Spares(q)
    BY <1>3, <2>1 DEF Resubmit, Add, SetBlobs, MoveSets, Spares, hits, IInv, TypeOK,
       StorageTypeOK, States
  <2> QED BY <1>2, <1>3, <2>2 DEF Resubmit, hits, batches
<1>4. ASSUME UNCHANGED storage PROVE \A p \in Programs : Spares(p)
  BY <1>4 DEF storage, Spares
<1>5. ASSUME NEW p \in Programs, Accept(p) \/ SelectParent(p) \/ Evict(p) PROVE IInv'
  BY <1>2, <1>4, <1>5 DEF Accept, SelectParent, Evict, NewCopy, hits, batches, storage
<1>6. ASSUME NEW c \in copies, ReadCopy(c) PROVE IInv'
  BY <1>2, <1>4, <1>6 DEF ReadCopy, hits, batches, storage
<1>7. ASSUME NEW c \in copies, CopyWrite(c) PROVE IInv'
  <2>1. CASE CopyUpdate(c)
    <3>1. \A p \in Programs \ astray' : Spares(p)
      BY <2>1 DEF CopyUpdate, Update, SetBlobs, Astray, Spares, IInv, TypeOK, StorageTypeOK
    <3> QED BY <1>2, <1>7, <2>1, <3>1 DEF CopyUpdate, CopyWrite, CopyEnd, Astray, batches
  <2>2. CASE CopyDiscard(c)
    <3>1. \A p \in Programs \ astray' : Spares(p)
      BY <2>2 DEF CopyDiscard, FastStateTransition, SetBlobs, MoveSets, Astray, Spares, IInv,
         TypeOK, StorageTypeOK, States
    <3> QED BY <1>2, <1>7, <2>2, <3>1 DEF CopyDiscard, CopyWrite, CopyEnd, Astray, batches
  <2> QED BY <1>7, <2>1, <2>2 DEF CopyWrite
<1>8. ASSUME NEW ps, NEW phase \in {"write", "leftover"}, NEW target, StartBatch(ps, phase, target),
             phase = "write" => ps \subseteq InState(Programs, "DONE")
      PROVE  IInv'
  <2>1. EngineOwns'
    BY <1>8 DEF StartBatch, InState, EngineOwns, IInv, TypeOK, FlushOwns, storage, tasks,
       hits, Flushing
  <2>2. RetryAstray' /\ astray' = astray
    BY <1>8 DEF StartBatch, RetryAstray, IInv, hits
  <2> QED BY <1>0, <1>4, <1>8, <2>1, <2>2, StrayKeeps DEF StartBatch, storage
<1>9. CASE Refresh
  BY <1>8, <1>9 DEF Refresh, BatchByIdsFilter, InState, IInv, TypeOK
<1>10. CASE Reject
  BY <1>8, <1>10 DEF Reject
<1>11. CASE Leftovers
  BY <1>8, <1>11 DEF Leftovers
<1>12. CASE EngineReread
  <2>1. EngineOwns'
    BY <1>12 DEF EngineReread, BatchByIdsFilter, InState, EngineOwns, IInv, storage, tasks, hits,
       Flushing
  <2>2. RetryAstray' /\ astray' = astray
    BY <1>12 DEF EngineReread, RetryAstray, IInv, hits
  <2> QED BY <1>0, <1>4, <1>12, <2>1, <2>2, StrayKeeps DEF EngineReread, storage
<1>13. CASE EngineWrite
  <2>1. EngineOwns'
    BY <1>13 DEF EngineWrite, BatchEnd, EngineOwns
  <2> QED BY <1>13, <2>1, BatchKeeps DEF EngineWrite, BatchEnd, hits
<1>14. CASE GhostCheck
  BY <1>2, <1>4, <1>14 DEF GhostCheck, hits, storage
<1>15. CASE GhostStep
  <2>1. \A p \in Programs \ astray' : Spares(p)
    BY <1>4, <1>15 DEF GhostStep, Members, CountReal, RemoveGhosts, RemoveIdsFromStatusSet, Astray, Spares,
       IInv, TypeOK, StorageTypeOK, States
  <2>2. astray \subseteq astray'
    BY <1>15 DEF GhostStep, Members, CountReal, RemoveGhosts, Astray, hits
  <2> QED BY <1>2, <1>15, <2>1, <2>2 DEF GhostStep, Members, CountReal
<1> QED
  BY <1>1, <1>3, <1>5, <1>6, <1>7, <1>9, <1>10, <1>11, <1>12, <1>13, <1>14, <1>15
  DEF Engine, ReadCopy, CopyWrite, CopyUpdate, CopyDiscard

(* A failed call and the handler it goes to: the write it may have applied *)
(* is one the caller was allowed to make.                                  *)
LEMMA FailKeeps == ASSUME IInv, TypeOK', atAwait, Fail PROVE IInv'
<1>1. ASSUME \E p \in Programs : FailTask(p) PROVE IInv'
  BY <1>1
  DEF FailTask, TaskReturn, TaskWrite, WriteExclusive, FastStateTransition,
      BatchTransitionState, SetBlobs, MoveSets, SetTask,
      IInv, Sound, LiveOwns, FlushOwns, OneBatch, EngineOwns, TodoIdle,
      CancelledIdle, HarvestEnded, PreparedIdle, QueuedApart, PatchQueued,
      Recoverable, RecoverIds, OfflineIdle, RetryAstray, Live, Flushing, online,
      TypeOK, StorageTypeOK, States, TaskStates, Phases, Offline, Discards,
      storage, sched, engine, batches, records, hits
<1>2. ASSUME FailFlush \/ (\E r \in todo : FailDiscard(r)) PROVE IInv'
  BY <1>2
  DEF FailFlush, FailDiscard, FlushReturn, DiscardReturn, FlushWrite, DiscardWrite,
      FastStateTransition, BatchTransitionState, SetBlobs, MoveSets,
      IInv, Sound, LiveOwns, FlushOwns, OneBatch, EngineOwns, TodoIdle,
      CancelledIdle, HarvestEnded, PreparedIdle, QueuedApart, PatchQueued,
      Recoverable, RecoverIds, OfflineIdle, RetryAstray, Live, Flushing, online,
      atAwait, TypeOK, StorageTypeOK, States, TaskStates, Phases, Offline, Discards,
      storage, tasks, engine, batches, records, hits
<1>3. ASSUME FailGet \/ FailOrphans \/ FailLaunch PROVE IInv'
  BY <1>3
  DEF FailGet, FailOrphans, FailLaunch, BatchByIdsWrite, SetBlobs, MoveSets,
      IInv, Sound, LiveOwns, FlushOwns, OneBatch, EngineOwns, TodoIdle,
      CancelledIdle, HarvestEnded, PreparedIdle, QueuedApart, PatchQueued,
      Recoverable, RecoverIds, OfflineIdle, RetryAstray, Live, Flushing, online,
      atAwait, TypeOK, StorageTypeOK, States, TaskStates, Phases, Offline, Discards,
      storage, tasks, engine, batches, records, hits
<1>4. ASSUME FailEngine PROVE IInv'
  <2>0. online
    BY <1>4 DEF FailEngine, IInv, OfflineIdle
  <2>1. ASSUME UNCHANGED storage PROVE \A p \in Programs : Spares(p)
    BY <2>1 DEF storage, Spares
  <2>2. ASSUME \A p \in Programs \ astray' : Spares(p), UNCHANGED <<tasks, sched>>,
               astray \subseteq astray', adding' \subseteq adding,
               epc' \in {"read", "write"} => epc' = epc /\ ebatch' = ebatch
        PROVE  IInv'
    <3>1. EngineOwns'
      BY <2>2 DEF EngineOwns, Spares, IInv, TypeOK, Live, Flushing, tasks
    <3>2. RetryAstray'
      BY <2>2 DEF RetryAstray, IInv
    <3> QED BY <2>0, <2>2, <3>1, <3>2, StrayKeeps
  <2>3. CASE /\ epc # "idle" /\ (BatchWrite \/ UNCHANGED storage)
             /\ BatchEnd /\ UNCHANGED <<tasks, sched, hits>>
    <3>1. EngineOwns'
      BY <2>3 DEF BatchEnd, EngineOwns
    <3>2. CASE BatchWrite
      BY <2>3, <3>1, <3>2, BatchKeeps DEF BatchEnd, hits
    <3>3. CASE UNCHANGED storage
      BY <2>1, <2>2, <2>3, <3>3 DEF BatchEnd, hits
    <3> QED BY <2>3, <3>2, <3>3
  <2>4. ASSUME NEW c \in copies, CopyUpdate(c) \/ CopyDiscard(c) \/ UNCHANGED <<storage, hits>>,
               CopyEnd(c, {}), UNCHANGED <<tasks, sched>>
        PROVE  IInv'
    <3>1. \A p \in Programs \ astray' : Spares(p)
      BY <2>1, <2>4 DEF CopyUpdate, CopyDiscard, Update, FastStateTransition, SetBlobs, MoveSets,
         Astray, Spares, IInv, TypeOK, StorageTypeOK, States
    <3> QED BY <2>2, <2>4, <3>1 DEF CopyUpdate, CopyDiscard, CopyEnd, Astray, batches, hits
  <2>5. CASE /\ \E p \in adding : adding' = adding \ {p}
             /\ UNCHANGED <<storage, tasks, sched, batches, records, hits>>
    BY <2>1, <2>2, <2>5 DEF batches, hits
  <2> QED BY <1>4, <2>3, <2>4, <2>5 DEF FailEngine
<1> QED BY <1>1, <1>2, <1>3, <1>4 DEF Fail

(* A repeated or torn write leads every program it touches astray.         *)
LEMMA StrayWrites ==
  ASSUME IInv, NEW ps \in SUBSET Programs, Astray(ps),
         \A p \in Programs \ ps : blob'[p] = blob[p]
                                  /\ \A s \in States : p \in sset'[s] <=> p \in sset[s]
  PROVE  astray \subseteq astray' /\ \A p \in Programs \ astray' : Spares(p)
  BY DEF Astray, Spares, States

LEMMA WriteTouches ==
  ASSUME StorageTypeOK, NEW ps \in SUBSET Programs, NEW old, NEW new,
         \/ SetBlobs(ps, new) /\ (MoveSets(ps, old, new) \/ UNCHANGED sset)
         \/ MoveSets(ps, old, new) /\ UNCHANGED blob
         \/ TornTransition(ps, old, new) \/ TornMove(ps, old)
  PROVE  \A p \in Programs \ ps : blob'[p] = blob[p]
                                  /\ \A s \in States : p \in sset'[s] <=> p \in sset[s]
<1> USE DEF StorageTypeOK, SetBlobs, MoveSets
<1>1. CASE SetBlobs(ps, new) /\ (MoveSets(ps, old, new) \/ UNCHANGED sset)
  BY <1>1
<1>2. CASE MoveSets(ps, old, new) /\ UNCHANGED blob
  BY <1>2
<1>3. CASE TornTransition(ps, old, new)
  BY <1>3 DEF TornTransition
<1>4. CASE TornMove(ps, old)
  BY <1>4 DEF TornMove, RemoveIdsFromStatusSet
<1> QED BY <1>1, <1>2, <1>3, <1>4

LEMMA LoseReplyKeeps == ASSUME IInv, TypeOK', atAwait, LoseReply PROVE IInv'
<1> USE DEF IInv, TypeOK
<1>0. /\ UNCHANGED <<tasks, harvest, timedOut, cancelling, todo, queuedIds, runningIds, prepared, ebatch>>
  BY DEF LoseReply
<1>1. ASSUME NEW ps \in SUBSET Programs, NEW old, NEW new,
             SetBlobs(ps, new), MoveSets(ps, old, new) \/ UNCHANGED sset, Astray(ps)
      PROVE  astray \subseteq astray' /\ \A p \in Programs \ astray' : Spares(p)
  BY <1>1, WriteTouches, StrayWrites
<1>2. ASSUME astray \subseteq astray', \A p \in Programs \ astray' : Spares(p), online,
             UNCHANGED <<pc, patch, epc, adding>>
      PROVE  IInv'
  <2>1. EngineOwns' /\ RetryAstray'
    BY <1>0, <1>2 DEF EngineOwns, RetryAstray, Spares, Flushing, Live, tasks
  <2> QED BY <1>0, <1>2, <2>1, StrayKeeps DEF sched
<1>3. ASSUME NEW p \in Programs, TaskWrite(p),
             Astray(IF task[p] = "flushing" THEN batch[p] ELSE {p}),
             UNCHANGED <<pc, patch, epc, adding>>
      PROVE  IInv'
  <2>1. online
    BY <1>3 DEF TaskWrite, OfflineIdle
  <2>2. astray \subseteq astray' /\ \A q \in Programs \ astray' : Spares(q)
    BY <1>1, <1>3 DEF TaskWrite, WriteExclusive, FastStateTransition, BatchTransitionState
  <2> QED BY <1>2, <1>3, <2>1, <2>2
<1>4. CASE pc = "flush" /\ FlushWrite /\ Astray(sbatch) /\ UNCHANGED <<pc, patch, epc, adding>>
  BY <1>1, <1>2, <1>4 DEF FlushWrite, BatchTransitionState, online, Offline
<1>5. ASSUME NEW r \in todo, DiscardWrite(r), Astray({r.p}), UNCHANGED <<pc, patch, epc, adding>>
      PROVE  IInv'
  <2>1. r.p \in Programs
    BY DEF Discards
  <2>2. online
    BY DEF TodoIdle, online, Offline
  <2>3. astray \subseteq astray' /\ \A q \in Programs \ astray' : Spares(q)
    BY <1>1, <1>5, <2>1 DEF DiscardWrite, FastStateTransition
  <2> QED BY <1>2, <1>5, <2>2, <2>3
<1>6. CASE /\ pc = "mark" /\ BatchByIdsWrite(patch, "QUEUED", "RUNNING") /\ Astray(patch)
           /\ pc' = "read" /\ patch' = {} /\ UNCHANGED <<epc, adding>>
  <2>1. astray \subseteq astray' /\ \A q \in Programs \ astray' : Spares(q)
    BY <1>1, <1>6 DEF BatchByIdsWrite
  <2> QED
    BY <1>0, <1>6, <2>1
    DEF Spares, Sound, LiveOwns, FlushOwns, OneBatch, EngineOwns, TodoIdle,
        CancelledIdle, HarvestEnded, PreparedIdle, QueuedApart, PatchQueued,
        Recoverable, RecoverIds, OfflineIdle, RetryAstray, Live, Flushing, online,
        StorageTypeOK, States, Phases, Offline, Discards, tasks
<1>7. CASE /\ BatchWrite /\ Astray(ebatch)
           /\ epc' = (IF epc = "write" THEN "read" ELSE epc)
           /\ UNCHANGED <<pc, patch, adding>>
  <2>1. online
    BY <1>7 DEF BatchWrite, OfflineIdle
  <2>2. \A p \in Programs \ ebatch : blob'[p] = blob[p]
                                  /\ \A s \in States : p \in sset'[s] <=> p \in sset[s]
    BY <1>7, WriteTouches DEF BatchWrite, BatchByIdsWrite, BatchMoveStatusSets
  <2>3. astray \subseteq astray' /\ \A q \in Programs \ astray' : Spares(q)
    BY <1>7, <2>2, StrayWrites
  <2>4. EngineOwns' /\ RetryAstray'
    BY <1>0, <1>7, <2>3 DEF EngineOwns, RetryAstray, Astray
  <2> QED BY <1>0, <1>7, <2>1, <2>3, <2>4, StrayKeeps DEF sched
<1>8. ASSUME NEW c \in copies, CopyUpdate(c) \/ CopyDiscard(c), Astray({c.p}),
             UNCHANGED <<pc, patch, epc, adding>>
      PROVE  IInv'
  <2>1. c.p \in Programs
    BY DEF Copies
  <2>2. online
    BY DEF OfflineIdle
  <2>3. astray \subseteq astray' /\ \A q \in Programs \ astray' : Spares(q)
    BY <1>1, <1>8, <2>1 DEF CopyUpdate, CopyDiscard, Update, FastStateTransition
  <2> QED BY <1>2, <1>8, <2>2, <2>3
<1>9. ASSUME NEW p \in Programs, online, blob[p] = Absent, Add(p, "QUEUED"), Astray({p}),
             adding' = adding \cup {p}, UNCHANGED <<pc, patch, epc>>
      PROVE  IInv'
  <2>1. astray \subseteq astray' /\ \A q \in Programs \ astray' : Spares(q)
    BY <1>1, <1>9 DEF Add
  <2>2. EngineOwns' /\ RetryAstray'
    BY <1>0, <1>9, <2>1 DEF EngineOwns, RetryAstray, Astray, Spares, Flushing, Live, tasks
  <2> QED BY <1>0, <1>9, <2>1, <2>2, StrayKeeps DEF sched
<1> QED BY <1>3, <1>4, <1>5, <1>6, <1>7, <1>8, <1>9 DEF LoseReply

LEMMA TearKeeps == ASSUME IInv, TypeOK', atAwait, Tear PROVE IInv'
<1> USE DEF IInv, TypeOK
<1>1. UNCHANGED <<tasks, sched, batches>>
  BY DEF Tear
<1>2. ASSUME online, NEW ps \in SUBSET Programs, NEW old, NEW new,
             TornTransition(ps, old, new) \/ TornMove(ps, old), Astray(ps),
             adding' \subseteq adding \cup ps
      PROVE  IInv'
  <2>1. astray \subseteq astray' /\ \A p \in Programs \ astray' : Spares(p)
    BY <1>2, WriteTouches, StrayWrites
  <2>2. EngineOwns' /\ RetryAstray'
    BY <1>1, <1>2, <2>1 DEF EngineOwns, RetryAstray, Astray, Spares, Flushing, Live, tasks, batches
  <2> QED BY <1>1, <1>2, <2>1, <2>2, StrayKeeps
<1>3. ASSUME NEW w \in TransitionsInFlight, TornTransition(w.ps, w.old, w.new), Astray(w.ps),
             adding' = adding
      PROVE  IInv'
  <2>1. online
    BY DEF TransitionsInFlight, OfflineIdle, TodoIdle, online, Offline
  <2> QED BY <1>2, <1>3, <2>1, InFlightTypes
<1>4. ASSUME NEW w \in MovesInFlight, TornMove(w.ps, w.old), Astray(w.ps), adding' = adding
      PROVE  IInv'
  <2>1. CASE online
    BY <1>2, <1>4, <2>1, InFlightTypes
  <2>2. CASE ~online
    <3>1. pc = "move" /\ w = Transition(patch, "RUNNING", "QUEUED")
      BY <2>2 DEF MovesInFlight, OfflineIdle
    <3>2. w.ps = patch /\ w.old = "RUNNING"
      BY <3>1 DEF Transition
    <3>3. /\ UNCHANGED blob /\ astray' = astray \cup patch
          /\ sset' = [sset EXCEPT !["RUNNING"] = @ \ patch]
      BY <1>4, <3>2 DEF TornMove, RemoveIdsFromStatusSet, Astray
    <3>4. (LiveOwns /\ FlushOwns /\ OneBatch /\ EngineOwns)'
      BY <1>1, <2>2, <3>3 DEF OfflineIdle, LiveOwns, FlushOwns, OneBatch, EngineOwns, Sound, Live,
         Flushing, tasks, sched, batches
    <3>5. (TodoIdle /\ CancelledIdle /\ HarvestEnded /\ PreparedIdle)'
      BY <1>1 DEF TodoIdle, CancelledIdle, HarvestEnded, PreparedIdle, tasks, sched
    <3>6. (QueuedApart /\ PatchQueued)'
      BY <1>1, <3>1, <3>3 DEF QueuedApart, PatchQueued, Sound, StorageTypeOK, States, sched
    <3>7. (Recoverable /\ RecoverIds)'
      BY <1>1, <3>1, <3>3 DEF Recoverable, RecoverIds, Sound, StorageTypeOK, States, online, Offline, sched
    <3>8. (OfflineIdle /\ RetryAstray)'
      BY <1>1, <1>4, <2>2, <3>1, <3>3 DEF OfflineIdle, RetryAstray, online, tasks, sched, batches, records, Tear
    <3> QED BY <3>4, <3>5, <3>6, <3>7, <3>8
  <2> QED BY <2>1, <2>2
<1>5. ASSUME NEW p \in Programs, online, TornTransition({p}, Absent, "QUEUED"), Astray({p}),
             adding' = adding \cup {p}
      PROVE  IInv'
  BY <1>2, <1>5
<1> QED BY <1>3, <1>4, <1>5 DEF Tear

(* A crash, and the recovery at the next start: what the crash left        *)
(* RUNNING is where the recovery looks.                                    *)
LEMMA BootKeeps == ASSUME IInv, TypeOK', Boot \/ Crash PROVE IInv'
<1> USE DEF IInv, Sound, LiveOwns, FlushOwns, OneBatch, EngineOwns, TodoIdle,
        CancelledIdle, HarvestEnded, PreparedIdle, QueuedApart, PatchQueued,
        Recoverable, RecoverIds, OfflineIdle, RetryAstray, Live, Flushing, online,
        TypeOK, StorageTypeOK, States, TaskStates, Phases, Offline, Discards,
        storage, batches, records, hits
<1>1. CASE Crash
  BY <1>1 DEF Crash, SetTask
<1>2. CASE Restart
  BY <1>2 DEF Restart, tasks, engine
<1>3. ASSUME NEW p \in Programs, Recover(p) PROVE IInv'
  BY <1>3 DEF Recover, Absent, RemoveIdsFromStatusSet, WriteExclusive,
     SetBlobs, tasks, engine
<1>4. CASE RecoverMove
  BY <1>4 DEF RecoverMove, BatchMoveStatusSets, MoveSets, tasks, engine
<1>5. CASE Start
  BY <1>5 DEF Start, tasks, engine
<1> QED BY <1>1, <1>2, <1>3, <1>4, <1>5 DEF Boot

(* The reasons why the scheduler never loses sight of a program that no    *)
(* repeated, torn or outdated write has hit form an inductive invariant.   *)
THEOREM Inductive == Spec => []IInv
<1>1. Init => IInv
  BY RunnerAssumption, TypeInit DEF IInv, Sound, LiveOwns, FlushOwns, OneBatch,
     EngineOwns, TodoIdle, CancelledIdle, HarvestEnded, PreparedIdle,
     QueuedApart, PatchQueued, Recoverable, RecoverIds, OfflineIdle, RetryAstray,
     Live, Flushing, online, Offline, Init, Idle, StorageInit, States, Absent
<1>2. IInv /\ [Next]_vars => IInv'
  <2> SUFFICES ASSUME IInv, [Next]_vars PROVE IInv'
    OBVIOUS
  <2>1. TypeOK'
    BY TypeStep DEF IInv
  <2>2. CASE UNCHANGED vars
    BY <2>2 DEF vars, storage, tasks, sched, engine, batches, records, hits, IInv, TypeOK, Sound,
       StorageTypeOK, LiveOwns, FlushOwns, OneBatch, EngineOwns, TodoIdle, faults,
       CancelledIdle, HarvestEnded, PreparedIdle, QueuedApart, PatchQueued,
       Recoverable, RecoverIds, OfflineIdle, RetryAstray, Live, Flushing, online
  <2> QED
    BY <2>1, <2>2, TaskKeeps, SchedulerKeeps, EngineKeeps, FailKeeps, LoseReplyKeeps, TearKeeps,
       BootKeeps DEF Next
<1> QED BY <1>1, <1>2, PTL DEF Spec

(* No DAG is launched or executes without owning RUNNING state, unless a   *)
(* repeated, torn or outdated write has hit that very program.             *)
THEOREM RunningOwned == Spec => []OwnsRunning
<1>1. IInv => OwnsRunning
  BY DEF IInv, LiveOwns, Live, OwnsRunning
<1> QED BY <1>1, Inductive, PTL

(* Whatever calls fail and wherever crashes fall, every QUEUED or RUNNING  *)
(* program that no such write has hit is where the scheduler or the        *)
(* recovery looks for it.                                                  *)
THEOREM NothingForgotten == Spec => []NeverForgotten
<1>1. IInv => NeverForgotten
  BY DEF IInv, Sound, Recoverable, NeverForgotten
<1> QED BY <1>1, Inductive, PTL

(* Such a program is held by one of a live task, a batch on its way to     *)
(* DONE and the engine at a time.                                          *)
THEOREM OwnedByOne == Spec => []OneOwner
<1>1. IInv => OneOwner
  BY DEF IInv, TypeOK, FlushOwns, EngineOwns, LiveOwns, OneOwner
<1> QED BY <1>1, Inductive, PTL

-----------------------------------------------------------------------------
(* Writes repeated or not, no program drops out of the status sets.        *)

(* No operation deletes a program.                                         *)
LEMMA WritesStore ==
  ASSUME StorageTypeOK, NEW ps \in SUBSET Programs, NEW old, NEW new \in States,
         SetBlobs(ps, new) \/ UNCHANGED blob \/ TornTransition(ps, old, new)
  PROVE  \A p \in Programs : blob[p] \in States => blob'[p] \in States
  BY DEF StorageTypeOK, SetBlobs, TornTransition

(* Nor does the write of a copy of a stored program.                       *)
LEMMA CopiesStore ==
  ASSUME TypeOK, Stored, NEW c \in copies, CopyUpdate(c) \/ CopyDiscard(c)
  PROVE  /\ \A p \in Programs : blob[p] \in States => blob'[p] \in States
         /\ \A p \in Programs \ {c.p} : blob'[p] = blob[p]
<1>1. c.p \in Programs /\ blob[c.p] \in States
  BY DEF TypeOK, Copies, Stored
<1>2. CASE CopyUpdate(c)
  <2>1. blob' \in [Programs -> States \cup {Absent}]
    BY CopyTypes DEF StorageTypeOK
  <2>2. Absent \notin States
    BY DEF Absent, States
  <2>3. c.st \in States \cup {Absent}
    BY <1>2 DEF CopyUpdate, TypeOK, Copies
  <2>4. MergeStates(blob[c.p], c.st) \in States
    <3>1. CASE c.st = Absent
      BY <1>1, <3>1 DEF MergeStates, TERMINAL_STATES, IsValidTransition, VALID_TRANSITIONS, States, Absent
    <3>2. CASE c.st \in States
      BY <1>1, <3>2, MergeIsOne
    <3> QED BY <2>3, <3>1, <3>2
  <2> QED BY <1>1, <1>2, <2>4 DEF CopyUpdate, Update, SetBlobs, TypeOK, StorageTypeOK
<1>3. CASE CopyDiscard(c)
  BY <1>1, <1>3 DEF CopyDiscard, FastStateTransition, SetBlobs, TypeOK, StorageTypeOK, States
<1> QED BY <1>2, <1>3

(* No step deletes a program.                                              *)
LEMMA NoneDeleted ==
  ASSUME TypeOK, Stored, [Next]_vars
  PROVE  \A p \in Programs : blob[p] \in States => blob'[p] \in States
<1> DEFINE Kept == \A p \in Programs : blob[p] \in States => blob'[p] \in States
<1> USE DEF TypeOK, States
<1>0. ASSUME UNCHANGED blob PROVE Kept
  BY <1>0
<1>1. ASSUME NEW ps \in SUBSET Programs, NEW new \in States, SetBlobs(ps, new) PROVE Kept
  BY <1>1, WritesStore
<1>2. ASSUME NEW p \in Programs, TaskWrite(p) PROVE Kept
  BY <1>1, <1>2 DEF TaskWrite, WriteExclusive, FastStateTransition, BatchTransitionState
<1>3. ASSUME NEW r \in todo, DiscardWrite(r) PROVE Kept
  <2>1. r.p \in Programs
    BY DEF Discards
  <2> QED BY <1>1, <1>3, <2>1 DEF DiscardWrite, FastStateTransition
<1>4. ASSUME FlushWrite \/ BatchByIdsWrite(patch, "QUEUED", "RUNNING") \/ BatchWrite PROVE Kept
  BY <1>0, <1>1, <1>4 DEF FlushWrite, BatchTransitionState, BatchByIdsWrite, BatchWrite,
     BatchMoveStatusSets
<1>5. ASSUME NEW p \in Programs, Add(p, "QUEUED") PROVE Kept
  BY <1>1, <1>5 DEF Add
<1>6. ASSUME NEW c \in copies, CopyUpdate(c) \/ CopyDiscard(c) PROVE Kept
  BY <1>6, CopiesStore
<1>7. ASSUME NEW p \in Programs, DagTask(p) PROVE Kept
  BY <1>0, <1>2, <1>7 DEF DagTask, TaskStart, DagSucceed, DagFail, TaskStep, storage
<1>8. CASE Scheduler
  BY <1>0, <1>2, <1>3, <1>4, <1>8 DEF Scheduler, Maintain, Harvest, Flush, Cancel, Cancelled,
     GetTimedOut, Discard, ReadQueuedIds, ReadRunningIds, Orphans, Select, Build, ReadPrepared,
     MarkRunning, Reconcile, storage
<1>9. CASE Engine
  BY <1>0, <1>4, <1>5, <1>6, <1>9 DEF Engine, Submit, Resubmit, Accept, SelectParent, Evict, NewCopy,
     Refresh, Reject, Leftovers, StartBatch, EngineReread, EngineWrite, GhostCheck, GhostStep,
     Members, CountReal, RemoveGhosts, RemoveIdsFromStatusSet, ReadCopy, CopyWrite, storage
<1>10. CASE Fail
  BY <1>0, <1>2, <1>3, <1>4, <1>6, <1>10 DEF Fail, FailTask, FailDiscard, FailFlush, FailGet,
     FailOrphans, FailLaunch, FailEngine, storage
<1>11. CASE LoseReply
  BY <1>2, <1>3, <1>4, <1>5, <1>6, <1>11 DEF LoseReply
<1>12. CASE Tear
  <2>1. ASSUME NEW w \in TransitionsInFlight, TornTransition(w.ps, w.old, w.new) PROVE Kept
    BY <2>1, InFlightTypes, WritesStore
  <2>2. ASSUME NEW p \in Programs, TornTransition({p}, Absent, "QUEUED") PROVE Kept
    BY <2>2, WritesStore
  <2> QED BY <1>0, <1>12, <2>1, <2>2 DEF Tear, TornMove, RemoveIdsFromStatusSet
<1>13. CASE Crash \/ Boot
  BY <1>0, <1>1, <1>13 DEF Crash, Boot, Restart, Recover, RecoverMove, Start, WriteExclusive,
     RemoveIdsFromStatusSet, BatchMoveStatusSets, storage
<1>14. CASE UNCHANGED vars
  BY <1>0, <1>14 DEF vars, storage
<1> QED BY <1>7, <1>8, <1>9, <1>10, <1>11, <1>12, <1>13, <1>14 DEF Next

(* Only stored programs get a task, a copy or a place in the archive.      *)
LEMMA StoredStep == TypeOK /\ Stored /\ [Next]_vars => Stored'
<1> SUFFICES ASSUME TypeOK, Stored, [Next]_vars PROVE Stored'
  OBVIOUS
<1>0. \A p \in Programs : blob[p] \in States => blob'[p] \in States
  BY NoneDeleted
<1> USE <1>0 DEF TypeOK, Stored, SetTask
<1>1. ASSUME NEW p \in Programs, DagTask(p) PROVE Stored'
  BY <1>1 DEF DagTask, TaskStart, DagSucceed, DagFail, TaskStep, TaskReturn, sched, engine, records,
     Copies
<1>2. CASE Scheduler
  <2>1. \A c \in copies : c.p \in Programs
    BY DEF Copies
  <2>2. UNCHANGED records
    BY <1>2 DEF Scheduler, Maintain, Harvest, Flush, FlushReturn, Cancel, Cancelled, GetTimedOut, Discard,
       DiscardReturn, ReadQueuedIds, ReadRunningIds, Orphans, Select, Build, ReadPrepared,
       MarkRunning, Reconcile, engine
  <2>3. /\ \A p \in Programs : task'[p] # "none" => blob'[p] \in States
        /\ pc' # "mget" => \A p \in prepared' : blob'[p] \in States
    <3>1. CASE Maintain \/ Harvest \/ Flush
      BY <3>1 DEF Maintain, Harvest, Flush, FlushReturn, tasks
    <3>2. ASSUME NEW p \in Programs, Cancel(p) \/ Cancelled(p) \/ GetTimedOut(p)
          PROVE  <2>3!1 /\ <2>3!2
      BY <3>2 DEF Cancel, Cancelled, GetTimedOut, TaskWrite, tasks
    <3>3. ASSUME NEW r \in todo, Discard(r) PROVE <2>3!1 /\ <2>3!2
      BY <3>3 DEF Discard, DiscardReturn, tasks
    <3>4. CASE ReadQueuedIds \/ ReadRunningIds \/ Orphans \/ Select
      BY <3>4 DEF ReadQueuedIds, ReadRunningIds, Orphans, Select, tasks
    <3>5. CASE Build
      BY <3>5 DEF Build, StorageTypeOK, storage, tasks
    <3>6. CASE ReadPrepared \/ MarkRunning \/ Reconcile
      BY <3>6 DEF ReadPrepared, MarkRunning, Reconcile, Create, InState, tasks
    <3> QED BY <1>2, <3>1, <3>2, <3>3, <3>4, <3>5, <3>6 DEF Scheduler
  <2> QED BY <2>1, <2>2, <2>3 DEF records
<1>3. ASSUME UNCHANGED <<task, pc, prepared>>, elites' \subseteq elites \cup InState(Programs, "DONE"),
             \A c \in copies' : c.p \in Programs /\ blob[c.p] \in States
      PROVE  Stored'
  BY <1>3 DEF InState, States
<1>4. \A c \in copies : c.p \in Programs /\ blob[c.p] \in States
  BY DEF Copies
<1>5. CASE Engine
  <2>1. UNCHANGED <<task, pc, prepared>>
    BY <1>5 DEF Engine, Submit, Resubmit, Accept, SelectParent, Evict, NewCopy,
     Refresh, Reject, Leftovers, StartBatch, EngineReread, EngineWrite, GhostCheck, GhostStep,
     ReadCopy, CopyWrite, tasks, sched
  <2> DEFINE Kept == /\ elites' \subseteq elites \cup InState(Programs, "DONE")
                     /\ \A c \in copies' : c.p \in Programs /\ blob[c.p] \in States
  <2>2. ASSUME elites' \subseteq elites, UNCHANGED copies PROVE Kept
    BY <1>4, <2>2
  <2>3. ASSUME NEW p \in Programs, Submit(p) \/ Resubmit(p) PROVE Kept
    BY <2>2, <2>3 DEF Submit, Resubmit, engine, records
  <2>4. ASSUME NEW p \in Programs, Accept(p) PROVE Kept
    BY <1>4, <2>4 DEF Accept, InState
  <2>5. ASSUME NEW p \in Programs, SelectParent(p) \/ Evict(p) PROVE Kept
    BY <1>4, <2>5 DEF SelectParent, Evict, NewCopy
  <2>6. ASSUME Refresh \/ Reject \/ Leftovers PROVE Kept
    <3>1. elites' \subseteq elites /\ UNCHANGED copies
      BY <2>6 DEF Refresh, Reject, Leftovers, StartBatch
    <3> QED BY <2>2, <3>1
  <2>7. ASSUME EngineReread \/ EngineWrite \/ GhostCheck \/ GhostStep PROVE Kept
    <3>1. UNCHANGED records
      BY <2>7 DEF EngineReread, EngineWrite, BatchEnd, GhostCheck, GhostStep
    <3> QED BY <2>2, <3>1 DEF records
  <2>8. ASSUME NEW c \in copies, ReadCopy(c) PROVE Kept
    <3>1. [c EXCEPT !.st = blob[c.p]].p = c.p
      BY DEF Copies
    <3> QED BY <1>4, <2>8, <3>1 DEF ReadCopy
  <2>9. ASSUME NEW c \in copies, CopyWrite(c) PROVE Kept
    <3>1. [c EXCEPT !.use = "discard"].p = c.p
      BY DEF Copies
    <3> QED BY <1>4, <2>9, <3>1 DEF CopyWrite, CopyEnd
  <2>10. Kept
    BY <1>5, <2>3, <2>4, <2>5, <2>6, <2>7, <2>8, <2>9 DEF Engine
  <2> QED BY <1>3, <2>1, <2>10
<1>6. CASE Fail
  <2>1. CASE \E p \in Programs : FailTask(p)
    BY <2>1 DEF FailTask, TaskReturn, sched, engine, records, Copies
  <2>2. CASE FailFlush \/ FailGet \/ FailOrphans \/ FailLaunch \/ \E r \in todo : FailDiscard(r)
    BY <2>2 DEF FailFlush, FailGet, FailOrphans, FailLaunch, FailDiscard, FlushReturn, DiscardReturn, tasks,
       engine, records, Copies
  <2>3. CASE FailEngine
    BY <1>3, <1>4, <2>3 DEF FailEngine, BatchEnd, CopyEnd, tasks, sched, records
  <2> QED BY <1>6, <2>1, <2>2, <2>3 DEF Fail
<1>7. CASE LoseReply
  BY <1>7 DEF LoseReply, tasks, records, Copies
<1>8. CASE Tear
  BY <1>3, <1>4, <1>8 DEF Tear, tasks, sched, records
<1>9. CASE Crash
  BY <1>9 DEF Crash
<1>10. CASE Boot
  BY <1>10 DEF Boot, Restart, Recover, RecoverMove, Start, tasks, engine, records, Copies
<1>11. CASE UNCHANGED vars
  BY <1>3, <1>4, <1>11 DEF vars, tasks, sched, engine, records
<1> QED BY <1>1, <1>2, <1>5, <1>6, <1>7, <1>8, <1>9, <1>10, <1>11 DEF Next

(* A write that moves the programs it touches from one set to another      *)
(* keeps what was indexed indexed.                                         *)
LEMMA MoveIndexes ==
  ASSUME StorageTypeOK, Indexed, NEW ps \in SUBSET Programs, unplaced \subseteq unplaced',
         NEW old, NEW new \in States, MoveSets(ps, old, new),
         \A p \in Programs \ ps : blob'[p] = blob[p]
  PROVE  Indexed'
  BY DEF StorageTypeOK, Indexed, MoveSets

(* A write to the blobs of stored programs moves them nowhere.             *)
LEMMA BlobIndexes ==
  ASSUME Indexed, UNCHANGED sset, unplaced \subseteq unplaced',
         \A p \in Programs : blob[p] \in States \/ blob'[p] = blob[p]
  PROVE  Indexed'
  BY DEF Indexed

(* Half a pipeline and a ghost cleanup leave every other program alone.    *)
LEMMA OthersIndexed ==
  ASSUME Indexed, NEW ps \in SUBSET Programs, unplaced' = unplaced \cup ps,
         \A p \in Programs \ ps : blob'[p] = blob[p]
                                  /\ \A s \in States : p \in sset'[s] <=> p \in sset[s]
  PROVE  Indexed'
  BY DEF Indexed

(* A batch write to the blobs of ps that also moves them keeps the index.  *)
LEMMA TransitionIndexes ==
  ASSUME StorageTypeOK, Indexed, NEW ps \in SUBSET Programs, unplaced \subseteq unplaced',
         NEW old, NEW new \in States, SetBlobs(ps, new), MoveSets(ps, old, new)
  PROVE  Indexed'
<1>1. \A p \in Programs \ ps : blob'[p] = blob[p]
  BY DEF SetBlobs
<1> QED BY <1>1, MoveIndexes

(* The write of a copy keeps it: the program was stored, and indexed.      *)
LEMMA CopyIndexes ==
  ASSUME TypeOK, Stored, Indexed, NEW c \in copies, CopyUpdate(c) \/ CopyDiscard(c)
  PROVE  Indexed'
<1>1. c.p \in Programs /\ blob[c.p] \in States
  BY DEF TypeOK, Copies, Stored
<1>2. CASE CopyUpdate(c)
  <2>1. \A p \in Programs : blob[p] \in States \/ blob'[p] = blob[p]
    BY <1>1, <1>2, CopiesStore
  <2> QED BY <1>2, <2>1, BlobIndexes DEF CopyUpdate, Update
<1>3. CASE CopyDiscard(c)
  BY <1>1, <1>3, TransitionIndexes DEF CopyDiscard, FastStateTransition, TypeOK, States
<1> QED BY <1>2, <1>3

(* No step takes a stored program out of the last set it is in, but for    *)
(* half a pipeline and a ghost cleanup.                                    *)
LEMMA IndexedStep == TypeOK /\ Stored /\ Indexed /\ [Next]_vars => Indexed'
<1> SUFFICES ASSUME TypeOK, Stored, Indexed, [Next]_vars PROVE Indexed'
  OBVIOUS
<1> USE DEF TypeOK, States
<1>0. ASSUME UNCHANGED storage, unplaced \subseteq unplaced' PROVE Indexed'
  BY <1>0 DEF storage, Indexed
<1>1. ASSUME NEW p \in Programs, TaskWrite(p), UNCHANGED unplaced PROVE Indexed'
  <2>1. CASE WriteExclusive(p, "RUNNING") /\ task[p] # "none"
    BY <1>1, <2>1, BlobIndexes DEF WriteExclusive, SetBlobs, Stored, StorageTypeOK
  <2>2. CASE FastStateTransition(p, "RUNNING", "DISCARDED")
    BY <1>1, <2>2, TransitionIndexes DEF FastStateTransition
  <2>3. CASE BatchTransitionState(batch[p], "RUNNING", "DONE")
    BY <1>1, <2>3, TransitionIndexes DEF BatchTransitionState
  <2> QED BY <1>1, <2>1, <2>2, <2>3 DEF TaskWrite
<1>2. ASSUME NEW r \in todo, DiscardWrite(r), UNCHANGED unplaced PROVE Indexed'
  <2>1. r.p \in Programs
    BY DEF Discards
  <2> QED BY <1>2, <2>1, TransitionIndexes DEF DiscardWrite, FastStateTransition
<1>3. ASSUME FlushWrite \/ BatchByIdsWrite(patch, "QUEUED", "RUNNING"), UNCHANGED unplaced PROVE Indexed'
  BY <1>3, TransitionIndexes DEF FlushWrite, BatchTransitionState, BatchByIdsWrite
<1>4. ASSUME BatchWrite, UNCHANGED unplaced PROVE Indexed'
  <2>1. CASE BatchByIdsWrite(ebatch, "DONE", etarget)
    BY <1>4, <2>1, TransitionIndexes DEF BatchByIdsWrite
  <2>2. CASE BatchMoveStatusSets(ebatch, "DONE", "DISCARDED")
    BY <1>4, <2>2, MoveIndexes DEF BatchMoveStatusSets
  <2> QED BY <1>4, <2>1, <2>2 DEF BatchWrite
<1>5. ASSUME NEW p \in Programs, Add(p, "QUEUED"), UNCHANGED unplaced PROVE Indexed'
  BY <1>5, TransitionIndexes DEF Add
<1>6. ASSUME NEW p \in Programs, DagTask(p) PROVE Indexed'
  BY <1>0, <1>1, <1>6 DEF DagTask, TaskStart, DagSucceed, DagFail, TaskStep, hits
<1>7. CASE Scheduler
  BY <1>0, <1>1, <1>2, <1>3, <1>7 DEF Scheduler, Maintain, Harvest, Flush, Cancel,
     Cancelled, GetTimedOut, Discard, ReadQueuedIds, ReadRunningIds, Orphans, Select,
     Build, ReadPrepared, MarkRunning, Reconcile, hits
<1>8. CASE Engine
  <2>1. CASE GhostStep
    <3>1. ASSUME NEW s \in {"QUEUED", "RUNNING"}, NEW ps \in SUBSET Programs, RemoveGhosts(s, ps)
          PROVE  Indexed'
      BY <3>1, OthersIndexed DEF RemoveGhosts, RemoveIdsFromStatusSet, Unplaced, StorageTypeOK
    <3> QED BY <1>0, <2>1, <3>1 DEF GhostStep, Members, CountReal, hits
  <2>2. ASSUME NEW c \in copies, CopyWrite(c) PROVE Indexed'
    BY <2>2, CopyIndexes DEF CopyWrite
  <2>3. CASE \E p \in Programs : Submit(p) \/ Resubmit(p) \/ Accept(p) \/ SelectParent(p) \/ Evict(p)
    BY <1>0, <1>5, <2>3 DEF Submit, Resubmit, Accept, SelectParent, Evict, NewCopy, hits
  <2>4. CASE Refresh \/ Reject \/ Leftovers \/ EngineReread \/ EngineWrite \/ GhostCheck
             \/ \E c \in copies : ReadCopy(c)
    BY <1>0, <1>4, <2>4 DEF Refresh, Reject, Leftovers, StartBatch, EngineReread, EngineWrite,
       GhostCheck, ReadCopy, hits
  <2> QED BY <1>8, <2>1, <2>2, <2>3, <2>4 DEF Engine
<1>9. CASE Fail
  BY <1>0, <1>1, <1>2, <1>3, <1>4, CopyIndexes, <1>9 DEF Fail, FailTask, FailDiscard, FailFlush, FailGet,
     FailOrphans, FailLaunch, FailEngine, hits
<1>10. CASE LoseReply
  BY <1>1, <1>2, <1>3, <1>4, <1>5, CopyIndexes, <1>10 DEF LoseReply
<1>11. CASE Tear
  <2>1. ASSUME NEW ps \in SUBSET Programs, NEW old, NEW new,
               TornTransition(ps, old, new) \/ TornMove(ps, old), Unplaced(ps)
        PROVE  Indexed'
    BY <2>1, WriteTouches, OthersIndexed DEF Unplaced
  <2>2. \A w \in TransitionsInFlight \cup MovesInFlight : w.ps \in SUBSET Programs
    BY InFlightTypes
  <2> QED BY <1>11, <2>1, <2>2 DEF Tear
<1>12. CASE Crash
  BY <1>0, <1>12 DEF Crash, hits
<1>13. CASE Boot
  <2>1. ASSUME NEW p \in Programs, Recover(p) PROVE Indexed'
    <3>1. CASE blob[p] = Absent
      BY <2>1, <3>1 DEF Recover, RemoveIdsFromStatusSet, Indexed, StorageTypeOK, Absent, hits
    <3>2. CASE blob[p] # Absent
      BY <2>1, <3>2, BlobIndexes DEF Recover, WriteExclusive, SetBlobs, StorageTypeOK, hits
    <3> QED BY <3>1, <3>2
  <2>2. CASE RecoverMove
    BY <2>2, MoveIndexes DEF RecoverMove, BatchMoveStatusSets, hits
  <2> QED BY <1>0, <1>13, <2>1, <2>2 DEF Boot, Restart, Start, hits
<1>14. CASE UNCHANGED vars
  BY <1>0, <1>14 DEF vars, hits
<1> QED BY <1>6, <1>7, <1>8, <1>9, <1>10, <1>11, <1>12, <1>13, <1>14 DEF Next

(* Writes repeated or outdated, failures and crashes anywhere: a scan of   *)
(* the status sets meets every stored program, but for those that half a   *)
(* pipeline or a ghost cleanup has hit.                                    *)
THEOREM AllIndexed == Spec => []Indexed
<1>1. Init => Stored /\ Indexed
  BY DEF Init, Idle, StorageInit, Stored, Indexed, Absent, States
<1> QED BY <1>1, TypeCorrect, StoredStep, IndexedStep, PTL DEF Spec

=============================================================================
