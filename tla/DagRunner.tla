----------------------------- MODULE DagRunner -----------------------------
(***************************************************************************)
(* The DAG scheduler (gigaevo/runner/dag_runner.py) with the storage it    *)
(* works on, the evolution engine as its environment, failing Redis calls  *)
(* and process crashes.  Everything the process runs is a coroutine of one *)
(* event loop, so a step is the code between two awaits and every await is *)
(* a Redis round trip: between two steps of the scheduler the DAG tasks    *)
(* and the engine may run.                                                 *)
(*                                                                         *)
(* Time is abstracted: any unfinished task may be found older than         *)
(* dag_timeout when the scheduler looks.                                   *)
(***************************************************************************)
EXTENDS ProgramStorage, Integers, FiniteSets

CONSTANTS
  MaxConcurrentDags,  \* permits of the DAG semaphore, flush threshold
  PrefetchFactor,     \* tasks created per permit
  MaxRounds,          \* bound: batch operations of the engine
  MaxErrors,          \* bound: Redis operations that fail for good
  MaxStrays,          \* bound: single records the engine updates or discards, and
                      \* writes of which all is applied, but the reply lost, or of
                      \* which a prefix is
  MaxCrashes          \* bound: process crashes

ASSUME RunnerAssumption ==
  /\ MaxConcurrentDags \in Nat \ {0} /\ PrefetchFactor \in Nat \ {0}
  /\ MaxRounds \in Nat /\ MaxErrors \in Nat /\ MaxStrays \in Nat
  /\ MaxCrashes \in Nat

VARIABLES
  task,       \* task[p]: the DAG task of p; "none" iff p is not in _active
  doneQ,      \* _done_queue: evaluated programs whose DONE is not yet stored
  batch,      \* batch[p]: the copy of _done_queue that p's task is flushing
  sbatch,     \* the copy the scheduler is flushing
  pc,         \* where the scheduler coroutine is
  harvest,    \* _maintain: finished tasks of the snapshot
  timedOut,   \* _maintain: timed-out tasks of the snapshot, not yet handled
  cancelling, \* _maintain: the task whose cancellation is awaited
  todo,       \* discards decided, not yet written: [p, old]
  queuedIds, runningIds,  \* _launch: the two SMEMBERS replies
  prepared,   \* _launch: programs with a built DAG
  patch,      \* batch_transition_by_ids: those its MGET found QUEUED
  elites,     \* programs in the archive
  epc, ebatch, etarget,   \* the engine's batch operation in flight
  eids,       \* the ghost check: the ids of the RUNNING set
  copies,     \* records the engine holds a copy of: [p, st, use]
  adding,     \* programs whose add is being retried
  rounds, copied,
  errors, breaks, crashes,
  astray,     \* history: programs hit by a repeated write, by half a pipeline,
              \* by a ghost cleanup or by a write from an outdated copy
  unplaced    \* history: those hit by half a pipeline or by a ghost cleanup

tasks   == <<task, doneQ, batch, sbatch>>
sched   == <<pc, harvest, timedOut, cancelling, todo,
             queuedIds, runningIds, prepared, patch>>
batches == <<epc, ebatch, etarget, eids, rounds>>
records == <<elites, copies, copied>>
engine  == <<batches, records, adding>>
hits    == <<astray, unplaced>>
faults  == <<errors, breaks, crashes>>
vars    == <<storage, tasks, sched, engine, hits, faults>>

TaskStates == {"none", "waiting", "executing", "persisting", "unwinding",
               "discarding", "flushing", "finished"}
Phases == {"maintain", "cancel", "unwind", "get", "flush",
           "ids", "ids_queued", "ids_running", "orphans", "select",
           "mget", "read", "mark", "reread"}
Offline == {"down", "recover", "move"}
Discards == [p : Programs, old : States]
EnginePhases == {"idle", "read", "write", "leftover",
                 "members", "ghosts", "members_running", "ghosts_running",
                 "ids", "ids_running", "clean", "clean_running"}
Copies == [p : Programs, st : States \cup {Absent, "unread"},
           use : {"update", "evict", "discard"}]

active == {p \in Programs : task[p] # "none"}

(* Tasks inside `async with self._sema`.                                   *)
holders == {p \in Programs : task[p] \notin {"none", "waiting", "finished"}}

(* Programs of a task whose DAG has not returned a success.                *)
Live == {p \in Programs : task[p] \in
           {"waiting", "executing", "persisting", "unwinding", "discarding"}}

(* Evaluated programs somewhere between dag.run and their DONE write.      *)
Flushing == doneQ \cup sbatch \cup UNION {batch[p] : p \in Programs}

TypeOK ==
  /\ StorageTypeOK
  /\ task \in [Programs -> TaskStates]
  /\ doneQ \subseteq Programs
  /\ batch \in [Programs -> SUBSET Programs]
  /\ sbatch \subseteq Programs
  /\ pc \in Phases \cup Offline
  /\ harvest \subseteq Programs /\ timedOut \subseteq Programs
  /\ cancelling \subseteq Programs
  /\ todo \subseteq Discards
  /\ queuedIds \subseteq Programs /\ runningIds \subseteq Programs
  /\ prepared \subseteq Programs /\ patch \subseteq Programs
  /\ elites \subseteq Programs
  /\ epc \in EnginePhases
  /\ ebatch \subseteq Programs /\ eids \subseteq Programs
  /\ etarget \in {"QUEUED", "DISCARDED"}
  /\ copies \subseteq Copies
  /\ adding \subseteq Programs
  /\ rounds \in 0..MaxRounds /\ copied \in 0..MaxStrays
  /\ errors \in 0..MaxErrors /\ breaks \in 0..MaxStrays /\ crashes \in 0..MaxCrashes
  /\ astray \subseteq Programs /\ unplaced \subseteq Programs

Idle ==  \* nothing launched, nothing in flight
  /\ task = [p \in Programs |-> "none"]
  /\ doneQ = {} /\ batch = [p \in Programs |-> {}] /\ sbatch = {}
  /\ harvest = {} /\ timedOut = {} /\ cancelling = {} /\ todo = {}
  /\ queuedIds = {} /\ runningIds = {} /\ prepared = {} /\ patch = {}
  /\ epc = "idle" /\ ebatch = {} /\ etarget = "QUEUED" /\ eids = {}
  /\ copies = {} /\ adding = {}

Init ==
  /\ StorageInit
  /\ Idle
  /\ elites = {}
  /\ pc = "maintain"
  /\ rounds = 0 /\ copied = 0
  /\ errors = 0 /\ breaks = 0 /\ crashes = 0
  /\ astray = {} /\ unplaced = {}

-----------------------------------------------------------------------------
(* DAG tasks: _run_one and _execute_dag.                                   *)

SetTask(ps, s) == task' = [p \in Programs |-> IF p \in ps THEN s ELSE task[p]]

TaskStart(p) ==  \* the semaphore is acquired
  /\ task[p] = "waiting"
  /\ Cardinality(holders) < MaxConcurrentDags
  /\ SetTask({p}, "executing")
  /\ UNCHANGED <<storage, doneQ, batch, sbatch, sched, engine, hits, faults>>

(* dag.run returned: the program joins the batch, and the task whose       *)
(* program fills the batch flushes it.                                     *)
DagSucceed(p) ==
  /\ task[p] = "executing"
  /\ IF Cardinality(doneQ \cup {p}) >= MaxConcurrentDags
       THEN /\ doneQ' = {}
            /\ batch' = [batch EXCEPT ![p] = doneQ \cup {p}]
            /\ SetTask({p}, "flushing")
       ELSE /\ doneQ' = doneQ \cup {p}
            /\ SetTask({p}, "finished")
            /\ UNCHANGED batch
  /\ UNCHANGED <<storage, sbatch, sched, engine, hits, faults>>

(* dag.run raised: it first persists the partial results.                  *)
DagFail(p) ==
  /\ task[p] = "executing"
  /\ SetTask({p}, "persisting")
  /\ UNCHANGED <<storage, doneQ, batch, sbatch, sched, engine, hits, faults>>

(* The write a task has in flight, and what the task does once the call    *)
(* has returned or raised: both handlers swallow the exception.            *)
TaskWrite(p) ==
  \/ /\ task[p] \in {"persisting", "unwinding"}
     /\ WriteExclusive(p, "RUNNING")
  \/ /\ task[p] = "discarding"
     /\ FastStateTransition(p, "RUNNING", "DISCARDED")
  \/ /\ task[p] = "flushing"
     /\ BatchTransitionState(batch[p], "RUNNING", "DONE")

TaskReturn(p) ==
  /\ task[p] \in {"persisting", "unwinding", "discarding", "flushing"}
  /\ SetTask({p}, IF task[p] = "persisting" THEN "discarding" ELSE "finished")
  /\ batch' = [batch EXCEPT ![p] = {}]
  /\ UNCHANGED <<doneQ, sbatch, sched, engine>>

TaskStep(p) == TaskWrite(p) /\ TaskReturn(p) /\ UNCHANGED <<hits, faults>>

DagTask(p) == TaskStart(p) \/ DagSucceed(p) \/ DagFail(p) \/ TaskStep(p)

-----------------------------------------------------------------------------
(* The scheduler: _maintain.                                               *)

Maintain ==  \* the snapshot of _active; a timeout is any unfinished task
  /\ pc = "maintain"
  /\ harvest' = {p \in active : task[p] = "finished"}
  /\ \E late \in SUBSET (active \ harvest') : timedOut' = late
  /\ pc' = "cancel"
  /\ UNCHANGED <<storage, tasks, cancelling, todo, queuedIds, runningIds,
                 prepared, patch, engine, hits, faults>>

(* _cancel_task: CancelledError reaches the task at its await.  A write in *)
(* flight may or may not have reached the server, and only dag.run still   *)
(* writes (its finally block) before the task ends.                        *)
Cancel(p) ==
  /\ pc = "cancel" /\ todo = {} /\ p \in timedOut
  /\ pc' = "unwind"
  /\ timedOut' = timedOut \ {p} /\ cancelling' = {p}
  /\ \/ /\ task[p] = "executing"
        /\ SetTask({p}, "unwinding")
        /\ UNCHANGED <<storage, batch>>
     \/ /\ task[p] \in {"waiting", "finished"}
        /\ SetTask({p}, "finished")
        /\ UNCHANGED <<storage, batch>>
     \/ /\ task[p] \in {"persisting", "discarding", "flushing"}
        /\ SetTask({p}, "finished")
        /\ batch' = [batch EXCEPT ![p] = {}]
        /\ TaskWrite(p) \/ UNCHANGED storage
  /\ UNCHANGED <<doneQ, sbatch, harvest, todo, queuedIds, runningIds,
                 prepared, patch, engine, hits, faults>>

Cancelled(p) ==  \* the task has ended: it leaves _active
  /\ pc = "unwind" /\ p \in cancelling /\ task[p] = "finished"
  /\ SetTask({p}, "none")
  /\ pc' = "get"
  /\ UNCHANGED <<storage, doneQ, batch, sbatch, harvest, timedOut, cancelling,
                 todo, queuedIds, runningIds, prepared, patch, engine, hits, faults>>

(* The re-read of a timed-out program: DONE is spared, DISCARDED is a      *)
(* no-op, everything else will be discarded.                               *)
GetTimedOut(p) ==
  /\ pc = "get" /\ p \in cancelling
  /\ cancelling' = {}
  /\ todo' = {[p |-> q, old |-> blob[q]] : q \in InState({p}, "QUEUED")
                                              \cup InState({p}, "RUNNING")}
  /\ pc' = "cancel"
  /\ UNCHANGED <<storage, tasks, harvest, timedOut, queuedIds, runningIds,
                 prepared, patch, engine, hits, faults>>

(* set_program_state(p, DISCARDED) with the state read earlier as the old  *)
(* one: after a timeout, for an orphan, and after a failed DAG build.      *)
DiscardWrite(r) == FastStateTransition(r.p, r.old, "DISCARDED")

DiscardReturn(r) ==
  /\ r \in todo
  /\ todo' = todo \ {r}
  /\ UNCHANGED <<tasks, pc, harvest, timedOut, cancelling,
                 queuedIds, runningIds, prepared, patch, engine>>

Discard(r) == DiscardWrite(r) /\ DiscardReturn(r) /\ UNCHANGED <<hits, faults>>

HarvestKeeping ==  \* mutant: the done queue is copied, not cleared
  /\ pc = "cancel" /\ todo = {} /\ timedOut = {}
  /\ SetTask(harvest, "none")
  /\ harvest' = {}
  /\ sbatch' = doneQ /\ UNCHANGED doneQ
  /\ pc' = IF doneQ = {} THEN "ids" ELSE "flush"
  /\ UNCHANGED <<storage, batch, timedOut, cancelling, todo, queuedIds,
                 runningIds, prepared, patch, engine, hits, faults>>

Harvest ==  \* pop the finished tasks and take the batch to flush
  /\ pc = "cancel" /\ todo = {} /\ timedOut = {}
  /\ SetTask(harvest, "none")
  /\ harvest' = {}
  /\ sbatch' = doneQ /\ doneQ' = {}
  /\ pc' = IF doneQ = {} THEN "ids" ELSE "flush"
  /\ UNCHANGED <<storage, batch, timedOut, cancelling, todo, queuedIds,
                 runningIds, prepared, patch, engine, hits, faults>>

FlushWrite == BatchTransitionState(sbatch, "RUNNING", "DONE")

FlushReturn ==  \* a failure is logged and the batch is forgotten
  /\ pc = "flush"
  /\ sbatch' = {}
  /\ pc' = "ids"
  /\ UNCHANGED <<task, doneQ, batch, harvest, timedOut, cancelling, todo,
                 queuedIds, runningIds, prepared, patch, engine>>

Flush == FlushWrite /\ FlushReturn /\ UNCHANGED <<hits, faults>>

-----------------------------------------------------------------------------
(* The scheduler: _launch.                                                 *)

(* Two SMEMBERS gathered: they reach the server in either order.           *)
ReadQueuedIds ==
  /\ pc \in {"ids", "ids_running"}
  /\ queuedIds' = sset["QUEUED"]
  /\ pc' = IF pc = "ids" THEN "ids_queued" ELSE "orphans"
  /\ UNCHANGED <<storage, tasks, harvest, timedOut, cancelling, todo,
                 runningIds, prepared, patch, engine, hits, faults>>

ReadRunningIds ==
  /\ pc \in {"ids", "ids_queued"}
  /\ runningIds' = sset["RUNNING"]
  /\ pc' = IF pc = "ids" THEN "ids_running" ELSE "orphans"
  /\ UNCHANGED <<storage, tasks, harvest, timedOut, cancelling, todo,
                 queuedIds, prepared, patch, engine, hits, faults>>

OrphansLeft ==  \* mutant: orphans are never handled
  /\ pc = "orphans"
  /\ runningIds' = {}
  /\ pc' = "select"
  /\ UNCHANGED <<storage, tasks, harvest, timedOut, cancelling, todo, queuedIds,
                 prepared, patch, engine, hits, faults>>

(* RUNNING programs without a task are fetched and will be discarded, in   *)
(* whatever state the fetch finds them (DISCARDED is a no-op).             *)
Orphans ==
  /\ pc = "orphans"
  /\ todo' = {[p |-> p, old |-> blob[p]] :
                p \in {q \in runningIds \ active : blob[q] \notin {Absent, "DISCARDED"}}}
  /\ runningIds' = {}
  /\ pc' = "select"
  /\ UNCHANGED <<storage, tasks, harvest, timedOut, cancelling, queuedIds,
                 prepared, patch, engine, hits, faults>>

capacity == MaxConcurrentDags * PrefetchFactor - Cardinality(active)

Select ==  \* SMEMBERS has no order: any `capacity` of the queued programs
  /\ pc = "select" /\ todo = {}
  /\ \E ids \in SUBSET (queuedIds \ active) :
       /\ IF Cardinality(queuedIds \ active) <= capacity
            THEN ids = queuedIds \ active
            ELSE Cardinality(ids) = capacity
       /\ prepared' = ids
       /\ pc' = IF ids = {} THEN "maintain" ELSE "mget"
  /\ queuedIds' = {}
  /\ UNCHANGED <<storage, tasks, harvest, timedOut, cancelling, todo,
                 runningIds, patch, engine, hits, faults>>

(* Fetch and build: a program whose DAG cannot be built is discarded.      *)
Build ==
  /\ pc = "mget"
  /\ \E fresh \in {{p \in prepared : blob[p] # Absent}} :
     \E bad \in SUBSET fresh :
       /\ prepared' = fresh \ bad
       /\ todo' = {[p |-> p, old |-> blob[p]] :
                     p \in {q \in bad : blob[q] # "DISCARDED"}}
  /\ pc' = "read"
  /\ UNCHANGED <<storage, tasks, harvest, timedOut, cancelling, queuedIds,
                 runningIds, patch, engine, hits, faults>>

ReadPreparedLate ==  \* mutant: the tasks exist before RUNNING is stored
  /\ pc = "read" /\ todo = {}
  /\ patch' = BatchByIdsFilter(prepared, "QUEUED")
  /\ pc' = IF prepared = {} THEN "maintain"
           ELSE IF patch' = {} THEN "reread" ELSE "mark"
  /\ SetTask(prepared, "waiting")
  /\ UNCHANGED <<storage, doneQ, batch, sbatch, harvest, timedOut, cancelling,
                 todo, queuedIds, runningIds, prepared, engine, hits, faults>>

(* batch_transition_by_ids(QUEUED -> RUNNING): the MGET.  No match means a *)
(* count of 0, which differs from the number prepared.                     *)
ReadPrepared ==
  /\ pc = "read" /\ todo = {}
  /\ patch' = BatchByIdsFilter(prepared, "QUEUED")
  /\ pc' = IF prepared = {} THEN "maintain"
           ELSE IF patch' = {} THEN "reread" ELSE "mark"
  /\ UNCHANGED <<storage, tasks, harvest, timedOut, cancelling, todo,
                 queuedIds, runningIds, prepared, engine, hits, faults>>

Create(ps) ==  \* create_task for each program that owns RUNNING
  /\ SetTask(ps, "waiting")
  /\ prepared' = {} /\ pc' = "maintain"

MarkRunning ==  \* the pipeline; a full count launches everything prepared
  /\ pc = "mark"
  /\ BatchByIdsWrite(patch, "QUEUED", "RUNNING")
  /\ patch' = {}
  /\ IF patch = prepared
       THEN Create(prepared)
       ELSE pc' = "reread" /\ UNCHANGED <<task, prepared>>
  /\ UNCHANGED <<doneQ, batch, sbatch, harvest, timedOut, cancelling, todo,
                 queuedIds, runningIds, engine, hits, faults>>

Reconcile ==  \* a partial count: launch those a re-read finds RUNNING
  /\ pc = "reread"
  /\ Create(InState(prepared, "RUNNING"))
  /\ UNCHANGED <<storage, doneQ, batch, sbatch, harvest, timedOut, cancelling,
                 todo, queuedIds, runningIds, patch, engine, hits, faults>>

Scheduler ==
  \/ Maintain \/ Harvest \/ Flush
  \/ \E p \in Programs : Cancel(p) \/ Cancelled(p) \/ GetTimedOut(p)
  \/ \E r \in todo : Discard(r)
  \/ ReadQueuedIds \/ ReadRunningIds \/ Orphans \/ Select \/ Build
  \/ ReadPrepared \/ MarkRunning \/ Reconcile

-----------------------------------------------------------------------------
(* The environment: the evolution engine's calls on the same storage.      *)

online == pc \notin Offline

Astray(ps) == astray' = astray \cup ps
Unplaced(ps) == unplaced' = unplaced \cup ps

Submit(p) ==  \* a mutant or an initial program is added
  /\ online /\ blob[p] = Absent
  /\ Add(p, "QUEUED")
  /\ UNCHANGED <<tasks, sched, engine, hits, faults>>

Resubmit(p) ==  \* the retry of an add whose reply was lost
  /\ p \in adding
  /\ Add(p, "QUEUED")
  /\ adding' = adding \ {p}
  /\ UNCHANGED <<tasks, sched, batches, records, hits, faults>>

Accept(p) ==  \* an evaluated program is ingested into the archive
  /\ online /\ p \notin ebatch \cup elites
  /\ blob[p] = "DONE" /\ p \in sset["DONE"]
  /\ elites' = elites \cup {p}
  /\ UNCHANGED <<storage, tasks, sched, batches, copies, copied, adding, hits, faults>>

(* The engine's batch operations, one at a time.                           *)
StartBatch(ps, phase, target) ==
  /\ online /\ epc = "idle" /\ rounds < MaxRounds /\ rounds' = rounds + 1
  /\ ps # {}
  /\ epc' = phase /\ ebatch' = ps /\ etarget' = target
  /\ UNCHANGED <<storage, tasks, sched, eids, copies, copied, adding, hits, faults>>

Refresh ==  \* the archive goes back to QUEUED: the MGET
  /\ StartBatch(BatchByIdsFilter(elites, "DONE"), "write", "QUEUED")
  /\ UNCHANGED elites

Reject ==  \* rejected programs and displaced elites are discarded: the MGET
  \E ps \in SUBSET InState(Programs, "DONE") :
    StartBatch(ps, "write", "DISCARDED") /\ elites' = elites \ ps

(* Leftovers of an earlier generation: the DONE ids outside the archive,   *)
(* but for those of this generation, change sets without a look at a blob. *)
Leftovers ==
  \E ps \in SUBSET (sset["DONE"] \ elites) :
    StartBatch(ps, "leftover", "DISCARDED") /\ UNCHANGED elites

EngineReread ==  \* the MGET of a retry
  /\ epc = "read"
  /\ ebatch' = BatchByIdsFilter(ebatch, "DONE")
  /\ IF ebatch' = {} THEN epc' = "idle" /\ etarget' = "QUEUED"
                    ELSE epc' = "write" /\ UNCHANGED etarget
  /\ UNCHANGED <<storage, tasks, sched, eids, rounds, records, adding, hits, faults>>

BatchWrite ==
  \/ epc = "write" /\ BatchByIdsWrite(ebatch, "DONE", etarget)
  \/ epc = "leftover" /\ BatchMoveStatusSets(ebatch, "DONE", "DISCARDED")

BatchEnd ==
  /\ epc' = "idle" /\ ebatch' = {} /\ eids' = {} /\ etarget' = "QUEUED"
  /\ UNCHANGED <<rounds, records, adding>>

EngineWrite == BatchWrite /\ BatchEnd /\ UNCHANGED <<tasks, sched, hits, faults>>

(* The ghost check of _await_idle, once it has waited for 30 s: when the   *)
(* two counts of get_all_by_status (SMEMBERS, then MGET) find no program,  *)
(* the ids that are read next are taken out of the sets.                   *)
GhostCheck ==
  /\ online /\ epc = "idle" /\ rounds < MaxRounds /\ rounds' = rounds + 1
  /\ sset["QUEUED"] \cup sset["RUNNING"] # {}
  /\ epc' = "members"
  /\ UNCHANGED <<storage, tasks, sched, ebatch, etarget, eids, records, adding,
                 hits, faults>>

Members(s, next) ==
  /\ ebatch' = sset[s] /\ epc' = next
  /\ UNCHANGED <<eids, storage, hits>>

CountReal(s, next) ==
  /\ ebatch' = {} /\ epc' = IF InState(ebatch, s) = {} THEN next ELSE "idle"
  /\ UNCHANGED <<eids, storage, hits>>

RemoveGhosts(s, ps) ==
  /\ RemoveIdsFromStatusSet(s, ps)
  /\ Astray(ps \cap sset[s]) /\ Unplaced(ps \cap sset[s])

GhostStep ==
  /\ \/ epc = "members" /\ Members("QUEUED", "ghosts")
     \/ epc = "ghosts" /\ CountReal("QUEUED", "members_running")
     \/ epc = "members_running" /\ Members("RUNNING", "ghosts_running")
     \/ epc = "ghosts_running" /\ CountReal("RUNNING", "ids")
     \/ epc = "ids" /\ Members("QUEUED", "ids_running")
     \/ /\ epc = "ids_running" /\ epc' = "clean"
        /\ eids' = sset["RUNNING"] /\ UNCHANGED <<ebatch, storage, hits>>
     \/ /\ epc = "clean" /\ epc' = "clean_running"
        /\ RemoveGhosts("QUEUED", ebatch) /\ ebatch' = {} /\ UNCHANGED eids
     \/ /\ epc = "clean_running" /\ epc' = "idle"
        /\ RemoveGhosts("RUNNING", eids) /\ eids' = {} /\ UNCHANGED ebatch
  /\ UNCHANGED <<tasks, sched, etarget, rounds, records, adding, faults>>

(* Single records: a selected parent is read again before its lineage is   *)
(* updated, an evicted elite was read with the archive.  Either copy may   *)
(* be outdated when it is written.                                         *)
NewCopy(c) ==
  /\ online /\ copied + breaks < MaxStrays /\ copied' = copied + 1
  /\ copies' = copies \cup {c}
  /\ UNCHANGED <<storage, tasks, sched, batches, adding, hits, faults>>

SelectParent(p) ==
  p \in elites /\ NewCopy([p |-> p, st |-> "unread", use |-> "update"]) /\ UNCHANGED elites

Evict(p) ==
  /\ p \in elites /\ elites' = elites \ {p}
  /\ NewCopy([p |-> p, st |-> blob[p], use |-> "evict"])

ReadCopy(c) ==
  /\ c \in copies /\ c.st = "unread"
  /\ copies' = (copies \ {c}) \cup {[c EXCEPT !.st = blob[c.p]]}
  /\ UNCHANGED <<storage, tasks, sched, batches, elites, copied, adding, hits, faults>>

(* The merge keeps the record where it is, or moves it without its set.    *)
CopyUpdate(c) ==
  /\ c \in copies /\ c.st # "unread" /\ c.use \in {"update", "evict"}
  /\ Update(c.p, c.st)
  /\ Astray({p \in {c.p} : MergeStates(blob[p], c.st) # blob[p]})
  /\ UNCHANGED unplaced

(* set_program_state: a copy that is DISCARDED already is left alone.      *)
CopyDiscard(c) ==
  /\ c \in copies /\ c.st # "DISCARDED" /\ c.use \in {"evict", "discard"}
  /\ FastStateTransition(c.p, c.st, "DISCARDED")
  /\ Astray({p \in {c.p} : ~(c.st = "DONE" /\ blob[p] \in {"DONE", "DISCARDED"})})
  /\ UNCHANGED unplaced

(* The copy is done with, but for the discard that follows an update.      *)
CopyEnd(c, next) ==
  /\ c \in copies
  /\ copies' = (copies \ {c}) \cup next
  /\ UNCHANGED <<batches, elites, copied, adding>>

CopyWrite(c) ==
  /\ \/ /\ CopyUpdate(c)
        /\ CopyEnd(c, {d \in {[c EXCEPT !.use = "discard"]} : c.use = "evict"})
     \/ CopyDiscard(c) /\ CopyEnd(c, {})
  /\ UNCHANGED <<tasks, sched, faults>>

Engine ==
  \/ \E p \in Programs : Submit(p) \/ Resubmit(p) \/ Accept(p) \/ SelectParent(p) \/ Evict(p)
  \/ Refresh \/ Reject \/ Leftovers \/ EngineReread \/ EngineWrite
  \/ GhostCheck \/ GhostStep
  \/ \E c \in copies : ReadCopy(c) \/ CopyWrite(c)

-----------------------------------------------------------------------------
(* Failures of the Redis connection (gigaevo/database/redis/connection.py) *)

(* A call fails for good, its write applied or not, and the caller's       *)
(* exception path is taken.                                                *)
FailTask(p) == (TaskWrite(p) \/ UNCHANGED storage) /\ TaskReturn(p) /\ UNCHANGED hits
FailFlush == (FlushWrite \/ UNCHANGED storage) /\ FlushReturn /\ UNCHANGED hits
FailDiscard(r) == (DiscardWrite(r) \/ UNCHANGED storage) /\ DiscardReturn(r) /\ UNCHANGED hits

FailGet ==  \* the re-read of a timed-out program: nothing is discarded
  /\ pc = "get" /\ pc' = "cancel" /\ cancelling' = {}
  /\ UNCHANGED <<storage, tasks, harvest, timedOut, todo, queuedIds, runningIds,
                 prepared, patch, engine, hits>>

FailOrphans ==  \* orphans wait for the next tick
  /\ pc = "orphans" /\ pc' = "select" /\ runningIds' = {}
  /\ UNCHANGED <<storage, tasks, harvest, timedOut, cancelling, todo, queuedIds,
                 prepared, patch, engine, hits>>

FailLaunch ==  \* this launch is given up, even if RUNNING was stored
  /\ pc \in {"ids", "ids_queued", "ids_running", "mget", "read", "mark", "reread"}
  /\ pc = "read" => todo = {}
  /\ \/ UNCHANGED storage
     \/ pc = "mark" /\ BatchByIdsWrite(patch, "QUEUED", "RUNNING")
  /\ pc' = "maintain"
  /\ queuedIds' = {} /\ runningIds' = {} /\ prepared' = {} /\ patch' = {}
  /\ UNCHANGED <<tasks, harvest, timedOut, cancelling, todo, engine, hits>>

FailEngine ==
  \/ /\ epc # "idle" /\ (BatchWrite \/ UNCHANGED storage)
     /\ BatchEnd /\ UNCHANGED <<tasks, sched, hits>>
  \/ /\ \E c \in copies :
          /\ CopyUpdate(c) \/ CopyDiscard(c) \/ UNCHANGED <<storage, hits>>
          /\ CopyEnd(c, {})
     /\ UNCHANGED <<tasks, sched>>
  \/ /\ \E p \in adding : adding' = adding \ {p}
     /\ UNCHANGED <<storage, tasks, sched, batches, records, hits>>

Fail ==
  /\ errors < MaxErrors /\ errors' = errors + 1
  /\ \/ \E p \in Programs : FailTask(p)
     \/ \E r \in todo : FailDiscard(r)
     \/ FailFlush \/ FailGet \/ FailOrphans \/ FailLaunch \/ FailEngine
  /\ UNCHANGED <<breaks, crashes>>

(* A write is applied but its reply is lost: execute() runs the whole      *)
(* operation again, from its first command, over whatever is stored then.  *)
LoseReply ==
  /\ copied + breaks < MaxStrays /\ breaks' = breaks + 1
  /\ \/ /\ \E p \in Programs :
             TaskWrite(p) /\ Astray(IF task[p] = "flushing" THEN batch[p] ELSE {p})
        /\ UNCHANGED <<pc, patch, epc, adding>>
     \/ pc = "flush" /\ FlushWrite /\ Astray(sbatch) /\ UNCHANGED <<pc, patch, epc, adding>>
     \/ /\ \E r \in todo : DiscardWrite(r) /\ Astray({r.p})
        /\ UNCHANGED <<pc, patch, epc, adding>>
     \/ /\ pc = "mark" /\ BatchByIdsWrite(patch, "QUEUED", "RUNNING") /\ Astray(patch)
        /\ pc' = "read" /\ patch' = {} /\ UNCHANGED <<epc, adding>>
     \/ /\ BatchWrite /\ Astray(ebatch)
        /\ epc' = IF epc = "write" THEN "read" ELSE epc
        /\ UNCHANGED <<pc, patch, adding>>
     \/ /\ \E c \in copies : (CopyUpdate(c) \/ CopyDiscard(c)) /\ Astray({c.p})
        /\ UNCHANGED <<pc, patch, epc, adding>>
     \/ \E p \in Programs :
          /\ online /\ blob[p] = Absent /\ Add(p, "QUEUED") /\ Astray({p})
          /\ adding' = adding \cup {p} /\ UNCHANGED <<pc, patch, epc>>
  /\ UNCHANGED <<tasks, harvest, timedOut, cancelling, todo, queuedIds, runningIds,
                 prepared, ebatch, etarget, eids, records, rounds, unplaced,
                 errors, crashes>>

(* The pipelines in flight that set blobs and move ids, those that only    *)
(* move ids, and the adds.                                                 *)
Transition(ps, old, new) == [ps |-> ps, old |-> old, new |-> new]
TransitionsInFlight ==
  {Transition({p}, "RUNNING", "DISCARDED") : p \in {q \in Programs : task[q] = "discarding"}}
  \cup {Transition(batch[p], "RUNNING", "DONE") : p \in {q \in Programs : task[q] = "flushing"}}
  \cup {Transition(sbatch, "RUNNING", "DONE") : s \in {"flush"} \cap {pc}}
  \cup {Transition({r.p}, r.old, "DISCARDED") : r \in todo}
  \cup {Transition(patch, "QUEUED", "RUNNING") : s \in {"mark"} \cap {pc}}
  \cup {Transition(ebatch, "DONE", etarget) : s \in {"write"} \cap {epc}}
  \cup {Transition({c.p}, c.st, "DISCARDED") :
          c \in {d \in copies : d.use # "update" /\ d.st # "DISCARDED"}}
MovesInFlight ==
  {Transition(patch, "RUNNING", "QUEUED") : s \in {"move"} \cap {pc}}
  \cup {Transition(ebatch, "DONE", "DISCARDED") : s \in {"leftover"} \cap {epc}}

(* Half of a pipeline is in place.  It may go on, fail, be cancelled or be *)
(* cut short by a crash: the operation is still in flight.                 *)
Tear ==
  /\ copied + breaks < MaxStrays /\ breaks' = breaks + 1
  /\ \/ /\ \E w \in TransitionsInFlight :
             TornTransition(w.ps, w.old, w.new) /\ Astray(w.ps) /\ Unplaced(w.ps)
        /\ UNCHANGED adding
     \/ /\ \E w \in MovesInFlight : TornMove(w.ps, w.old) /\ Astray(w.ps) /\ Unplaced(w.ps)
        /\ UNCHANGED adding
     \/ \E p \in Programs :
          /\ online /\ blob[p] = Absent
          /\ TornTransition({p}, Absent, "QUEUED") /\ Astray({p}) /\ Unplaced({p})
          /\ adding' = adding \cup {p}
  /\ UNCHANGED <<tasks, sched, batches, records, errors, crashes>>

-----------------------------------------------------------------------------
(* A crash loses everything but the storage; a resumed process recovers    *)
(* the stranded programs before it starts the scheduler and the engine.    *)
Crash ==
  /\ pc # "down" /\ crashes < MaxCrashes /\ crashes' = crashes + 1
  /\ SetTask(Programs, "none")
  /\ doneQ' = {} /\ batch' = [p \in Programs |-> {}] /\ sbatch' = {}
  /\ harvest' = {} /\ timedOut' = {} /\ cancelling' = {} /\ todo' = {}
  /\ queuedIds' = {} /\ runningIds' = {} /\ prepared' = {} /\ patch' = {}
  /\ epc' = "idle" /\ ebatch' = {} /\ etarget' = "QUEUED" /\ eids' = {}
  /\ copies' = {} /\ adding' = {}
  /\ pc' = "down"
  /\ UNCHANGED <<storage, elites, rounds, copied, hits, errors, breaks>>

Restart ==  \* recover_stranded_programs: SMEMBERS of RUNNING
  /\ pc = "down"
  /\ runningIds' = sset["RUNNING"]
  /\ pc' = "recover"
  /\ UNCHANGED <<storage, tasks, harvest, timedOut, cancelling, todo, queuedIds,
                 prepared, patch, engine, hits, faults>>

(* One stranded program: a dangling id leaves the set, a stored one gets   *)
(* its blob rewritten, and is moved between the sets by a second call.     *)
Recover(p) ==
  /\ pc = "recover" /\ p \in runningIds
  /\ IF blob[p] = Absent
       THEN /\ RemoveIdsFromStatusSet("RUNNING", {p})
            /\ runningIds' = runningIds \ {p} /\ UNCHANGED <<pc, patch>>
       ELSE /\ WriteExclusive(p, "QUEUED")
            /\ patch' = {p} /\ pc' = "move" /\ UNCHANGED runningIds
  /\ UNCHANGED <<tasks, harvest, timedOut, cancelling, todo, queuedIds,
                 prepared, engine, hits, faults>>

RecoverMoveUnindexed ==  \* mutant: the SADD to the QUEUED set is missing
  /\ pc = "move"
  /\ RemoveIdsFromStatusSet("RUNNING", patch)
  /\ runningIds' = runningIds \ patch /\ patch' = {} /\ pc' = "recover"
  /\ UNCHANGED <<tasks, harvest, timedOut, cancelling, todo, queuedIds,
                 prepared, engine, hits, faults>>

RecoverMove ==
  /\ pc = "move"
  /\ BatchMoveStatusSets(patch, "RUNNING", "QUEUED")
  /\ runningIds' = runningIds \ patch /\ patch' = {} /\ pc' = "recover"
  /\ UNCHANGED <<tasks, harvest, timedOut, cancelling, todo, queuedIds,
                 prepared, engine, hits, faults>>

Start ==  \* dag_runner.start, engine.start
  /\ pc = "recover" /\ runningIds = {}
  /\ pc' = "maintain"
  /\ UNCHANGED <<storage, tasks, harvest, timedOut, cancelling, todo, queuedIds,
                 runningIds, prepared, patch, engine, hits, faults>>

Boot == Restart \/ (\E p \in Programs : Recover(p)) \/ RecoverMove \/ Start

(* The scheduler gives the event loop away only where it awaits.           *)
atAwait == ~(pc \in {"cancel", "select"} /\ todo = {})

Next ==
  \/ atAwait /\ \E p \in Programs : DagTask(p)
  \/ atAwait /\ (Engine \/ Fail \/ LoseReply \/ Tear)
  \/ Scheduler \/ Crash \/ Boot

(* The event loop runs the ready coroutines each time the scheduler awaits,*)
(* so they are treated strongly fairly (they are not enabled in between);  *)
(* the semaphore is FIFO, a DAG ends within its own dag_timeout, and a     *)
(* crashed instance is resumed.                                            *)
Fairness ==
  /\ WF_vars(Scheduler) /\ WF_vars(Boot)
  /\ \A p \in Programs : SF_vars(atAwait /\ DagTask(p))
  /\ \A p \in Programs : SF_vars(atAwait /\ Resubmit(p))

Spec == Init /\ [][Next]_vars
FairSpec == Spec /\ Fairness

-----------------------------------------------------------------------------
(* Properties of the scheduler.                                            *)

(* "no DAG executes without owning RUNNING state" (dag_runner.py): a       *)
(* program with a launched or executing task is RUNNING in the storage,    *)
(* unless one of the writes named at `astray` has hit that very program.   *)
OwnsRunning ==
  \A p \in Programs \ astray : task[p] \in {"waiting", "executing"} => blob[p] = "RUNNING"

(* No active program can be forgotten, whatever calls failed and wherever  *)
(* a crash fell: it is in the status set of its state, where the scheduler *)
(* looks, or it waits for the recovery in the RUNNING set, which is where  *)
(* the recovery looks (again, unless the program has gone astray).         *)
NeverForgotten ==
  \A p \in Programs \ astray :
    blob[p] \in {"QUEUED", "RUNNING"} =>
      \/ p \in sset[blob[p]]
      \/ ~online /\ p \in sset["RUNNING"]

(* Repeated writes and outdated copies included, every stored program is   *)
(* in some status set, so that a scan of the sets meets it; half a         *)
(* pipeline and a ghost cleanup may leave a program in none.               *)
Indexed ==
  \A p \in Programs \ unplaced : blob[p] \in States => \E s \in States : p \in sset[s]

(* An evaluated program changes hands one owner at a time: a live task, a  *)
(* batch on its way to DONE, the engine's transition of DONE programs.     *)
OneOwner ==
  \A p \in Programs \ astray :
    /\ p \in Flushing => p \notin Live
    /\ epc \in {"read", "write"} /\ p \in ebatch => p \notin Live \cup Flushing

(* Refuted: "Clean up ghost IDs from status sets" (core.py): the idle wait *)
(* takes no id of a program that is QUEUED out of the QUEUED set.          *)
OnlyGhostsCleaned ==
  [][epc = "clean" /\ epc' = "clean_running" =>
       \A p \in sset["QUEUED"] : p \in sset'["QUEUED"] \/ blob[p] # "QUEUED"]_vars

(* Every submitted or refreshed program is eventually settled, or goes     *)
(* astray.                                                                 *)
Settles ==
  \A p \in Programs :
    blob[p] \in {"QUEUED", "RUNNING"} ~> blob[p] \in {"DONE", "DISCARDED"} \/ p \in astray

-----------------------------------------------------------------------------
(* The inductive invariant behind OwnsRunning, NeverForgotten and OneOwner,*)
(* one conjunct per reason; what is not astray is undisturbed by the       *)
(* programs that are.                                                      *)

Sound == Programs \ astray

(* A live task owns RUNNING; what is being flushed is RUNNING, or was      *)
(* discarded meanwhile, and has no live task.                              *)
LiveOwns == \A p \in Live \ astray : blob[p] = "RUNNING"
FlushOwns ==
  \A p \in Flushing \ astray : p \notin Live /\ blob[p] \in {"RUNNING", "DISCARDED"}

(* An evaluated program sits in one batch only, and only a flushing task   *)
(* or a flushing scheduler holds a batch.                                  *)
OneBatch ==
  /\ \A p \in Sound : ~(p \in doneQ /\ p \in sbatch)
  /\ \A p \in Sound : \A q \in Programs : p \in batch[q] => p \notin doneQ \cup sbatch
  /\ \A p \in Sound : \A q, r \in Programs : p \in batch[q] /\ p \in batch[r] => q = r
  /\ \A q \in Programs : batch[q] # {} => task[q] = "flushing"

(* The engine moves evaluated programs only; a program that the scheduler  *)
(* is about to discard or launch has no task.                              *)
EngineOwns ==
  epc \in {"read", "write"} =>
    \A p \in ebatch \ astray : p \notin Flushing /\ blob[p] \in {"DONE", "DISCARDED"}
TodoIdle ==
  /\ \A r \in todo : task[r.p] = "none"
  /\ todo # {} => pc \in {"cancel", "select", "read"}
CancelledIdle ==
  /\ \A p, q \in cancelling : p = q
  /\ pc = "get" => \A p \in cancelling : task[p] = "none"
HarvestEnded ==
  /\ \A p \in harvest : task[p] \in {"finished", "none"}
  /\ harvest # {} => pc \in {"cancel", "unwind", "get"}
PreparedIdle == \A p \in prepared : task[p] = "none"

(* A RUNNING program is in no QUEUED set, so an id of that set that turns  *)
(* out to be RUNNING at the re-read is one this launch has marked.         *)
QueuedApart ==
  /\ \A p \in Sound : blob[p] = "RUNNING" => p \notin sset["QUEUED"]
  /\ \A p \in queuedIds \ astray : blob[p] # "RUNNING"
  /\ queuedIds # {} => pc \in {"ids_queued", "orphans", "select"}
  /\ pc \in {"mget", "read", "mark"} => \A p \in prepared \ astray : blob[p] # "RUNNING"
  /\ pc = "reread" =>
       \A p \in prepared \ astray : blob[p] = "RUNNING" => p \notin Flushing
PatchQueued == pc = "mark" => \A p \in patch \ astray : blob[p] = "QUEUED"

(* What the recovery still has to visit.                                   *)
Recoverable ==
  \A p \in Sound :
    blob[p] \in {"QUEUED", "RUNNING"} /\ p \notin sset[blob[p]] =>
      /\ ~online /\ blob[p] = "QUEUED" /\ p \in sset["RUNNING"]
      /\ pc # "down" => p \in runningIds
RecoverIds ==
  pc \in {"recover", "move"} => \A p \in runningIds \ astray : p \in sset["RUNNING"]
OfflineIdle ==
  ~online =>
    /\ task = [p \in Programs |-> "none"]
    /\ doneQ = {} /\ sbatch = {} /\ batch = [p \in Programs |-> {}]
    /\ ebatch = {} /\ epc = "idle" /\ copies = {} /\ adding = {}
    /\ pc = "move" => \A p \in patch \ astray : blob[p] = "QUEUED"

(* Only a write that has gone astray is retried or torn.                   *)
RetryAstray == adding \subseteq astray

IInv ==
  /\ TypeOK /\ LiveOwns /\ FlushOwns /\ OneBatch /\ EngineOwns
  /\ TodoIdle /\ CancelledIdle /\ HarvestEnded /\ PreparedIdle
  /\ QueuedApart /\ PatchQueued /\ Recoverable /\ RecoverIds /\ OfflineIdle
  /\ RetryAstray

(* Behind Indexed: a DAG is built and run for stored programs only, and    *)
(* the engine holds copies of stored programs only.                        *)
Stored ==
  /\ \A p \in Programs : task[p] # "none" => blob[p] \in States
  /\ pc # "mget" => \A p \in prepared : blob[p] \in States
  /\ \A p \in elites : blob[p] \in States
  /\ \A c \in copies : blob[c.p] \in States
=============================================================================
