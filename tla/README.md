# A formal model of gigaevo

gigaevo (this repository) evolves programs: an engine mutates the elites of an
archive with an LLM, a scheduler runs a DAG of stages over every new program,
and what comes out is offered to the archive again. Everything shares one Redis
key prefix. This directory holds TLA+ modules of the parts of the system whose
correctness depends on the order in which things happen, TLC configurations that
check them on small instances, and theorems about them proved with TLAPS for
every value of the constants.

    tlc -workers 2 -config runner_recovery.cfg MCDagRunner   # one run
    tlapm DagRunner_proofs.tla                               # one proof module

## 1. Inventory

One process (`run.py`) is one asyncio event loop. Coroutines are interrupted only
where they await, and almost every await is a Redis round trip. A second process
on the same prefix is kept out by the instance lock. So a step of a module is the
code between two awaits, and what is hard is what other coroutines, a failing
connection or the end of the process do at those awaits.

| Component (source) | State it keeps | Operations | Talks to | Hard behaviour | What makes it correct |
| --- | --- | --- | --- | --- | --- |
| Program states (`programs/program_state.py`) | none | legal transitions, merge | everyone | two terminal states, one of which is not final | a merge never loses DISCARDED |
| Program storage (`database/redis_program_storage.py`) | blobs, one status set per state | add, update (WATCH/MULTI), write_exclusive, fast and batch transitions, recovery | Redis | blob and set move in one pipeline, which is no transaction, and were read before it; retried calls; outdated copies | an active program is in its set; no program unreachable |
| Redis connection (`database/redis/connection.py`) | pool, closing flag | execute with retries | Redis | an operation applied twice | callers tolerate a repetition |
| Instance lock (`database/redis/locking.py`) | token, renewal task | acquire, renew, release | Redis | expiry, GET-then-SET and GET-then-DEL, two closes | two processes never use a prefix |
| DAG scheduler (`runner/dag_runner.py`) | `_active`, `_done_queue`, semaphore | maintain, launch, one task per program | storage, DAG | timeouts, cancelled writes, batch flush, orphans, crash | a running DAG owns RUNNING; a program has one owner; none is forgotten, each is settled |
| Steady-state engine (`evolution/engine/steady_state.py`) | `_in_flight`, semaphore, gate, counters, drain set | mutation loop, ingestion loop, epoch, run | storage, strategy, stopper | permits passed between coroutines, cancellation at any await, polling during a drain | permits conserved; every mutant gets a verdict, once; run() ends with nothing in flight |
| Generational engine (`evolution/engine/core.py`) | generation counter, pending ingestion, empty generations | step, batch admission and its reconciliation, idle wait, refresh, resume | storage, strategy, bus | two counts for one idleness, partial admission, leftovers, a step that raises, a crash between mutation and ingestion | nothing is discarded unseen, nothing archived is discarded, the run ends |
| Stopping criteria (`evolution/engine/stopper.py`) | `_best_seen`, `_stagnant_count` | should_stop | engines | a question that changes the state | stops on a real plateau, and on every real plateau |
| Mutant creation (`evolution/engine/mutation.py`) | none | store a mutant, record it in its parents | storage, LLM | cancellation after the store, failing lineage update | a stored mutant is handed over |
| Archive, islands, migration (`evolution/strategies`, `evolution/storage`) | two Redis hashes per island, a write-through cache of both | add_elite (WATCH/MULTI), removals, size limit, reindex, migrate | Redis, storage | optimistic transaction, cache behind the server, add-then-remove, clear and re-add | a cell never gets worse; memory mirrors Redis; an elite has one home; no elite is lost, none is discarded |
| DAG execution (`programs/dag`, `programs/stages/base.py`) | stage results, launched stages, input hashes | readiness, skip, cache hit, launch, collect, timeout | storage | results of an earlier, perhaps abandoned run; early skips | each stage gets one outcome per run, from outcomes that allow it; results match their inputs |
| Python workers (`programs/stages/python_executors`) | idle queue, count, lock; pipes of the processes | borrow, request, answer, return, discard, one-shot | worker processes | late or half-read answers, dead workers, cancellation, a full pipe | nobody gets another call's value; the count is that of the processes, but for what cancelled discards do to it |
| Migration bus, adversarial sync, bandit, memory, campaigns | own | see PROJECT.json | Redis, files | message order, partial failure | planned or left out |

`PROJECT.json` lists every component with what is modelled of it, and the hazards
of the code at their lines.

## 2. Modules

| Module | Models | Role |
| --- | --- | --- |
| `ProgramStates` | the four states, `VALID_TRANSITIONS`, `merge_states` | operators |
| `ProgramStorage` | the write pipeline of each storage operation, whole and torn | operators on `blob`, `sset`; extended by `DagRunner` |
| `DagRunner` | the scheduler, its tasks, every write of the engine to the same records, the ghost cleanup, failing calls, lost replies, torn pipelines, crash and recovery | specification |
| `ParentRecord` | one archived program and its three kinds of writers | specification |
| `SteadyState` | the engine's coroutines; the scheduler reduced to its effect | specification |
| `InstanceLock` | acquire, renew, release against an expiring key | specification |
| `Stopper` | the stateful stopping criteria under an engine that asks | specification |
| `DagOutcome` | what one run of a DAG promises | abstract specification |
| `DagRun` | one program's DAG over several runs: gates, skips, caches, timeouts | specification, implements `DagOutcome` |
| `Islands` | archive, cache, islands, migration, re-indexing, admission | specification |
| `Generational` | the generational engine's steps with the scheduler beside it | specification |
| `WorkerPool` | the pool, its processes and the calls that share them | specification |
| `X_proofs` | theorems about `X` | proofs |
| `EngineParts_proofs` | theorems about `ParentRecord` and `Stopper` | proofs |
| `MCX` | symmetry sets and finite values for TLC | instances |

`DagRunner` extends `ProgramStorage`, which extends `ProgramStates`; `ParentRecord`
extends `ProgramStates`; `DagRun` instantiates `DagOutcome` under a refinement
mapping. The others stand on each other without extending: `SteadyState` and
`Generational` take the scheduler by its effect on a program (`Evaluate`, with the
fairness `runner_recovery` checks as `Settles`, and `LateDiscard`, the discard of an
evaluated program that section 5 describes) and the archive as a set; `Islands` takes the engines
by their ways of settling a batch; `DagRunner` takes a DAG as one step, `DagRun`
opens that step, and `WorkerPool` opens what a stage of it does with user code.

### DagRunner

`blob[p]` and `sset[s]` are the server. `task[p]` is the asyncio task in `_active`
(`"none"` when there is none): waiting for a permit, executing, persisting
partial results after a failure, unwinding after a cancellation, discarding,
flushing, finished. `doneQ`, `sbatch`, `batch[p]` are `_done_queue` and the copies
of it that the scheduler and the tasks are writing. `pc` is the scheduler's
position; each of its actions is the code up to the next round trip: `Maintain`,
`Cancel`, `Cancelled`, `GetTimedOut`, `Discard`, `Harvest`, `Flush`
(`_maintain`), `ReadQueuedIds`, `ReadRunningIds`, `Orphans`, `Select`, `Build`,
`ReadPrepared`, `MarkRunning`, `Reconcile` (`_launch`). `DagTask(p)` is
`_run_one`/`_execute_dag`. `atAwait` says that tasks and engine run only while the
scheduler awaits.

`Engine` is every write the engine and its strategies make to the same records.
`epc` is its batch operation in flight: `Refresh` and `Reject` (batch transitions of
DONE programs by their ids, with the MGET a step of its own), `Leftovers` (ids moved
to the DISCARDED set, blobs left alone), and the ghost check of the idle wait
(`GhostCheck`, `GhostStep`: two counts of two round trips each, two reads of ids, two
removals). `copies` are single records it holds and will write back: the parent of a
mutant, read and merged back with its new child (`SelectParent`, `ReadCopy`,
`CopyUpdate`), and an evicted elite, which is updated and then discarded (`Evict`,
`CopyDiscard`). Any of these copies may be outdated when it is written, and the merge
of `update` may then change the state of the record without touching its set.

`Fail` is a call that fails for good, its write applied or not, and takes its caller's
exception path; `LoseReply` applies a write whose reply is lost, after which `execute`
runs the operation again; `Tear` leaves a proper prefix of a pipeline in place (SETs,
SREM, SADD are sent with `transaction=False`); `Crash` keeps only the storage and
`Boot` is `recover_stranded_programs` followed by the start.

Four kinds of writes put a program where nothing the scheduler does would: a
repetition, half a pipeline, a ghost cleanup, and a write from an outdated copy that
changes the state. The history variable `astray` collects the programs so hit, one by
one, and `unplaced` those of half a pipeline or a ghost cleanup. The properties speak
of the others, whatever has happened to these: they are not conditions on the whole
run but on the one program. Section 5 says what becomes of a program that is hit.

### SteadyState

`free` is the semaphore, `inFlight` the set `_in_flight`, `task[m]` the mutation
task that makes m, `lpc`/`ipc`/`rpc` the positions of the mutation loop, of the
coroutine that ingests (the loop, or run() in its final epoch) and of run().
`gate`, `draining`, `processed`, `preDrain`, `drainSet`, `remaining` are the
attributes of the same names. A poll is `Poll`, `IngestRead`, `Accept`/`Reject`/
`AddRaises` for each program, `RejectBatch`, `Release`; `caller` tells for whom.
An epoch is `Trigger` (inside `Release`, no await between), `DrainRead`,
`DrainRelease`, the polls on the side, `HookReturns`, `Refresh`, `OpenGate`,
`AwaitIdle`, `Reindex`, `BumpEpoch`, `EndEpoch`. `CancelTask`, `CancelMutation`,
`CancelIngestion`, `CallRaises` are the cancellations and exceptions, each at every
await at which it can arrive. The archive is a set of at most `Cells` programs;
which elite loses is a choice.

### ParentRecord

`rec` is the blob of one program with its state and lineage, `copy[c]`, `patch`,
`mark`, `memory` the copies its writers hold. The merge is the code's:
`merge_states` and the union of the children.

### InstanceLock

`holder` and `ttl` are the key and its expiry, `pc[i]` and `age[i]` the position of
an instance and the ticks spent there, `closer[i][c]` one call of `close()`. Every
Redis command is a step, an operation may be run again any number of times, and
`Tick` passes whenever it likes: the code bounds neither an operation (five attempts,
each with a socket timeout of 60 s, `redis/config.py:14`, `connection.py:46`) nor the
oversleeping of a busy event loop. `late` is history: a sleep has lasted longer than
`Renewal`, or an operation longer than `OpTime`, ticks. `overlap` is history too: two
releases of one instance have been under way.

### Stopper

`hist` is the archive's best after each generation, `seen` and `stagnant` the
plateau stopper's attributes. `Ask` is the generational engine's question, once
per turn of its loop; `AskAgain` the further questions of the steady-state loops;
`StepFails` a step that raised.

### DagRun

`results[s]` is `program.stage_results[s]` (status, output, hash of the inputs it
was computed from), `dag` the topology with its three kinds of edges (required and
optional data, execution order with a condition). `pc` is the position in
`_run_internal`: `NextPass` is the top of the loop with its skips (`Skip`), `Launch`
asks `get_ready_stages` and starts what fits in `MaxParallel` (`Start`), or reuses a
cached result (`Cached`); a task computes in `Finish`, `Collect` takes the ended
ones. `Timeout` and `Crash` abandon a run, `Persist` stores what it left, and the
next run begins from there with other inputs. A stage's output is a version number,
a hash the function of its inputs. The refinement mapping (`Outcome`) forgets
everything but which stages this run has settled, and how.

### Islands

`hash`, `rev` are the two Redis hashes of each island, `cache`, `where` the two
dictionaries that mirror them, `watching` the WATCHes of Redis that are still good.
`task[t]` is what a coroutine is doing: the ingestion, the selection (which
migrates), one task per island for re-indexing and for size limits (the code
gathers those). One Redis command or MULTI block is a step, its answer another:
`Add` (fast path), `Watch`, `Exec` or `Refuse` or `Retry`, `Stored`; `Limit`, `Look`,
`Wipe`, then `Evicted`, `Moved` or `RolledBack`; `Gather`, `Clear`, `Cleared`.
`Ingest`/`Verdict` is an engine around a batch; `engine` says which one, since they
settle a batch differently and the generational one never overlaps a selection with
an ingestion. `LoseAnswer` is a repeated operation, `Fail` one that fails for good
before or after its effect, `Crash` a restart that reads memory back. A migration
and an ingestion do overlap in steady state: `_cached_elites` is empty at the start
and after an epoch whose refresh failed (`steady_state.py:646`), and the mutation
loop then selects while the other loop ingests. `overlap`, `beaten` are history.

### Generational

`pc` is the phase of step(); the counters carry the names of the code's attributes
or its comments. `Idle` is one of the two counts of `_has_active_dags`: they are gathered
over two connections and answered in either order (`zeros`), and a program launched
between them is in neither. A program's state is kept in its blob and in the status sets
(`index`), because leftovers are discarded in the sets only. `Admit` is add_batch and
`_reconcile_batch_admission_failure`: whatever subset of old and new the strategy
ends up with, the verdicts follow the active ids. `Fail` is a step that raises,
`Crash` the process's death up to `restore_state`, `Launch`/`Evaluate` the scheduler.
`judged` (what the acceptor has seen), `missed` (what a wait overlooked: active when it
returned, until an ingestion has met it) and `blind` (the active ids could not be read)
are history. The removal of ghost ids in the same wait is part of `DagRunner`, where
the ids and the blobs are kept apart.

### WorkerPool

`queue`, `count`, `lock` are the pool's attributes; a process has a `life`, requests
it has not read, answers nobody has read, and prints in its stderr pipe. `pc[c]` is
a call of `run_exec_runner`: `GetIdle`, `GetNew` (which holds the lock until
`Started`), `GetWait`/`Take`, `ReadAnswer`, `Misread`, `Broken`, `Timeout`, `Discard`,
`Killed`, `OneShot`. A discard lowers the count, kills, and waits up to two seconds for
the process to go (`"killing"`). A call may be cancelled at each await, and more than
once (the stage's timeout, then the DAG's): during that wait, after which the finally
clause discards the worker a second time (`DiscardAgain`), and in the finally clause
itself while it waits for the lock, after which nobody discards it. `twice` and
`leaked` count the two. An answer is one token, and a second one for the body that is left
unread when the length exceeds the limit.

## 3. Runs

| Run | Instance | States | Shows |
| --- | --- | --- | --- |
| `runner_concurrent` | 2 programs, 2 permits, prefetch 2, 1 batch operation of the engine, 1 failed call, and 1 single record of the engine or 1 repeated or torn write | 1,785,826 | `OwnsRunning`, `OneOwner`, `Indexed` |
| `runner_recovery` | 2 programs, 2 permits, prefetch 2, 1 batch operation, 1 failed call, 1 crash, fair | 180,532 | `NeverForgotten`; `Settles`: every queued or running program is evaluated or discarded |
| `dag_runs` | 24 DAGs of 3 stages, 2 input versions, 2 parallel stages, 2 runs, fair | 464,789 | `OutcomesHold` (implements `DagOutcome`), `FreshResults`, `SkippedIsRuledOut`, `AllResolved`, `RunEnds` |
| `islands` | 2 islands of 2 cells, 3 programs, size limit 1, 1 migrant, both engines, any 2 of migration, re-indexing, lost answer, failure, crash, overlap of migration and ingestion | 512,051 | `NeverWorsened` always; `MirrorsRedis`, `OneHome`, `NoDiscardedElite`, `Kept` when calm |
| `generations` | 1 initial program, 2 mutants, 3 generations, 1 error, 1 crash, fair | 1,083,349 | `JudgedFirst`, `ElitesSpared`, `NothingLeft`, `Completes` |
| `workers` | 3 calls, 2 workers, 3 processes, 2 timeouts, 1 death, 2 cancellations, 1 slow kill, fair | 165,858 | `AnswersOwn`, `Accounted`, `Served` |
| `steady_loops` | 3 mutants, 2 permits, 2 epochs, a budget that may fire, 1 failed call | 1,838,816 | `SlotsConserved`, `Tracked`, `NeverJudgedTwice`, `ScopedDrain`, `StoppedDrained` |
| `steady_live` | 2 mutants, 1 epoch, 1 failed call, fair and productive | 69,130 | `GateReopens`, `Resolved`, `Stops` |
| `parent_lineage` | 3 children, 3 refreshes | 95,980 | `SafeChildrenKept`, `DiscardedIsFinal` |
| `lock_lease` | 2 instances, 2 closers, times 10/3/2, 1 failure, time passes | 276,522 | `CalmExclusive`, `StaleKeyExpires` |
| `stopper_plateau` | window 2, 4 fitness levels, 2 further questions, 2 failed steps | 13,201 | `PlateauLastedOnce`, `PlateauCaught` |
| `workers_poison` | 3 calls, 2 workers, no faults | | violated: `FailsOfItsOwn` |

**Scheduler and engines.** The defaults are 8 and 10 permits (`dag_runner.py:101`,
`config/constants/runner.yaml:5`). Two permits and two programs are the least with which
a task flushes a batch that holds another program, an orphan discard meets a flush, and
one task succeeds while another's cancellation is awaited; the theorems of section 4 are
for any number. `runner_concurrent` has a batch operation of the engine and a failed
call beside the scheduler, together with what may lead a program astray (`MaxStrays`): a
single record that the engine updates or discards, or a write that is repeated or torn.
`runner_recovery` has a crash at any point instead; `MaxStrays` is 0 in it, since a
liveness property about the programs that are not hit needs no other program to be.
Three mutants and two permits give a drain with one program of the drain set, one
outside it and one being made; `EpochSize = 1` makes epochs follow each other at once.
`generations` has three generations: the first settles the initial program, and a mutant
of the second that its wait overlooks is a leftover of the third. With two generations
no overlooked mutant would meet a later discard.

**Archive.** Three programs are the least with which an eviction, a displaced
occupant and a newcomer differ; with two cells a size limit of one evicts at once,
and two islands are what a migration needs. `MaxEvents = 2` admits every pair of
disturbances, such as a migration during which an answer is lost or an ingestion
runs (a lost answer during such an overlap would be a third, and is left to the proof
of `NeverWorsened`); one program is
worse than the other two, which are equal, so that a newcomer wins, loses and ties.

**DAGs and workers.** The 24 shapes put every kind of edge and condition between
three stages, the third always reading the first; two runs are what leftovers need.
Three processes for two workers let one be discarded and replaced while another
dies; one print of room makes a worker of two printing calls block; two cancellations
are what it takes to cancel a call twice.

**Lock and stopper.** Times 10/3/2 are the smallest for which an operation of more than
a tick can be late only by more than the lease theorem says; with an expiry of 9 TLC
finds two instances on one prefix although nothing was late, so the bound is exact.

Deadlock checking is off where the system ends: a run of an engine (`steady_*`,
`generations`, `stopper_plateau`), the last call (`workers`), the last run of a DAG,
finitely many programs, children and refreshes (`islands`, `parent_lineage`). The
bounds `MaxRounds`, `MaxErrors`, `MaxStrays`, `MaxCrashes`, `MaxRefreshes`,
`MaxFailures`, `MaxAsks`, `MaxHist`, `MaxRuns`, `MaxBatch`, `MaxEvents`,
`MaxGenerations`, `MaxTimeouts`, `MaxDeaths`, `MaxCancels`, `MaxUnreaped` and the number of
`Workers` stand in guards of the actions they limit. `Count` in `SteadyState` caps a
counter where no comparison can tell the difference.

### Fairness

* `DagRunner`: the scheduler and the recovery are weakly fair (one coroutine that
  always continues); tasks and retries are strongly fair, since the event loop
  serves them at each await and they are not enabled in between. A DAG ends within
  its own timeout, and a crashed instance is started again. Nothing is assumed of
  its outcome.
* `SteadyState`: `FairSpec` lets each coroutine continue and the scheduler finish
  each program, with any outcome. `ProductiveSpec` adds that mutations and
  evaluations succeed now and then; only `Stops` needs it, since a run whose
  mutants all fail never becomes due for an epoch.
* `DagRun`: the loop goes on and stages end, by their own timeout if need be
  (`Step`); weak fairness of the disjunction is enough, since each step brings the
  run nearer to its end. Nothing forces a timeout, a crash or a new run.
* `Generational`: the engine's task continues, and the scheduler launches and
  evaluates each program, with either outcome. Errors and crashes are never fair.
* `WorkerPool`: coroutines continue, a worker that is not stuck answers, the
  timeout of a call whose worker is stuck fires.
* `InstanceLock`: time passes. Nothing is assumed of the instances.

## 4. Proofs

Assumptions on constants are the named `ASSUME`s of the modules. No theorem bounds
the number of programs, permits, mutants, instances, children, failures, crashes.

* **`DagRunner_proofs`**. `TypeCorrect`, with every failure mode. `Inductive`: `IInv`
  holds whatever happens, since each of its conjuncts speaks of the programs that are
  not astray. "A DAG owns RUNNING" is not inductive: one must know that a live task's
  program is RUNNING until its own task moves it (`LiveOwns`), that a flush batch and a
  live task never hold the same program (`FlushOwns`, `OneBatch`), that what the
  scheduler is about to launch or discard has no task (`PreparedIdle`, `TodoIdle`), that
  an id of the QUEUED set read earlier cannot have become RUNNING by another hand
  (`QueuedApart`), and that the engine's transitions move evaluated programs only
  (`EngineOwns`); for `NeverForgotten`, that what a crash leaves behind is where the
  recovery looks (`Recoverable`, `RecoverIds`). One lemma per group of actions.
  `StrayKeeps` is the lemma for the writes that lead astray: a step that changes blobs
  and sets of programs it adds to `astray`, and nothing else, keeps every conjunct.
  `RunningOwned`, `OwnedByOne` and `NothingForgotten` follow. `AllIndexed` allows
  repeated writes and outdated copies: a move between sets keeps every program indexed,
  a blob is rewritten only for a stored program (`Stored`), an id is removed only for a
  deleted one, by half a pipeline or by a ghost cleanup. No theorem bounds the permits.
* **`SteadyState_proofs`**. `SlotsAreConserved`: free permits, the permit in the
  loop's hands, owning tasks and programs in flight add up to `MaxInFlight`. Needs
  that a program in flight has no owning task, and the cardinality lemmas
  `OwnerAdded`, `OwnerGone`, `Freed`. `TypeCorrect` follows for the semaphore's
  upper bound. `EngineInv` is the invariant of the two loops: where the stored
  mutants are while tasks make them (`TasksOK`), what a poll under way has read, is
  judging and will release (`BatchOK`), that a poll beside a drain leaves the drain's
  programs to it (`DrainOK`), that what is offered was not offered before
  (`FreshOK`), and what each coroutine has done once run() is in its final epoch or
  has returned (`CapOK`, `FinalOK`), with `Tracked` itself. One lemma per coroutine. From it
  `NothingIsForgotten`, `JudgedOnce`, `ReturnsDrained`, `DrainIsComplete`.
* **`EngineParts_proofs`**. Of `ParentRecord`: `TypeCorrect`, `SafeChildrenAreKept`
  (every copy that will be written back holds the safe children), `DiscardIsFinal`
  (from two facts on `merge_states`: it is total, and DISCARDED wins; and from the
  state in which the refresher and the DAG can be while the program is discarded).
  Of `Stopper`: `PlateauIsReal`, as long as it is asked once a generation, about a
  metric to be maximised, a reported plateau means that the window has passed (the
  invariant says that `_best_seen` is the best of the generation `_stagnant_count`
  before the last one asked about); and `PlateauIsCaught`, however often it is asked
  and whatever steps raise, no generation begins on a best that has not moved for
  the window.
* **`InstanceLock_proofs`**. While it is calm, `LeaseIsExclusive` and
  `ReleaseDeletesOwn`. Calm excludes three events and bounds nothing: no operation has
  failed for good, no two releases of one instance have overlapped, and none of the
  sleeps and operations that did happen was `late`. Operations may take any time in the
  module; the theorem says from when on that matters. It holds for every `OpTime` with
  `SafeTiming` (the expiry exceeds a renewal and three operations), so with the defaults
  of 300 s and 120 s a lease is lost, failures and overlaps apart, only if some
  operation took 60 s or more or a renewal overslept. The code enforces none of this: one
  attempt that times out (60 s) is already late, and section 5 says what then follows.
  The invariant bounds the key's remaining time from below by the position and age of
  its holder (`Lease`).
* **`DagRun_proofs`**. `ImplementsOutcome`: initial states and every step map to
  `DagOutcome` under the mapping that reads a stage's outcome from its result once
  this run has settled it. Needs that a launched stage had all it depends on settled
  (`Launched`), that a gate reads only results of this run (`MayRun`, `CannotRun`),
  and that leftovers are not taken for them (`Settled`). `ResultsAreFresh`,
  `SkipsAreRight`, `ResultsAreFinal`, `TypeCorrect` follow from the same invariant.
  `NothingUnresolved` rests on the absence of cycles, which the module assumes because
  `DAGValidator._validate_cycles` rejects every other DAG: among the stages not yet
  settled one has all its producers settled (`NobodyLeft`), so its gates are open or
  closed for good, and it is launched or skipped before the loop may return.
* **`Islands_proofs`**. `NeverIsWorsened`: whatever number of coroutines add, remove,
  re-index, repeat, fail or die, a cell changes hands only for the better. The
  invariant `IInv`: while a WATCH is good the cell holds what was read (`Watched`, so that
  EXEC replaces what the comparison looked at), a task that goes to Redis is better
  than the occupant memory showed (`Placed`), and the types. That memory may be wrong
  does not matter: this is what the second comparison, with Redis, is for.

  `MemoryMirrorsRedis` and `HasOneHome`, while no operation fails and no migration
  overlaps an ingestion, rest on `QInv`. `Turns` says who can be at work beside whom
  (re-indexing helpers while the engine waits for them, limits while a migration
  does). From it follow that memory lags behind Redis by at most one task per island
  (`Mirror`, spelled out per program counter in `Lag`), that the reverse hash is the
  inverse of the hash (`Inverse`), and that what a task has read is still so
  (`Current`). A job leads to the cell of its metrics (`Jobbed`), a program not yet
  added is in no archive (`New`), a re-indexing ends with every elite in its cell
  (`Recelled`, `Celled`). An elite is at the home its metadata name, but for the one
  being added or migrated, which is in its source, its destination or both (`Homed`).
  With one crash the memory read back at the start agrees with Redis; the crash
  can break `Celled` or `Homed`, never both, and `MirrorsRedis` needs only one.

  `DiscardedLeave` and `ElitesAreKept`, without a crash, rest on `KInv`. `Gone`: a
  discarded program is in an archive only while a migration is about to remove it
  there, is not among what a re-indexing adds again, and is not left behind when an
  ingestion discards its batch. `Keep`: a program that is not discarded is in an
  archive, in the batch, among what a re-indexing has yet to add, lost its cell to a
  better one, or is being evicted; at each program counter of a migration, it says in
  which of the two islands the migrant is. Each action's effect on its task is stated
  once (the lemmas `...Goes`) and used in every invariant.
* **`Generational_proofs`**. `NothingIsLeft`, `JudgedIsFirst`, `ElitesAreSpared`,
  `TypeCorrect`, from one invariant: what the phases imply of the flags (`Phased`), where
  blobs and sets may differ (`Agreed`), that whoever is active while the engine does not
  wait was overlooked by its wait (`Overlooked`), what an ingestion under way has left
  to look at (`Ingesting`), and that unseen programs are this step's mutants, about to
  be ingested, or overlooked (`NoneUnseen`). The last is what `_resume_ingest_pending`
  is for: without it the mutant `CrashWithoutIngestion` loses programs unseen.
* **`WorkerPool_proofs`**. `Inductive`, then `ValuesAreOwn` and `PoolIsAccounted`. A
  process has one owner (`Owned`), the count is that of the owned ones and of the leaked
  ones, less those counted off twice, also while a start holds the lock (`Counted`), and
  what is still in a worker's pipes belongs to the call that borrows it, unless the
  worker is poisoned by an unread body (`Pipes`); a poisoned worker answers with bytes
  that are nobody's value. Cancellations are allowed at every await, the awaited kill
  and the finally clause included, and any number of times.

`TypeCorrect` of every proof module that has it,
`Inductive` of `DagRunner_proofs`, `Islands_proofs`, `Generational_proofs` and
`WorkerPool_proofs`, `CalmInductive` and `KeptInductive` of `Islands_proofs`, and
`ReleaseDeletesOwn`, `ResultsAreFinal` are proved for every value
of the constants and not repeated as runs; TLC has checked `QInv` and `KInv` as
invariants of smaller instances than the run's before they were proved.

Every safety property of the passing runs is the statement of a theorem. Only
model-checked are the liveness properties (`Settles`, `GateReopens`, `Resolved`,
`Stops`, `StaleKeyExpires`, `RunEnds`, `Completes`, `Served`): liveness under fairness,
and the ENABLED in it, is outside what the prover handles.

The invariant of `MirrorsRedis` showed that it holds up to one crash and not beyond,
and so the property says: a crash between EXEC and the metadata leaves an elite whose
`current_island` is not set, a re-indexing that a second crash cuts short leaves the
archive partly filled, and a later migration, which takes that elite for one without a
source, adds it to its own island in another cell.

## 5. Where the code and what is said of it disagree

The run `workers_poison` ends in a counterexample. `_run_via_worker` raises
(`wrapper.py:227`) when the announced length of an answer exceeds the limit, before it
reads the body, and `run_exec_runner` gives the worker back (338) as "a healthy
worker" (161): the next call takes bytes of that body for the length of its own
answer. It fails, as too large or as unreadable; in the second case the worker is
discarded, in the first it goes on to the next innocent call. `AnswersOwn` says that
no call ever returns another one's value.

Others, stated in the modules and met while modelling, are kept as definitions that
no run lists; the changes under which TLC refutes them are:

| Definition | Change to a run | What happens |
| --- | --- | --- |
| `OnlyGhostsCleaned` | `runner_recovery` with all faults 0 | the ghost check counts the QUEUED and the RUNNING programs (`core.py:446`, 452) and then reads the ids it removes (460): a program added after the first count is QUEUED and leaves the QUEUED set, where the scheduler looks for it; the comment at `core.py:459` says "Clean up ghost IDs". In steady state the wait runs with the mutation gate open (`steady_state.py:595`) |
| `QuietWhileWriting` | `generations` without faults | between the two counts of `_has_active_dags` (`core.py:920`) a program is launched and is in neither; the docstring of `_await_idle` (`core.py:428`) says "Block until there are no programs in QUEUED or RUNNING" |
| `ProcessesBounded` | `workers`, 1 worker | a cancellation in the awaited kill makes the finally clause (`wrapper.py:353`) count the worker off a second time, and the pool then starts more than `max_workers` (docstring `wrapper.py:147`: "create one if under limit") |
| `NothingLeaked` | `workers` | a second cancellation meets the finally clause at the lock: the worker is neither returned nor discarded, and its place in the pool is lost |
| `NoOrphanGhost` | `steady_loops`, 2 mutants, 1 epoch | cancelling a mutation task (`steady_state.py:257`) drops the id of a mutant that is stored; the comment at `mutation.py:76` says any failure "must still return the program ID", also a CancelledError |
| `ChildrenKept` | `parent_lineage`, 2 children, 1 refresh | the DAG's write erases a child recorded while the DAG ran; the docstring at `redis_program_storage.py:215` calls it safe where one `asyncio.Lock` excludes concurrent writes, but engine and DAG have different locks |
| `PlateauLasted` | `stopper_plateau` without failed steps | the docstring at `stopper.py:4` says "once per generation"; the steady-state loops ask several times (`steady_state.py:193`, 200, 307) and each question counts as a generation |
| `OwnsRunning` without `\ astray` | `runner_concurrent` | a retried add writes QUEUED over the RUNNING of an executing program; so does a lineage update whose copy was read DONE, with DONE, if a refresh has launched the parent meanwhile |
| `NeverForgotten` without `\ astray` | `runner_concurrent` | a lineage update whose copy was read QUEUED puts QUEUED into a DONE blob and leaves the id in the DONE set; half a pipeline, or a ghost cleanup, takes the id of an active program out of its set |
| `RefreshReachesAll` | `parent_lineage` | a lineage update brings QUEUED back into a DONE blob and refreshes pass the program over |
| `Exclusive` | `lock_lease` | the key expires during an operation or a sleep that is late (one timed-out attempt can make it so), or after a failed renewal, which ends the renewal task only; a second instance then starts (`locking.py:22`) |
| `OwnDelete` without `Calm` | `lock_lease` | two closes both pass the GET; the second deletes another's key (`run.py:92`) |
| `RefusedByAnother` | `lock_lease` | an acquire whose reply is lost is refused by its own key |
| `ArchivedNotRejected` | `steady_loops` | the ingestion loop is cancelled after the archive's acceptance; the final epoch discards the archived program |
| `EpochDue` | `steady_live`, `FairSpec` | discarded mutants are swept but not counted, no epoch is ever due (`config.py:51` says they are) |
| `PlateauLasted` | `stopper_plateau`, two failed steps, or `HigherIsBetter = FALSE` | failed steps count as generations; improvements of a minimised metric count as none |
| `MirrorsRedis` without `Calm` | `islands` | with a migration beside an ingestion, or a repeated or failed operation, memory shows an elite Redis has not, or misses one (docstring `archive_storage.py:79`: writes "update both cache and Redis atomically") |
| `OneHome` without `Calm` or with crashes | `islands` | a crash or failure after the destination's add and before the source's removal leaves the migrant in both islands |
| `NoDiscardedElite` without `Calm` | `islands` | an addition of the steady-state engine that raises after its EXEC is discarded though archived; so is, generationally, a program evicted by a limit whose removal was repeated |
| `Kept` without `Calm`, or with crashes or re-indexing | `islands` | a crash between clearing and re-adding (`island.py:308`) loses the island's elites; a removal that read its cell before another program took it deletes that program |
| `ElitesSpared` without `~blind` | `generations` | if additions took effect and the active ids cannot be read, newcomers are discarded though archived |
| `JudgedFirst` without `\ missed`, or without `errors = 0` | `generations` | a mutant that a wait overlooked is evaluated after the ingestion has read the DONE ids, and the next generation discards it unseen as a leftover (`core.py:576`), with no error; so are the mutants of a step that failed after creating them |
| `NobodyWaitsInVain` | `workers` | every worker is discarded while a call waits for the queue; nobody looks at the count again (docstring `wrapper.py:147`) and the call waits until its stage times out |

Two permits are enough for an evaluated program to be discarded, and no failure is
needed. An orphan discard, whose scan found the program RUNNING and without a task,
meets the DONE flush of the same program: it ends in two sets, with the state of the
later write (docstring `redis_program_storage.py:281`). A task that succeeded while another
timed-out task was being cancelled is still RUNNING at the re-read, and its program is
discarded; the comment at `dag_runner.py:277` says "Don't discard a program that already
finished". A batch flush that fails or is cancelled leaves its programs RUNNING without
tasks, and the next scan discards them. `OneOwner` and `Settles` therefore do not claim
that an evaluated program ends as DONE.

Also met: a refresh whose answer is lost is repeated, finds nothing to do, and the
engine skips the re-indexing (`core.py:297`); an elite whose refresh fails is
DISCARDED by the scheduler and stays in the archive; leftovers that are discarded keep
a blob that says DONE; a migration's rollback does not bring back the elite the
migrant had replaced; a worker's stderr is never read, so what all its calls print
adds up until one of them blocks and is timed out.

## 6. Not modelled, and why

Payloads, metrics, prompts and stage results are data that no property above
distinguishes. The LLM, user code, files and subprocesses beyond the worker pool are
I/O. The status stream, the snapshot cache and counters have no reader that changes a
state. `pause`/`resume`, `atomic_state_transition`, `remove_elite` and
`remove_program_by_id` have no caller in a run. Of the islands, dynamic behaviour
spaces, selection quotas and the strategy's generation counters are left out; of the
generational engine, the hooks and the bus; of
DAG runs, the deadlock branch (`dag.py:178`), which validated DAGs do not reach, and
the stall monitor; of the worker pool, its shutdown when the process ends and the
state user code leaves in a worker's interpreter. Most of the repository by size
(problems, auto-research campaigns, repository harness, memory, tools, analysis,
vendored code) is scripts, data processing and network I/O around this core.
Some interactions are cut between modules. `SteadyState` reads both counts of an idle
wait at once; a false idle only lets a re-indexing begin while something is evaluated,
and no property there depends on it (`Generational` has the two counts). `ParentRecord`
does not model the discards of a parent by its strategy (`DagRunner` does). In
`WorkerPool` the bytes of an unread body are assumed never to unpickle to a value, and a
request is written at once: `stdin.drain` (`wrapper.py:221`) has no timeout of its own in
the code. In `Islands` a discard changes the state in one step.
Time is abstract except in `InstanceLock`: a task may time out whenever the
scheduler looks, waiting ones included, and the fallback timer of an epoch may
have run out at any poll. Induction over data is outside the prover's reach, so
what a recursive definition computes stays with TLC.

## 7. Plan

Done, in order of importance: `DagRunner` over `ProgramStorage`, `SteadyState`,
`ParentRecord`, `InstanceLock`, `Stopper`, `DagRun` with its refinement of
`DagOutcome`, `Islands`, `Generational`, `WorkerPool`. Next:

1. An abstract scheduler (a program is queued, owned, settled) implemented by
   `DagRunner`; `Evaluate` of both engines is its step.
2. `Shutdown`: both stop() calls over the storage they share.
3. Candidates: migration bus, adversarial sync, bandit, campaign driver.
