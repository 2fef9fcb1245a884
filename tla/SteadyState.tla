---------------------------- MODULE SteadyState ----------------------------
(***************************************************************************)
(* The steady-state evolution engine                                       *)
(* (gigaevo/evolution/engine/steady_state.py): a mutation loop that spawns *)
(* one task per mutant under a semaphore, an ingestion loop that polls the *)
(* evaluated mutants and periodically refreshes the archive (an epoch),    *)
(* and the run coroutine that starts both, cancels the one that is still   *)
(* running when the other ends, and drains what is left.                   *)
(*                                                                         *)
(* All of it is one event loop: a step is the code up to the next await,   *)
(* and an await of the storage is taken when the server answers.  The DAG  *)
(* runner (module DagRunner) is reduced to its effect, QUEUED (or RUNNING) *)
(* to DONE or DISCARDED.                                                   *)
(***************************************************************************)
EXTENDS Integers, FiniteSets

CONSTANTS
  Seeds,          \* programs of the archive when the loops start
  Mutants,        \* identifiers for mutants, reused once nothing holds them
  Cells,          \* cells of the archive
  MaxInFlight,    \* permits of _in_flight_sema
  EpochSize,      \* processed programs that trigger an epoch
  MaxEpochs,      \* the MaxGenerationsStopper's cap
  Budget,         \* TRUE: a stopper that may fire at any time is configured
  MaxErrors       \* bound: storage calls that raise

ASSUME SteadyAssumption ==
  /\ Seeds \cap Mutants = {} /\ IsFiniteSet(Mutants)
  /\ Cells \in Nat \ {0} /\ MaxInFlight \in Nat \ {0} /\ EpochSize \in Nat \ {0}
  /\ MaxEpochs \in Nat /\ MaxErrors \in Nat /\ Budget \in BOOLEAN

Programs == Seeds \cup Mutants

VARIABLES
  blob,       \* the stored state; QUEUED stands for QUEUED and RUNNING
  archive,    \* strategy.get_program_ids()
  judged,     \* history: mutants the acceptor or the strategy has ruled on
  task,       \* task[m]: the mutation task that makes m
  lpc,        \* the mutation loop
  free,       \* the semaphore's value
  inFlight,   \* _in_flight
  gate, draining, processed, preDrain, refreshed,
  epochs,     \* total_generations
  expired,    \* the budget stopper has fired
  ipc,        \* the coroutine that ingests: the ingestion loop, or run()
  caller,     \* what asked for the ingestion under way
  drainSet, remaining, active,        \* _drain_scoped
  done, gone, todo, rejects, handled, \* one poll and its _ingest_batch
  rpc,        \* run()
  errors

store  == <<blob, archive, judged>>
mutate == <<task, lpc>>
slots  == <<free, inFlight>>
epoch  == <<gate, draining, processed, preDrain, refreshed, epochs>>
ingestion == <<ipc, caller, drainSet, remaining, active, done, gone, todo,
               rejects, handled>>
control == <<expired, rpc, errors>>
vars == <<store, mutate, slots, epoch, ingestion, control>>

(* An active mutation task owns a slot from its creation until the mutant  *)
(* is in _in_flight.                                                       *)
Owning == {m \in Mutants : task[m] \in {"mutating", "persisted"}}

held == IF lpc = "granted" THEN 1 ELSE 0  \* permits in the loop's own hands

DrainPoints == {"drain", "side"}
EpochPoints == {"hook", "refresh", "elites", "idle", "reindex", "post", "saved"}
BatchPoints == {"ingest", "judge", "release"}

SteadyTypeOK ==
  /\ blob \in [Programs -> {"absent", "QUEUED", "DONE", "DISCARDED"}]
  /\ archive \subseteq Programs /\ judged \subseteq Mutants
  /\ task \in [Mutants -> {"free", "mutating", "persisted", "tracked", "lost"}]
  /\ lpc \in {"gate", "acquire", "granted", "ending", "ended"}
  /\ free \in 0..MaxInFlight /\ inFlight \subseteq Mutants
  /\ gate \in BOOLEAN /\ draining \in BOOLEAN /\ refreshed \in BOOLEAN
  /\ processed \in Nat /\ preDrain \in Nat /\ epochs \in Nat
  /\ expired \in BOOLEAN
  /\ ipc \in {"poll", "ended"} \cup BatchPoints
               \cup DrainPoints \cup EpochPoints
  /\ caller \in {"loop", "drain", "retry", "side"}
  /\ drainSet \subseteq Mutants /\ remaining \subseteq Mutants
  /\ active \in BOOLEAN
  /\ done \subseteq Mutants /\ gone \subseteq Mutants /\ todo \subseteq Mutants
  /\ rejects \subseteq Mutants /\ handled \subseteq Mutants
  /\ rpc \in {"loops", "joining", "final", "stopped"}
  /\ errors \in 0..MaxErrors

Init ==  \* the seeds are ingested and both loops have been created
  /\ blob = [p \in Programs |-> IF p \in Seeds THEN "DONE" ELSE "absent"]
  /\ archive = Seeds /\ judged = {}
  /\ task = [m \in Mutants |-> "free"] /\ lpc = "gate"
  /\ free = MaxInFlight /\ inFlight = {}
  /\ gate = TRUE /\ draining = FALSE /\ refreshed = FALSE
  /\ processed = 0 /\ preDrain = 0 /\ epochs = 0 /\ expired = FALSE
  /\ ipc = "poll" /\ caller = "loop"
  /\ drainSet = {} /\ remaining = {} /\ active = FALSE
  /\ done = {} /\ gone = {} /\ todo = {} /\ rejects = {} /\ handled = {}
  /\ rpc = "loops" /\ errors = 0

ReachedCap == epochs >= MaxEpochs \/ expired

-----------------------------------------------------------------------------
(* The mutation loop and its tasks.                                        *)

GatePassed ==
  /\ lpc = "gate" /\ gate
  /\ lpc' = "acquire"
  /\ UNCHANGED <<store, task, slots, epoch, ingestion, control>>

Granted ==  \* the semaphore hands a slot over; the loop resumes later
  /\ lpc = "acquire" /\ free > 0
  /\ free' = free - 1
  /\ lpc' = "granted"
  /\ UNCHANGED <<store, task, inFlight, epoch, ingestion, control>>

(* The cap and the gate are checked again with the slot in hand; only then *)
(* is a task created, which owns the slot.                                 *)
StopAtCap ==
  /\ lpc = "granted" /\ ReachedCap
  /\ free' = free + 1 /\ lpc' = "ending"
  /\ UNCHANGED <<store, task, inFlight, epoch, ingestion, control>>

BackToGateKeepingSlot ==  \* mutant: continue without the release
  /\ lpc = "granted" /\ ~ReachedCap /\ ~gate
  /\ lpc' = "gate"
  /\ UNCHANGED <<store, task, slots, epoch, ingestion, control>>

BackToGate ==
  /\ lpc = "granted" /\ ~ReachedCap /\ ~gate
  /\ free' = free + 1 /\ lpc' = "gate"
  /\ UNCHANGED <<store, task, inFlight, epoch, ingestion, control>>

Spawn(m) ==
  /\ lpc = "granted" /\ ~ReachedCap /\ gate
  /\ task[m] = "free"
  /\ task' = [task EXCEPT ![m] = "mutating"]
  /\ lpc' = "gate"
  /\ UNCHANGED <<store, slots, epoch, ingestion, control>>

Persist(m) ==  \* storage.add
  /\ task[m] = "mutating" /\ lpc # "ending"
  /\ blob' = [blob EXCEPT ![m] = "QUEUED"]
  /\ task' = [task EXCEPT ![m] = "persisted"]
  /\ UNCHANGED <<archive, judged, lpc, slots, epoch, ingestion, control>>

NoMutant(m) ==  \* no elites, or the mutation failed
  /\ task[m] = "mutating" /\ lpc # "ending"
  /\ task' = [task EXCEPT ![m] = "free"]
  /\ free' = free + 1
  /\ UNCHANGED <<store, lpc, inFlight, epoch, ingestion, control>>

TrackUnlessLineageFails(m) ==  \* mutant: a failed lineage update returns None
  /\ task[m] = "persisted" /\ lpc # "ending"
  /\ \/ /\ task' = [task EXCEPT ![m] = "tracked"]
        /\ inFlight' = inFlight \cup {m} /\ UNCHANGED free
     \/ /\ task' = [task EXCEPT ![m] = "lost"]
        /\ free' = free + 1 /\ UNCHANGED inFlight
  /\ UNCHANGED <<store, lpc, epoch, ingestion, control>>

Track(m) ==  \* the lineage is updated and the id handed to _in_flight
  /\ task[m] = "persisted" /\ lpc # "ending"
  /\ task' = [task EXCEPT ![m] = "tracked"]
  /\ inFlight' = inFlight \cup {m}
  /\ UNCHANGED <<store, lpc, free, epoch, ingestion, control>>

(* The loop's finally block cancels the active tasks.  gather re-raises    *)
(* the CancelledError whatever its children return, so the id of a mutant  *)
(* that is already stored is dropped with the slot.                        *)
CancelTask(m) ==
  /\ lpc = "ending"
  /\ \/ /\ task[m] = "mutating"
        /\ task' = [task EXCEPT ![m] = "free"] /\ UNCHANGED blob
     \/ /\ task[m] = "mutating"                \* add had reached the server
        /\ blob' = [blob EXCEPT ![m] = "QUEUED"]
        /\ task' = [task EXCEPT ![m] = "lost"]
     \/ /\ task[m] = "persisted"
        /\ task' = [task EXCEPT ![m] = "lost"] /\ UNCHANGED blob
  /\ free' = free + 1
  /\ UNCHANGED <<archive, judged, lpc, inFlight, epoch, ingestion, control>>

LoopEnded ==
  /\ lpc = "ending" /\ Owning = {}
  /\ lpc' = "ended"
  /\ UNCHANGED <<store, task, slots, epoch, ingestion, control>>

MutationLoop ==
  \/ GatePassed \/ Granted \/ StopAtCap \/ BackToGate \/ LoopEnded
  \/ \E m \in Mutants : Spawn(m)

MutationTask(m) == Persist(m) \/ NoMutant(m) \/ Track(m) \/ CancelTask(m)

-----------------------------------------------------------------------------
(* _poll_and_ingest and _ingest_batch.                                     *)

InState(ps, s) == {p \in ps : blob[p] = s}

PollOf(snapshot, leaked) ==
  /\ ipc \in {"poll", "side"}
  /\ done' = InState(snapshot, "DONE") /\ gone' = leaked
  /\ caller' = IF ipc = "side" THEN "side" ELSE "loop"
  /\ ipc' = IF done' = {} THEN "release" ELSE "ingest"
  /\ handled' = {}
  /\ UNCHANGED <<store, mutate, slots, epoch, drainSet, remaining, active,
                 todo, rejects, control>>

(* The MGET of the in-flight programs; the drain set is excluded from the  *)
(* polls made during a drain.                                              *)
candidates == IF ipc = "side" THEN inFlight \ drainSet ELSE inFlight

PollWithoutExclusion == PollOf(inFlight, InState(inFlight, "DISCARDED"))  \* mutant
PollWithoutSweep     == PollOf(candidates, {})                            \* mutant

Poll == PollOf(candidates, InState(candidates, "DISCARDED"))

(* _ingest_batch reads the programs again and keeps those still DONE.      *)
IngestRead ==
  /\ ipc = "ingest"
  /\ todo' = InState(done, "DONE") /\ handled' = todo' /\ rejects' = {}
  /\ ipc' = IF todo' = {} THEN "release" ELSE "judge"
  /\ UNCHANGED <<store, mutate, slots, epoch, caller, drainSet, remaining,
                 active, done, gone, control>>

(* strategy.add: the program takes a free cell or another one's.           *)
ArchivesWith(m) ==
  {a \in {(archive \ {p}) \cup {m} : p \in Programs} : Cardinality(a) <= Cells}

(* A program is accepted into the archive, where it may replace another;   *)
(* one that is its cell's elite already never beats itself.                *)
Accept(m) ==
  /\ ipc = "judge" /\ m \in todo /\ m \notin archive
  /\ archive' \in ArchivesWith(m)
  /\ todo' = todo \ {m} /\ judged' = judged \cup {m}
  /\ UNCHANGED <<blob, mutate, slots, epoch, ipc, caller, drainSet, remaining,
                 active, done, gone, rejects, handled, control>>

Reject(m) ==  \* by the acceptor or by the strategy
  /\ ipc = "judge" /\ m \in todo
  /\ rejects' = rejects \cup {m}
  /\ todo' = todo \ {m} /\ judged' = judged \cup {m}
  /\ UNCHANGED <<blob, archive, mutate, slots, epoch, ipc, caller, drainSet,
                 remaining, active, done, gone, handled, control>>

(* strategy.add raises, before or after the archive holds the program.     *)
AddRaises(m) ==
  /\ ipc = "judge" /\ m \in todo
  /\ errors < MaxErrors /\ errors' = errors + 1
  /\ archive' \in {archive} \cup ArchivesWith(m)
  /\ rejects' = rejects \cup {m}
  /\ todo' = todo \ {m} /\ judged' = judged \cup {m}
  /\ UNCHANGED <<blob, mutate, slots, epoch, ipc, caller, drainSet, remaining,
                 active, done, gone, handled, expired, rpc>>

(* The rejected leave DONE in one batch; a failure of it is logged.        *)
RejectBatch ==
  /\ ipc = "judge" /\ todo = {}
  /\ \/ /\ blob' = [p \in Programs |->
                      IF p \in InState(rejects, "DONE") THEN "DISCARDED" ELSE blob[p]]
        /\ UNCHANGED errors
     \/ /\ rejects # {} /\ errors < MaxErrors /\ errors' = errors + 1
        /\ UNCHANGED blob
  /\ ipc' = "release" /\ rejects' = {}
  /\ UNCHANGED <<archive, judged, mutate, slots, epoch, caller, drainSet,
                 remaining, active, done, gone, todo, handled, expired, rpc>>

FreeSlots(ms) ==  \* release one slot for each that is still in flight
  /\ inFlight' = inFlight \ ms
  /\ free' = free + Cardinality(ms \cap inFlight)

(* _processed_since_epoch.  Only its comparison with the trigger matters,  *)
(* now or once preDrain is subtracted, so it is capped where both are true.*)
Count(n) ==
  LET total == processed + n
      cap   == preDrain + EpochSize
  IN processed' = IF total > cap THEN cap ELSE total

-----------------------------------------------------------------------------
(* The epoch: trigger, scoped drain, refresh.                              *)

CloseGate ==  \* after the drain, without an await in between
  /\ gate' = FALSE
  /\ ipc' = "hook"

StartEpoch ==
  /\ draining' = TRUE
  /\ preDrain' = processed'
  /\ drainSet' = inFlight' /\ remaining' = inFlight'

Drain == ipc' = "drain" /\ UNCHANGED gate

(* With more than three slots the trigger waits for a valley in the number *)
(* in flight, or for the fallback timer, which may have run out.           *)
valley == MaxInFlight <= 3 \/ Cardinality(inFlight) <= MaxInFlight \div 4

Trigger ==  \* _should_trigger_epoch
  /\ ~draining /\ processed' >= EpochSize
  /\ StartEpoch
  /\ \/ inFlight' = {} /\ CloseGate
     \/ inFlight' # {} /\ Drain

KeepPolling ==  \* no trigger: stop at the cap or sleep
  /\ draining \/ processed' < EpochSize \/ ~valley'
  /\ ipc' = IF ReachedCap THEN "ended" ELSE "poll"
  /\ UNCHANGED <<gate, draining, preDrain, drainSet, remaining>>

BackToDrain == Drain /\ UNCHANGED <<draining, preDrain, drainSet, remaining>>

(* The end of _poll_and_ingest, and what its caller does until it awaits.  *)
Release ==
  /\ ipc = "release" /\ caller \in {"loop", "side"}
  /\ FreeSlots(handled \cup gone)
  /\ Count(Cardinality(handled))
  /\ IF caller = "side" THEN BackToDrain ELSE Trigger \/ KeepPolling
  /\ done' = {} /\ gone' = {} /\ handled' = {}
  /\ UNCHANGED <<store, mutate, refreshed, epochs, caller, active, todo, rejects,
                 control>>

DrainReadOf(stillActive) ==  \* the state of what remains of the drain set
  /\ ipc = "drain" /\ remaining # {}
  /\ done' = InState(remaining, "DONE")
  /\ gone' = InState(remaining, "DISCARDED")
  /\ active' = stillActive
  /\ caller' = "drain" /\ handled' = {}
  /\ ipc' = IF done' = {} THEN "release" ELSE "ingest"
  /\ UNCHANGED <<store, mutate, slots, epoch, drainSet, remaining, todo,
                 rejects, control>>

DrainReadOnce == DrainReadOf(FALSE)  \* mutant: one pass over the drain set

DrainRead == DrainReadOf(InState(remaining, "QUEUED") # {})

(* Resolved programs free their slots.  While some are active the other    *)
(* programs are polled too; otherwise those still listed as DONE are tried *)
(* once more, and whatever then remains is released by force.              *)
DrainRelease ==
  /\ ipc = "release" /\ caller = "drain"
  /\ LET left  == remaining \ (handled \cup gone)
         retry == left \cap done
     IN \/ /\ active
           /\ FreeSlots(handled \cup gone)
           /\ remaining' = left
           /\ ipc' = "side" /\ done' = {} /\ UNCHANGED <<caller, gate>>
        \/ /\ ~active /\ retry # {}
           /\ FreeSlots(handled \cup gone)
           /\ remaining' = left
           /\ ipc' = "ingest" /\ done' = retry /\ caller' = "retry"
           /\ UNCHANGED gate
        \/ /\ ~active /\ retry = {}
           /\ FreeSlots(remaining)
           /\ remaining' = {}
           /\ CloseGate /\ done' = {} /\ UNCHANGED caller
  /\ gone' = {} /\ handled' = {}
  /\ UNCHANGED <<store, mutate, draining, processed, preDrain, refreshed, epochs,
                 drainSet, active, todo, rejects, control>>

RetryRelease ==
  /\ ipc = "release" /\ caller = "retry"
  /\ FreeSlots(remaining)
  /\ remaining' = {} /\ done' = {} /\ handled' = {}
  /\ CloseGate
  /\ UNCHANGED <<store, mutate, draining, processed, preDrain, refreshed, epochs,
                 caller, drainSet, active, gone, todo, rejects, control>>

(* The processed count is saved and the pre-step hook awaited, for as long *)
(* as it likes.                                                            *)
HookReturns ==
  /\ ipc = "hook"
  /\ ipc' = "refresh"
  /\ UNCHANGED <<store, mutate, slots, epoch, caller, drainSet, remaining, active,
                 done, gone, todo, rejects, handled, control>>

(* The archive's DONE programs go back to QUEUED (a failure is logged);    *)
(* what was processed during the drain counts for the next epoch.          *)
Refresh ==
  /\ ipc = "refresh"
  /\ \/ /\ refreshed' = (InState(archive, "DONE") # {})
        /\ blob' = [p \in Programs |->
                      IF p \in InState(archive, "DONE") THEN "QUEUED" ELSE blob[p]]
        /\ UNCHANGED errors
     \/ /\ errors < MaxErrors /\ errors' = errors + 1
        /\ refreshed' = FALSE /\ UNCHANGED blob
  /\ draining' = FALSE
  /\ processed' = IF processed > preDrain THEN processed - preDrain ELSE 0
  /\ preDrain' = 0
  /\ ipc' = "elites"
  /\ UNCHANGED <<archive, judged, mutate, slots, gate, epochs, caller, drainSet,
                 remaining, active, done, gone, todo, rejects, handled, expired, rpc>>

OpenGate ==  \* the elites are selected: mutations resume
  /\ ipc = "elites"
  /\ gate' = TRUE
  /\ ipc' = IF refreshed THEN "idle" ELSE "post"
  /\ UNCHANGED <<store, mutate, slots, draining, processed, preDrain, refreshed,
                 epochs, caller, drainSet, remaining, active, done, gone, todo,
                 rejects, handled, control>>

AwaitIdle ==  \* nothing is QUEUED or RUNNING, mutants included
  /\ ipc = "idle" /\ InState(Programs, "QUEUED") = {}
  /\ ipc' = "reindex"
  /\ UNCHANGED <<store, mutate, slots, epoch, caller, drainSet, remaining, active,
                 done, gone, todo, rejects, handled, control>>

Reindex ==  \* programs that now share a cell lose to the best of them
  /\ ipc = "reindex"
  /\ \E kept \in {archive} \cup {archive \ {p} : p \in archive} :
       /\ kept = {} => archive = {}
       /\ archive' = kept
  /\ ipc' = "post"
  /\ UNCHANGED <<blob, judged, mutate, slots, epoch, caller, drainSet, remaining,
                 active, done, gone, todo, rejects, handled, control>>

BumpEpoch ==  \* the post-step hook has returned (its failure is logged)
  /\ ipc = "post"
  /\ epochs' = epochs + 1
  /\ ipc' = "saved"
  /\ UNCHANGED <<store, mutate, slots, gate, draining, processed, preDrain,
                 refreshed, caller, drainSet, remaining, active, done, gone, todo,
                 rejects, handled, control>>

EndEpoch ==  \* back to the ingestion loop, or to the end of run()
  /\ ipc = "saved"
  /\ drainSet' = {} /\ refreshed' = FALSE /\ active' = FALSE
  /\ ipc' = IF ReachedCap \/ rpc = "final" THEN "ended" ELSE "poll"
  /\ rpc' = IF rpc = "final" THEN "stopped" ELSE rpc
  /\ UNCHANGED <<store, mutate, slots, gate, draining, processed, preDrain, epochs,
                 caller, remaining, done, gone, todo, rejects, handled, expired, errors>>

Epoch ==
  \/ DrainRead \/ DrainRelease \/ RetryRelease \/ HookReturns
  \/ Refresh \/ OpenGate \/ AwaitIdle \/ Reindex \/ BumpEpoch \/ EndEpoch

Ingestion ==
  \/ Poll \/ IngestRead \/ RejectBatch \/ Release \/ Epoch
  \/ \E m \in todo : Accept(m) \/ Reject(m) \/ AddRaises(m)

(* An exception or a cancellation leaves the ingesting coroutine: the      *)
(* finally block of _epoch_refresh reopens the gate, and the count of an   *)
(* epoch whose gate was closed is lost.                                    *)
LeaveThen(open) ==
  /\ ipc' = "ended"
  /\ draining' = FALSE /\ gate' = open
  /\ processed' = IF gate THEN processed ELSE 0
  /\ preDrain' = 0 /\ refreshed' = FALSE
  /\ drainSet' = {} /\ remaining' = {} /\ active' = FALSE
  /\ done' = {} /\ gone' = {} /\ todo' = {} /\ rejects' = {} /\ handled' = {}
  /\ UNCHANGED <<epochs, caller>>

LeaveGateAsIs == LeaveThen(gate)  \* mutant: no finally block

Leave == LeaveThen(TRUE)

-----------------------------------------------------------------------------
(* run().                                                                  *)

(* One loop has ended: the other is cancelled.  A semaphore that is        *)
(* granted to a cancelled acquire goes back.                               *)
CancelMutationReturning(slot) ==
  /\ rpc = "loops" /\ ipc = "ended" /\ lpc \notin {"ending", "ended"}
  /\ free' = free + slot
  /\ lpc' = "ending" /\ rpc' = "joining"
  /\ UNCHANGED <<store, task, inFlight, epoch, ingestion, expired, errors>>

CancelMutation == CancelMutationReturning(held)

CancelIngestion ==
  /\ rpc = "loops" /\ lpc = "ended" /\ ipc # "ended"
  /\ rpc' = "joining"
  /\ Leave
  /\ UNCHANGED <<store, mutate, slots, expired, errors>>

(* Both have ended: a final epoch collects what is in flight.              *)
JoinIf(stragglers) ==
  /\ rpc \in {"loops", "joining"} /\ lpc = "ended" /\ ipc = "ended"
  /\ UNCHANGED <<store, mutate, slots, processed, refreshed, epochs, caller,
                 active, done, gone, todo, rejects, handled, expired, errors>>
  /\ \/ /\ ~stragglers
        /\ rpc' = "stopped"
        /\ UNCHANGED <<gate, draining, preDrain, drainSet, remaining, ipc>>
     \/ /\ stragglers
        /\ rpc' = "final" /\ StartEpoch /\ Drain

JoinAtCap == JoinIf(inFlight # {} /\ ~ReachedCap)  \* mutant: none at the cap

Join == JoinIf(inFlight # {})

Run == CancelMutation \/ CancelIngestion \/ Join

-----------------------------------------------------------------------------
(* Failures and the environment.                                           *)

(* A storage call of the ingesting coroutine raises where nothing catches  *)
(* it: the loop ends, or run() does.                                       *)
CallRaises ==
  /\ errors < MaxErrors /\ errors' = errors + 1
  /\ ipc \in {"poll", "ingest", "hook", "elites", "idle", "reindex", "saved"}
              \cup DrainPoints
  /\ Leave
  /\ rpc' = IF rpc = "final" THEN "stopped" ELSE rpc
  /\ UNCHANGED <<store, mutate, slots, expired>>

BudgetExpires ==
  /\ Budget /\ ~expired /\ rpc = "loops"
  /\ expired' = TRUE
  /\ UNCHANGED <<store, mutate, slots, epoch, ingestion, rpc, errors>>

Evaluate(p, outcome) ==  \* the DAG runner
  /\ blob[p] = "QUEUED"
  /\ blob' = [blob EXCEPT ![p] = outcome]
  /\ UNCHANGED <<archive, judged, mutate, slots, epoch, ingestion, control>>

(* The runner's orphan scan writes DISCARDED over a DONE it did not expect.*)
LateDiscard(m) ==
  /\ blob[m] = "DONE"
  /\ errors < MaxErrors /\ errors' = errors + 1
  /\ blob' = [blob EXCEPT ![m] = "DISCARDED"]
  /\ UNCHANGED <<archive, judged, mutate, slots, epoch, ingestion, expired, rpc>>

(* An identifier that nothing refers to any more stands for a fresh one.   *)
Renew(m) ==
  /\ task[m] = "tracked" /\ m \notin inFlight \cup archive
  /\ m \notin done \cup gone \cup todo \cup rejects \cup handled
              \cup remaining \cup drainSet
  /\ blob[m] # "QUEUED"
  /\ blob' = [blob EXCEPT ![m] = "absent"]
  /\ task' = [task EXCEPT ![m] = "free"]
  /\ judged' = judged \ {m}
  /\ UNCHANGED <<archive, lpc, slots, epoch, ingestion, control>>

Next ==
  \/ Ingestion \/ MutationLoop \/ Run \/ CallRaises \/ BudgetExpires
  \/ \E m \in Mutants : MutationTask(m) \/ LateDiscard(m) \/ Renew(m)
  \/ \E p \in Programs, o \in {"DONE", "DISCARDED"} : Evaluate(p, o)

Spec == Init /\ [][Next]_vars

(* The coroutines are scheduled, the storage answers and the DAG runner    *)
(* finishes every program (DagRunner's Settles).  Nothing is assumed of    *)
(* the outcome of a mutation or of an evaluation.                          *)
Fairness ==
  /\ WF_vars(Ingestion) /\ WF_vars(MutationLoop) /\ WF_vars(Run)
  /\ \A m \in Mutants : WF_vars(MutationTask(m)) /\ WF_vars(Renew(m))
  /\ \A p \in Programs : WF_vars(\E o \in {"DONE", "DISCARDED"} : Evaluate(p, o))

FairSpec == Spec /\ Fairness

(* A workload in which mutations and evaluations succeed now and then.     *)
Productive ==
  /\ \A m \in Mutants : SF_vars(Persist(m))
  /\ \A p \in Programs : SF_vars(Evaluate(p, "DONE"))

ProductiveSpec == FairSpec /\ Productive

-----------------------------------------------------------------------------
(* Properties.                                                             *)

(* Every permit of the semaphore is free, carried by one mutation task, or *)
(* held for one program in flight: none leaks and none is released twice,  *)
(* whatever is cancelled or raises (_produce_one_mutant's invariant).      *)
SlotsConserved ==
  free + held + Cardinality(Owning) + Cardinality(inFlight) = MaxInFlight

(* Until the mutation loop shuts down, a mutant that is stored and not yet *)
(* ruled on is in flight or about to be: a drain never lets go of one that *)
(* is still being evaluated, and no failure makes the engine forget one.   *)
Awaited(m) == blob[m] \in {"QUEUED", "DONE"} /\ m \notin judged

Tracked ==
  lpc \notin {"ending", "ended"} =>
    \A m \in Mutants : Awaited(m) => m \in inFlight \cup Owning

(* The comment of generate_and_persist_mutation: a stored mutant is always *)
(* handed to the engine, cancellation included, "otherwise the program     *)
(* becomes an orphan ghost".                                               *)
NoOrphanGhost ==
  \A m \in Mutants : Awaited(m) => m \in inFlight \cup Owning

(* While the loops run to their own end, no program is offered to the      *)
(* acceptor and the strategy twice: the polls made during a drain leave    *)
(* its programs to it.  (A budget that cuts the ingestion loop short is    *)
(* the subject of ArchivedNotRejected.)                                    *)
NeverJudgedTwice == ~expired => todo \cap judged = {}

(* The comment of _notify_hook: nothing may cause "a program that was      *)
(* already accepted by the strategy to be discarded (which would create a  *)
(* ghost entry in the archive)".                                           *)
ArchivedNotRejected ==
  [][ipc = "judge" /\ ipc' = "release" =>
       \A p \in archive : blob'[p] = "DISCARDED" => blob[p] = "DISCARDED"]_vars

(* When an epoch closes the gate every mutant that was in flight when it   *)
(* was triggered has been ruled on or was discarded, and holds no slot,    *)
(* though mutants made meanwhile may be in flight.                         *)
ScopedDrain ==
  [][gate /\ ~gate' =>
       \A m \in drainSet' : m \notin inFlight' /\ ~Awaited(m)]_vars

(* run() returns only after the mutants in flight have been collected and  *)
(* every permit is back, when no storage call raised.                      *)
StoppedDrained ==
  rpc = "stopped" /\ errors = 0 => inFlight = {} /\ free = MaxInFlight

(* Liveness: a closed gate is reopened, through failures of the epoch too. *)
GateReopens == ~gate ~> gate

(* Liveness: a mutant in flight gets its verdict, or loses its slot, while *)
(* epochs drain, refresh and wait for idleness around it.                  *)
Resolved ==
  \A m \in Mutants : m \in inFlight ~> (m \notin inFlight \/ rpc = "stopped")

(* Liveness: a productive run reaches its cap of epochs and returns; the   *)
(* loops, the gate, the semaphore and the drain never wait on each other   *)
(* for ever.                                                               *)
Stops == <>(rpc = "stopped")

(* The comment of SteadyStateEngineConfig: an epoch is triggered after so  *)
(* many programs "have been processed (ingested or discarded)", and        *)
(* _poll_and_ingest counts the swept ones among the processed.             *)
sweeping == ipc = "release" /\ gone # {}
EpochDue == []<>sweeping => <>(epochs > 0 \/ rpc = "stopped")
=============================================================================
