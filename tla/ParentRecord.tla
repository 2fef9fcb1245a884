---------------------------- MODULE ParentRecord ----------------------------
(***************************************************************************)
(* One archived program and the three clients that write its record while  *)
(* the steady-state engine mutates and refreshes:                          *)
(*   - mutation tasks, which add a child to its lineage by a read, a local *)
(*     change and RedisProgramStorage.update (a WATCH/MULTI merge);        *)
(*   - the engine's refresh, batch_transition_by_ids, which patches the    *)
(*     blob it read without a WATCH;                                       *)
(*   - the scheduler, which loads a copy, marks the program RUNNING and    *)
(*     lets the DAG write that copy back with write_exclusive.             *)
(* The per-program asyncio.Lock is no part of it: each client has its own  *)
(* ProgramStateManager, or calls the storage directly.                     *)
(***************************************************************************)
EXTENDS ProgramStates, FiniteSets, Naturals

CONSTANTS
  Children,      \* mutants that have this program as a parent
  MaxRefreshes   \* bound: epochs that refresh the archive

ASSUME ParentAssumption == MaxRefreshes \in Nat

VARIABLES
  rec,        \* the stored blob
  statusSets, \* the status sets that hold the id
  mutator,    \* mutator[c]: the task that made child c
  copy,       \* copy[c]: what that task read
  patch,      \* the blob batch_transition_by_ids has read
  refresher,  \* the engine
  dag,        \* the scheduler and its task
  memory,     \* the program object the DAG works on
  mark,       \* the blob its QUEUED -> RUNNING transition has read
  refreshes,  \* refreshes started
  safe        \* history: children recorded while nobody else held a copy

tasks == <<mutator, copy>>
runner == <<dag, memory, mark>>
engine == <<patch, refresher, refreshes>>
vars == <<rec, statusSets, tasks, runner, engine, safe>>

Record == [state : States, children : SUBSET Children]

(* Types; the id is always in some status set, so a scan can find it.      *)
ParentTypeOK ==
  /\ rec \in Record /\ statusSets \subseteq States /\ statusSets # {}
  /\ mutator \in [Children -> {"start", "read", "end"}]
  /\ copy \in [Children -> Record]
  /\ patch \in Record /\ memory \in Record /\ mark \in Record
  /\ refresher \in {"idle", "patching", "skipped"}
  /\ dag \in {"idle", "loaded", "marking", "running"}
  /\ refreshes \in 0..MaxRefreshes
  /\ safe \subseteq Children

Init ==  \* the program is evaluated and archived
  LET fresh == [state |-> "DONE", children |-> {}] IN
    /\ rec = fresh /\ patch = fresh /\ memory = fresh /\ mark = fresh
    /\ copy = [c \in Children |-> fresh]
    /\ statusSets = {"DONE"}
    /\ mutator = [c \in Children |-> "start"]
    /\ refresher = "idle" /\ dag = "idle"
    /\ refreshes = 0 /\ safe = {}

Move(old, new) == statusSets' = (statusSets \ {old}) \cup {new}

-----------------------------------------------------------------------------
(* The mutation tasks.                                                     *)

ReadParent(c) ==
  /\ mutator[c] = "start"
  /\ copy' = [copy EXCEPT ![c] = rec]
  /\ mutator' = [mutator EXCEPT ![c] = "read"]
  /\ UNCHANGED <<rec, statusSets, runner, engine, safe>>

(* Until EXEC succeeds the transaction is retried on a fresh read, so the  *)
(* merge is atomic.  It does not touch the status sets.                    *)
UpdateWith(c, merged) ==
  /\ mutator[c] = "read"
  /\ rec' = merged
  /\ mutator' = [mutator EXCEPT ![c] = "end"]
  /\ safe' = IF refresher # "patching" /\ dag = "idle" THEN safe \cup {c} ELSE safe
  /\ UNCHANGED <<statusSets, copy, runner, engine>>

Recorded(c) == [copy[c] EXCEPT !.children = @ \cup {c}]

UpdateBlind(c) == UpdateWith(c, Recorded(c))  \* mutant: SET without the merge

UpdateParent(c) ==
  UpdateWith(c, [state    |-> MergeStates(rec.state, Recorded(c).state),
                 children |-> rec.children \cup Recorded(c).children])

-----------------------------------------------------------------------------
(* The engine's refresh, once an earlier one has become idle.              *)

RefreshRead ==
  /\ refresher = "idle" /\ refreshes < MaxRefreshes
  /\ statusSets \cap {"QUEUED", "RUNNING"} = {} /\ rec.state # "DISCARDED"
  /\ refreshes' = refreshes + 1
  /\ patch' = rec
  /\ refresher' = IF rec.state = "DONE" THEN "patching" ELSE "skipped"
  /\ UNCHANGED <<rec, statusSets, tasks, runner, safe>>

RefreshWrite ==
  /\ refresher = "patching"
  /\ rec' = [patch EXCEPT !.state = "QUEUED"]
  /\ Move("DONE", "QUEUED")
  /\ refresher' = "idle"
  /\ UNCHANGED <<tasks, runner, patch, refreshes, safe>>

RefreshSkipped ==  \* the blob was not DONE: nothing to re-run
  /\ refresher = "skipped"
  /\ refresher' = "idle"
  /\ UNCHANGED <<rec, statusSets, tasks, runner, patch, refreshes, safe>>

-----------------------------------------------------------------------------
(* The scheduler and the DAG.                                              *)

LaunchWith(program) ==
  /\ dag = "idle" /\ "QUEUED" \in statusSets
  /\ memory' = program
  /\ dag' = "loaded"
  /\ UNCHANGED <<mark, rec, statusSets, tasks, engine, safe>>

LaunchKeepingMemory == LaunchWith(memory)  \* mutant: the object of the last run

Launch == LaunchWith(rec)

(* batch_transition_by_ids QUEUED -> RUNNING reads; a blob that is not     *)
(* QUEUED is not patched, and is launched if the reconciling read finds it *)
(* RUNNING.                                                                *)
MarkRead ==
  /\ dag = "loaded"
  /\ \/ /\ rec.state = "QUEUED"
        /\ mark' = rec /\ dag' = "marking" /\ UNCHANGED memory
     \/ /\ rec.state = "RUNNING"
        /\ memory' = [memory EXCEPT !.state = "RUNNING"]
        /\ dag' = "running" /\ UNCHANGED mark
     \/ /\ rec.state \notin {"QUEUED", "RUNNING"}
        /\ dag' = "idle" /\ UNCHANGED <<memory, mark>>
  /\ UNCHANGED <<rec, statusSets, tasks, engine, safe>>

MarkWrite ==
  /\ dag = "marking"
  /\ rec' = [mark EXCEPT !.state = "RUNNING"]
  /\ Move("QUEUED", "RUNNING")
  /\ memory' = [memory EXCEPT !.state = "RUNNING"]
  /\ dag' = "running"
  /\ UNCHANGED <<mark, tasks, engine, safe>>

StageWrite ==  \* write_exclusive of the object in memory
  /\ dag = "running" /\ rec # memory
  /\ rec' = memory
  /\ UNCHANGED <<statusSets, tasks, runner, engine, safe>>

Finish(outcome) ==
  /\ dag = "running"
  /\ rec' = [memory EXCEPT !.state = outcome]
  /\ memory' = rec'
  /\ Move("RUNNING", outcome)
  /\ dag' = "idle"
  /\ UNCHANGED <<mark, tasks, engine, safe>>

-----------------------------------------------------------------------------
Next ==
  \/ \E c \in Children : ReadParent(c) \/ UpdateParent(c)
  \/ RefreshRead \/ RefreshWrite \/ RefreshSkipped
  \/ Launch \/ MarkRead \/ MarkWrite \/ StageWrite
  \/ \E outcome \in {"DONE", "DISCARDED"} : Finish(outcome)

Spec == Init /\ [][Next]_vars

-----------------------------------------------------------------------------
(* A parent that was discarded stays so: a lineage update that read it     *)
(* while it was queued or running does not bring it back (merge_states     *)
(* lets the terminal state win on either side).                            *)
DiscardedIsFinal ==
  [][rec.state = "DISCARDED" => rec'.state = "DISCARDED"]_vars

(* A child recorded while neither the refresh nor the scheduler held a     *)
(* copy of the parent is never lost, whatever is refreshed later.          *)
SafeChildrenKept == safe \subseteq rec.children

(* The docstring of write_exclusive: the DAG's ownership is exclusive, the *)
(* locks "prevent concurrent writes".  Then no child that a mutation task  *)
(* has recorded disappears from the lineage.                               *)
ChildrenKept ==
  \A c \in Children : mutator[c] = "end" => c \in rec.children

(* The docstring of _refresh_archive_programs: it flips "all archive       *)
(* programs from DONE to QUEUED".  No archived program is passed over      *)
(* because a lineage update left another state in its blob.                *)
RefreshReachesAll == refresher # "skipped"
=============================================================================
