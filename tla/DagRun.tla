------------------------------ MODULE DagRun -------------------------------
(***************************************************************************)
(* The execution of one program's DAG of stages (gigaevo/programs/dag,     *)
(* stages/base.py, stages/cache_handler.py), over several runs of the same *)
(* program: an evaluated program is queued again when its archive is       *)
(* refreshed, and one found RUNNING after a crash is run again from what   *)
(* had been stored.  The loop of DAG._run_internal awaits only the stage   *)
(* tasks, so each of its passes is a step; the tasks run while it waits.   *)
(*                                                                         *)
(* What a stage computes is a version number, and the hash of its inputs   *)
(* is the inputs themselves.                                               *)
(***************************************************************************)
EXTENDS Naturals, FiniteSets

CONSTANTS
  Stages,
  Dags,         \* the shapes a DAG may have
  Versions,     \* bound: what an execution may output
  MaxParallel,  \* max_parallel_stages
  MaxRuns       \* bound: runs of the program

Conditions == {"success", "failure", "always"}

(* The producers of a stage's mandatory and optional inputs, its           *)
(* execution-order dependencies, and the stages with an InputHashCache     *)
(* (the others are NeverCached).                                           *)
Shape == [required : [Stages -> SUBSET Stages],
          optional : [Stages -> SUBSET Stages],
          after    : [Stages -> SUBSET [stage : Stages, condition : Conditions]],
          hashed   : SUBSET Stages]

(* The stages a stage waits for, in whatever way.                          *)
Producers(d, s) == d.required[s] \cup d.optional[s] \cup {x.stage : x \in d.after[s]}

(* Every set of stages has one that waits for none of them: for finitely   *)
(* many stages, the DAG has no cycle (_validate_cycles refuses the others).*)
Acyclic(d) ==
  \A S \in SUBSET Stages : S # {} => \E s \in S : Producers(d, s) \cap S = {}

ASSUME DagAssumption ==
  /\ Dags \subseteq Shape /\ \A d \in Dags : Acyclic(d)
  /\ Versions \subseteq Nat \ {0}
  /\ MaxParallel \in Nat \ {0} /\ MaxRuns \in Nat

VARIABLES
  dag,       \* the topology, fixed by the blueprint
  results,   \* program.stage_results
  stored,    \* the same in the storage
  finished,  \* finished_this_run
  task,      \* the stage tasks; "none" iff s is not in running
  inputs,    \* the inputs a task was launched with
  answer,    \* what a task returned
  pc,        \* where the run is
  runs

vars == <<dag, results, stored, finished, task, inputs, answer, pc, runs>>

FinalStates == {"COMPLETED", "FAILED", "CANCELLED", "SKIPPED"}
Nothing == 0                       \* no output
Inputs == [Stages -> Versions \cup {Nothing}]
NoInputs == [p \in Stages |-> Nothing]

(* input_hash is a set of at most one Inputs: none is recorded when empty. *)
Result == [status : FinalStates \cup {"PENDING", "RUNNING"},
           output : Versions \cup {Nothing},
           hash   : SUBSET Inputs]

Pending == [status |-> "PENDING", output |-> Nothing, hash |-> {}]
Skipped == [status |-> "SKIPPED", output |-> Nothing, hash |-> {}]

Inside == {"skip", "launch", "wait"}

(* Types, and what the scheduling relies on: only RUNNING stages have a    *)
(* task, only final ones are finished.                                     *)
TypeOK ==
  /\ dag \in Dags
  /\ results \in [Stages -> Result] /\ stored \in [Stages -> Result]
  /\ finished \subseteq Stages
  /\ task \in [Stages -> {"none", "waiting", "executing", "over"}]
  /\ inputs \in [Stages -> Inputs]
  /\ answer \in [Stages -> Result]
  /\ pc \in Inside \cup {"idle", "returned", "failed", "persisted"}
  /\ runs \in 0..MaxRuns
  /\ \A s \in Stages : task[s] # "none" => results[s].status = "RUNNING"
  /\ \A s \in finished : results[s].status \in FinalStates

Init ==
  /\ dag \in Dags
  /\ results = [s \in Stages |-> Pending]
  /\ stored = results
  /\ finished = {}
  /\ task = [s \in Stages |-> "none"]
  /\ inputs = [s \in Stages |-> NoInputs]
  /\ answer = [s \in Stages |-> Pending]
  /\ pc = "idle" /\ runs = 0

-----------------------------------------------------------------------------
(* DAGAutomata: what may happen to a stage.                                *)

running == {s \in Stages : task[s] # "none"}

(* finalized_this_run: a result of an earlier run does not count.          *)
Final(s) == s \in finished /\ results[s].status \in FinalStates
Completed(s) == Final(s) /\ results[s].status = "COMPLETED"

DependencyHolds(d) ==
  CASE d.condition = "success" -> results[d.stage].status = "COMPLETED"
    [] d.condition = "failure" ->
         results[d.stage].status \in {"FAILED", "CANCELLED", "SKIPPED"}
    [] OTHER -> TRUE

DependencyGate(d) ==
  CASE ~Final(d.stage)                      -> "WAIT"
    [] Final(d.stage) /\ DependencyHolds(d) -> "READY"
    [] OTHER                                -> "IMPOSSIBLE"

DataflowGateNoOptional(s) ==  \* mutant: optional inputs are not waited for
  CASE \E p \in dag.required[s] : Final(p) /\ ~Completed(p) -> "IMPOSSIBLE"
    [] \A p \in dag.required[s] : Completed(p)              -> "READY"
    [] OTHER                                                -> "WAIT"

DataflowGate(s) ==
  CASE \E p \in dag.required[s] : Final(p) /\ ~Completed(p)     -> "IMPOSSIBLE"
    [] \A p \in dag.required[s] \cup dag.optional[s] : Final(p)
       /\ (p \in dag.required[s] => Completed(p))               -> "READY"
    [] OTHER                                                    -> "WAIT"

Gates(s) == {DependencyGate(d) : d \in dag.after[s]} \cup {DataflowGate(s)}

Diagnose(s) ==
  CASE "IMPOSSIBLE" \in Gates(s) -> "IMPOSSIBLE"
    [] Gates(s) = {"READY"}      -> "READY"
    [] OTHER                     -> "WAIT"

CandidatesAll == Stages \ running  \* mutant: done stages are not left out

(* launched_this_run adds nothing to running and finished: a stage enters  *)
(* finished in the same step in which it leaves running.                   *)
Candidates == Stages \ (running \cup finished)

(* Inputs come from COMPLETED producers only.                              *)
NamedInputs(s) ==
  [p \in Stages |->
     IF /\ p \in dag.required[s] \cup dag.optional[s]
        /\ results[p].status = "COMPLETED"
       THEN results[p].output ELSE Nothing]

RuledOutPending ==  \* mutant: a result of an earlier run is not overwritten
  {s \in Candidates : Diagnose(s) = "IMPOSSIBLE" /\ results[s].status = "PENDING"}

(* get_stages_to_skip.                                                     *)
RuledOut == {s \in Candidates : Diagnose(s) = "IMPOSSIBLE"}

CachedAlways(s) ==  \* mutant: inputs are not compared
  s \in dag.hashed /\ results[s].status \in FinalStates

(* A final result with the hash of these inputs is not computed again.     *)
Cached(s) ==
  /\ s \in dag.hashed
  /\ results[s].status \in FinalStates
  /\ NamedInputs(s) \in results[s].hash

-----------------------------------------------------------------------------
(* DAG.run.                                                                *)

(* A program is loaded with the results of its earlier runs.               *)
Begin ==
  /\ pc \in {"idle", "persisted"} /\ runs < MaxRuns
  /\ runs' = runs + 1
  /\ pc' = "skip"
  /\ UNCHANGED <<dag, results, stored, finished, task, inputs, answer>>

(* The DAG object and the loaded program are dropped.                      *)
Drop ==
  /\ results' = stored'
  /\ finished' = {}
  /\ task' = [s \in Stages |-> "none"]
  /\ inputs' = [s \in Stages |-> NoInputs]
  /\ answer' = [s \in Stages |-> Pending]
  /\ UNCHANGED <<dag, runs>>

(* First the stages that can no longer run: their result, even one of an   *)
(* earlier run, is overwritten.                                            *)
Skip ==
  /\ pc = "skip"
  /\ results' = [s \in Stages |-> IF s \in RuledOut THEN Skipped ELSE results[s]]
  /\ finished' = finished \cup RuledOut
  /\ pc' = "launch"
  /\ UNCHANGED <<dag, stored, task, inputs, answer, runs>>

NextPassSkipBlind(new, reused) ==  \* mutant: auto-skips are no progress
  IF running \cup new # {} THEN "wait" ELSE IF reused # {} THEN "skip" ELSE "returned"

(* Without tasks the loop goes on as long as a pass changes something.     *)
NextPass(new, reused) ==
  IF running \cup new # {} THEN "wait"
  ELSE IF reused \cup RuledOut # {} THEN "skip" ELSE "returned"

(* Then the stages that are ready: a good enough result is kept, a task is *)
(* made for each of the others (mark_stage_running keeps the old hash).    *)
Launch ==
  /\ pc = "launch"
  /\ LET ready  == {s \in Candidates : Diagnose(s) = "READY"}
         reused == {s \in ready : Cached(s)}
         new    == ready \ reused
     IN /\ finished' = finished \cup reused
        /\ results' = [s \in Stages |->
             IF s \in new THEN [Pending EXCEPT !.status = "RUNNING",
                                               !.hash = results[s].hash]
                          ELSE results[s]]
        /\ task' = [s \in Stages |-> IF s \in new THEN "waiting" ELSE task[s]]
        /\ inputs' = [s \in Stages |-> IF s \in new THEN NamedInputs(s) ELSE inputs[s]]
        /\ pc' = NextPass(new, reused)
  /\ UNCHANGED <<dag, stored, answer, runs>>

(* Waiting: tasks pass the semaphore, run and end.  execute() stores the   *)
(* hash of whatever computing returned, a failure or a skip of its own     *)
(* included; a cancellation inside it escapes with no result.              *)
Start(s) ==
  /\ pc = "wait" /\ task[s] = "waiting"
  /\ Cardinality({x \in Stages : task[x] = "executing"}) < MaxParallel
  /\ task' = [task EXCEPT ![s] = "executing"]
  /\ UNCHANGED <<dag, results, stored, finished, inputs, answer, pc, runs>>

Hash(s) == IF s \in dag.hashed THEN {inputs[s]} ELSE {}

Finish(s) ==
  /\ pc = "wait" /\ task[s] = "executing"
  /\ task' = [task EXCEPT ![s] = "over"]
  /\ \/ \E v \in Versions :
          answer' = [answer EXCEPT ![s] =
            [status |-> "COMPLETED", output |-> v, hash |-> Hash(s)]]
     \/ \E st \in {"FAILED", "SKIPPED"} :
          answer' = [answer EXCEPT ![s] = [Pending EXCEPT !.status = st, !.hash = Hash(s)]]
     \/ answer' = [answer EXCEPT ![s] = [Pending EXCEPT !.status = "CANCELLED"]]
  /\ UNCHANGED <<dag, results, stored, finished, inputs, pc, runs>>

Ended == {s \in Stages : task[s] = "over"}

(* asyncio.wait returns: the results of all tasks that have ended.         *)
Collect ==
  /\ pc = "wait" /\ Ended # {}
  /\ results' = [s \in Stages |-> IF s \in Ended THEN answer[s] ELSE results[s]]
  /\ finished' = finished \cup Ended
  /\ task' = [s \in Stages |-> IF s \in Ended THEN "none" ELSE task[s]]
  /\ inputs' = [s \in Stages |-> IF s \in Ended THEN NoInputs ELSE inputs[s]]
  /\ answer' = [s \in Stages |-> IF s \in Ended THEN Pending ELSE answer[s]]
  /\ pc' = "skip"
  /\ UNCHANGED <<dag, stored, runs>>

(* dag_timeout: the partial results are flushed, or that fails too.  The   *)
(* stage tasks are not cancelled, but nobody reads what they return.       *)
Timeout ==
  /\ pc = "wait"
  /\ stored' \in {results, stored}
  /\ pc' = "failed"
  /\ Drop

Persist ==  \* the scheduler stores DONE, with all results
  /\ pc = "returned"
  /\ stored' = results
  /\ pc' = "persisted"
  /\ Drop

(* The process dies before DONE or DISCARDED is stored; the program is     *)
(* recovered and queued again.                                             *)
Crash ==
  /\ pc \in {"wait", "returned", "failed"}
  /\ stored' = stored
  /\ pc' = "idle"
  /\ Drop

Step ==
  \/ Skip \/ Launch \/ Collect
  \/ \E s \in Stages : Start(s) \/ Finish(s)

Next ==
  \/ Begin \/ Step \/ Timeout \/ Persist \/ Crash

Spec == Init /\ [][Next]_vars

(* The loop goes on, and every stage ends within its own timeout.          *)
FairSpec == Spec /\ WF_vars(Step)

-----------------------------------------------------------------------------
(* The inductive invariant.                                                *)

MayRun(s) ==
  /\ \A p \in dag.required[s] : Completed(p)
  /\ \A p \in dag.optional[s] : Final(p)
  /\ \A d \in dag.after[s] : Final(d.stage) /\ DependencyHolds(d)

CannotRun(s) ==
  \/ \E p \in dag.required[s] : Final(p) /\ ~Completed(p)
  \/ \E d \in dag.after[s] : Final(d.stage) /\ ~DependencyHolds(d)

(* A task has the inputs its stage still has.                              *)
Launched ==
  \A s \in running :
    /\ MayRun(s)
    /\ inputs[s] = NamedInputs(s)
    /\ task[s] = "over" =>
         /\ answer[s].status \in FinalStates
         /\ s \in dag.hashed => answer[s].status = "CANCELLED" \/ answer[s].hash = {inputs[s]}

(* A finished stage could not run, or its result is good for its inputs.   *)
Settled ==
  \A s \in finished :
    \/ results[s] = Skipped /\ CannotRun(s)
    \/ /\ MayRun(s)
       /\ s \in dag.hashed =>
            results[s].status = "CANCELLED" \/ NamedInputs(s) \in results[s].hash

(* A run returns when nothing is left to do: no task, and every stage      *)
(* without a result is still waiting for another.                          *)
Over ==
  pc = "returned" =>
    running = {} /\ \A s \in Stages \ finished : Diagnose(s) = "WAIT"

IInv == TypeOK /\ Launched /\ Settled /\ Over

-----------------------------------------------------------------------------
(* Properties.                                                             *)

(* What one run makes of the stages is what DagOutcome promises, whatever  *)
(* earlier runs left behind and in whatever order the tasks end.           *)
Outcome == INSTANCE DagOutcome WITH
  outcome <- [s \in Stages |-> IF Final(s) THEN results[s].status ELSE "OPEN"]

OutcomesHold == Outcome!Spec

(* A run that returns leaves no stage without a result: the loop's idle    *)
(* test ("unresolved stages remain") never fires on an acyclic DAG.        *)
AllResolved == pc = "returned" => finished = Stages

(* When a run returns, every hashed stage's result was computed from the   *)
(* inputs its producers have now, in this run or an earlier one.           *)
FreshResults ==
  pc = "returned" =>
    \A s \in dag.hashed \cap finished :
      results[s].status \in {"COMPLETED", "FAILED"} => NamedInputs(s) \in results[s].hash

(* Stages ruled out in the end are exactly those skipped without having    *)
(* run: skipping early, while other dependencies were still open, decides  *)
(* nothing that a later outcome would have decided otherwise.              *)
SkippedIsRuledOut ==
  pc = "returned" =>
    \A s \in Stages :
      /\ Diagnose(s) = "IMPOSSIBLE" => results[s] = Skipped
      /\ s \in dag.hashed \cap finished /\ results[s] = Skipped =>
           Diagnose(s) = "IMPOSSIBLE"

(* Within a run the result of a finished stage never changes.              *)
FinalIsFinal ==
  [][pc' \in Inside => \A s \in finished : s \in finished' /\ results'[s] = results[s]]_vars

(* A run that is let go on ends.                                           *)
RunEnds == (pc \in Inside) ~> (pc \notin Inside)
============================================================================
