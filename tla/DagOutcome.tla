----------------------------- MODULE DagOutcome ----------------------------
(***************************************************************************)
(* What one run of a DAG of stages promises, without the machinery of      *)
(* gigaevo/programs/dag: each stage gets one outcome per run, a stage is   *)
(* executed (or its earlier result reused) only once everything it depends *)
(* on has an outcome that lets it, and it is skipped only when some        *)
(* outcome rules it out.  The order of the stages, their parallelism and   *)
(* their caches do not show.  DagRun implements this.                      *)
(***************************************************************************)
CONSTANTS Stages, Dags

VARIABLES
  dag,      \* the shape of the DAG
  outcome   \* outcome[s]: what this run made of s, "OPEN" until then

vars == <<dag, outcome>>

Unsuccessful == {"FAILED", "CANCELLED", "SKIPPED"}
Outcomes == {"COMPLETED"} \cup Unsuccessful

(* The outcomes of the stage a dependency names under which it holds.      *)
Meets == [success |-> {"COMPLETED"}, failure |-> Unsuccessful, always |-> Outcomes]

Ready(s) ==
  /\ \A p \in dag.required[s] : outcome[p] = "COMPLETED"
  /\ \A p \in dag.optional[s] : outcome[p] \in Outcomes
  /\ \A d \in dag.after[s] : outcome[d.stage] \in Meets[d.condition]

RuledOut(s) ==
  \/ \E p \in dag.required[s] : outcome[p] \in Unsuccessful
  \/ \E d \in dag.after[s] : outcome[d.stage] \in Outcomes \ Meets[d.condition]

Init == dag \in Dags /\ outcome = [s \in Stages |-> "OPEN"]

(* Some open stages get their outcomes from those there already are.       *)
Resolve ==
  /\ outcome' \in [Stages -> Outcomes \cup {"OPEN"}]
  /\ \A s \in Stages :
       \/ outcome'[s] = outcome[s]
       \/ outcome[s] = "OPEN" /\ Ready(s) /\ outcome'[s] \in Outcomes
       \/ outcome[s] = "OPEN" /\ RuledOut(s) /\ outcome'[s] = "SKIPPED"
  /\ UNCHANGED dag

(* The run is over, or abandoned; a later one starts anew.                 *)
Restart == outcome' = [s \in Stages |-> "OPEN"] /\ UNCHANGED dag

Next == Resolve \/ Restart

Spec == Init /\ [][Next]_vars
============================================================================
