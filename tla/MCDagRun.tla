------------------------------ MODULE MCDagRun -----------------------------
(* DAGs over the stages a, b, c, in this order, in which one stage depends *)
(* on another in at most one way; a is never cached, b and c are.          *)
EXTENDS DagRun

CONSTANTS a, b, c

Kinds == {"none", "required", "optional"} \cup Conditions

Linked(kind, from) == [s \in Stages |-> {p \in Stages : from[s][p] = kind}]

Kind(ab, ac, bc) ==
  [s \in Stages |-> [p \in Stages |->
     CASE p = a /\ s = b -> ab [] p = a /\ s = c -> ac [] p = b /\ s = c -> bc
       [] OTHER -> "none"]]

DagOf(from, hashed) ==
  [required |-> Linked("required", from),
   optional |-> Linked("optional", from),
   after    |-> [s \in Stages |->
                   {d \in [stage : Stages, condition : Conditions] :
                      from[s][d.stage] = d.condition}],
   hashed   |-> hashed]

SomeDags == {DagOf(Kind(ab, ac, bc), {b, c}) :
               ab \in {"none", "required"},
               ac \in {"required", "optional"},
               bc \in Kinds}
============================================================================
