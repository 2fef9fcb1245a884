--------------------------- MODULE DagRun_proofs ---------------------------
(***************************************************************************)
(* Theorems about DagRun, for acyclic DAGs of any shape with any           *)
(* number of stages and any degree of parallelism.                         *)
(***************************************************************************)
EXTENDS DagRun, TLAPS

(* The two verdicts of the automaton, in terms of what is finished.        *)
LEMMA ReadyMeans ==
  ASSUME NEW s \in Stages, Diagnose(s) = "READY"
  PROVE  MayRun(s)
<1>1. Gates(s) = {"READY"}
  BY DEF Diagnose
<1>2. DataflowGate(s) = "READY" /\ \A d \in dag.after[s] : DependencyGate(d) = "READY"
  BY <1>1 DEF Gates
<1>3. \A p \in dag.required[s] : Completed(p)
  BY <1>2 DEF DataflowGate
<1>4. \A p \in dag.optional[s] : Final(p)
  BY <1>2 DEF DataflowGate
<1>5. \A d \in dag.after[s] : Final(d.stage) /\ DependencyHolds(d)
  BY <1>2 DEF DependencyGate
<1> QED BY <1>3, <1>4, <1>5 DEF MayRun

LEMMA ImpossibleMeans ==
  ASSUME NEW s \in Stages
  PROVE  Diagnose(s) = "IMPOSSIBLE" <=> CannotRun(s)
<1>1. Diagnose(s) = "IMPOSSIBLE" <=> "IMPOSSIBLE" \in Gates(s)
  BY DEF Diagnose
<1>2. DataflowGate(s) = "IMPOSSIBLE" <=>
        \E p \in dag.required[s] : Final(p) /\ ~Completed(p)
  BY DEF DataflowGate
<1>3. \A d : DependencyGate(d) = "IMPOSSIBLE" <=> Final(d.stage) /\ ~DependencyHolds(d)
  BY DEF DependencyGate
<1> QED BY <1>1, <1>2, <1>3 DEF Gates, CannotRun

LEMMA NotBoth ==
  ASSUME NEW s \in Stages, MayRun(s)
  PROVE  ~CannotRun(s)
BY DEF MayRun, CannotRun

-----------------------------------------------------------------------------
(* A step inside a run: what is finished stays as it is, and what becomes  *)
(* finished may run, or cannot and is skipped.                             *)
Extends ==
  /\ dag' = dag
  /\ finished \subseteq finished'
  /\ \A s \in finished : results'[s] = results[s]

LEMMA Stable ==
  ASSUME TypeOK, Extends, NEW s \in Stages
  PROVE  /\ Final(s) => Final(s)' /\ results'[s] = results[s]
         /\ MayRun(s) => MayRun(s)' /\ NamedInputs(s)' = NamedInputs(s)
         /\ CannotRun(s) => CannotRun(s)'
<1> USE DEF Extends
<1>1. \A p : Final(p) => Final(p)' /\ results'[p] = results[p]
  BY DEF Final
<1>2. \A p : Completed(p) => Completed(p)'
  BY <1>1 DEF Completed
<1>3. \A p : Final(p) /\ ~Completed(p) => ~Completed(p)'
  BY <1>1 DEF Completed
<1>4. \A d : Final(d.stage) => (DependencyHolds(d)' <=> DependencyHolds(d))
  BY <1>1 DEF DependencyHolds
<1>5. MayRun(s) => MayRun(s)'
  BY <1>1, <1>2, <1>4 DEF MayRun
<1>6. CannotRun(s) => CannotRun(s)'
  BY <1>1, <1>3, <1>4 DEF CannotRun
<1>7. ASSUME MayRun(s) PROVE NamedInputs(s)' = NamedInputs(s)
  <2>1. \A p \in dag.required[s] \cup dag.optional[s] : Final(p)
    BY <1>7 DEF MayRun, Completed
  <2> QED BY <2>1, <1>1 DEF NamedInputs
<1> QED BY <1>1, <1>5, <1>6, <1>7

LEMMA InitInv == Init => IInv
<1> SUFFICES ASSUME Init PROVE IInv
  OBVIOUS
<1> USE DagAssumption DEF Init
<1>1. Pending \in Result
  BY DEF Pending, Result
<1>2. NoInputs \in Inputs
  BY DEF NoInputs, Inputs
<1>3. TypeOK
  BY <1>1, <1>2 DEF TypeOK
<1>4. Launched /\ Settled /\ Over
  BY DEF Launched, Settled, Over, running
<1> QED BY <1>3, <1>4 DEF IInv

(* The inputs built from well-typed results are inputs.                    *)
LEMMA InputsTyped ==
  ASSUME TypeOK, NEW s \in Stages
  PROVE  NamedInputs(s) \in Inputs
BY DEF NamedInputs, Inputs, TypeOK, Result

LEMMA SkipStep ==
  ASSUME IInv, Skip
  PROVE  IInv' /\ Extends /\ \A s \in finished' \ finished :
           results'[s].status = "SKIPPED" /\ CannotRun(s)
<1> USE DEF IInv
<1>1. \A s \in RuledOut : s \in Stages /\ CannotRun(s) /\ s \notin finished
                          /\ s \notin running
  BY ImpossibleMeans DEF RuledOut, Candidates
<1>2. Extends
  BY <1>1 DEF Skip, Extends, TypeOK
<1>3. \A s \in finished' \ finished : results'[s] = Skipped /\ CannotRun(s)
  BY <1>1 DEF Skip, TypeOK
<1>4. TypeOK'
  <2>1. Skipped \in Result /\ Skipped.status = "SKIPPED"
    BY DEF Skipped, Result, FinalStates
  <2>2. results' \in [Stages -> Result] /\ finished' \subseteq Stages
    BY <1>1, <2>1 DEF TypeOK, Skip
  <2>3. \A s \in Stages : task'[s] # "none" => results'[s].status = "RUNNING"
    BY <1>1 DEF TypeOK, Skip, running
  <2>4. \A s \in finished' : results'[s].status \in FinalStates
    BY <1>1, <2>1 DEF TypeOK, Skip, FinalStates
  <2> QED BY <2>2, <2>3, <2>4 DEF TypeOK, Skip, Inside
<1>5. Launched'
  <2> SUFFICES ASSUME NEW s \in running'
               PROVE  /\ MayRun(s)'
                      /\ inputs'[s] = NamedInputs(s)'
                      /\ task'[s] = "over" =>
                           /\ answer'[s].status \in FinalStates
                           /\ s \in dag'.hashed => answer'[s].status = "CANCELLED"
                                                   \/ answer'[s].hash = {inputs'[s]}
    BY DEF Launched
  <2>1. s \in running /\ s \in Stages
    BY DEF Skip, running
  <2> QED BY <2>1, <1>2, Stable DEF Launched, Skip
<1>6. Settled'
  <2> SUFFICES ASSUME NEW s \in finished'
               PROVE  \/ results'[s] = Skipped /\ CannotRun(s)'
                      \/ /\ MayRun(s)'
                         /\ s \in dag'.hashed =>
                              results'[s].status = "CANCELLED"
                              \/ NamedInputs(s)' \in results'[s].hash
    BY DEF Settled
  <2>1. s \in Stages
    BY <1>4 DEF TypeOK
  <2>2. CASE s \in finished
    BY <2>1, <2>2, <1>2, Stable DEF Settled, Extends
  <2>3. CASE s \notin finished
    BY <2>1, <2>3, <1>2, <1>3, Stable
  <2> QED BY <2>2, <2>3
<1>7. Over'
  BY DEF Over, Skip
<1> QED BY <1>2, <1>3, <1>4, <1>5, <1>6, <1>7 DEF Skipped

LEMMA LaunchStep ==
  ASSUME IInv, Launch
  PROVE  IInv' /\ Extends /\ \A s \in finished' \ finished : MayRun(s)
<1> DEFINE ready  == {s \in Candidates : Diagnose(s) = "READY"}
           reused == {s \in ready : Cached(s)}
           new    == ready \ reused
<1> USE DEF IInv
<1>1. \A s \in ready : s \in Stages /\ MayRun(s) /\ s \notin finished /\ s \notin running
  BY ReadyMeans DEF Candidates
<1>2. /\ finished' = finished \cup reused
      /\ results' = [s \in Stages |->
             IF s \in new THEN [Pending EXCEPT !.status = "RUNNING", !.hash = results[s].hash]
             ELSE results[s]]
      /\ task' = [s \in Stages |-> IF s \in new THEN "waiting" ELSE task[s]]
      /\ inputs' = [s \in Stages |-> IF s \in new THEN NamedInputs(s) ELSE inputs[s]]
      /\ pc' = NextPass(new, reused)
      /\ UNCHANGED <<dag, stored, answer, runs>>
  BY DEF Launch
<1> HIDE DEF ready
<1>3. new \cap finished = {} /\ new \cap running = {} /\ new \cap reused = {}
  BY <1>1
<1>4. Extends
  BY <1>2, <1>3 DEF Extends, TypeOK
<1>5. \A s \in finished' \ finished : s \in reused /\ MayRun(s)
  BY <1>1, <1>2
<1>6. \A s \in reused : s \in Stages /\ results[s].status \in FinalStates
                        /\ NamedInputs(s) \in results[s].hash /\ results'[s] = results[s]
  BY <1>1, <1>2 DEF Cached
<1>7. TypeOK'
  <2>1. \A s \in Stages :
          [Pending EXCEPT !.status = "RUNNING", !.hash = results[s].hash] \in Result
    BY DEF TypeOK, Pending, Result
  <2>2. results' \in [Stages -> Result] /\ finished' \subseteq Stages
    BY <1>1, <1>2, <2>1 DEF TypeOK
  <2>3. task' \in [Stages -> {"none", "waiting", "executing", "over"}]
        /\ inputs' \in [Stages -> Inputs]
    BY <1>2, InputsTyped DEF TypeOK
  <2>4. \A s \in Stages : task'[s] # "none" => results'[s].status = "RUNNING"
    BY <1>2 DEF TypeOK, Pending
  <2>5. \A s \in finished' : results'[s].status \in FinalStates
    BY <1>2, <1>4, <1>6 DEF TypeOK, Extends
  <2>6. pc' \in Inside \cup {"idle", "returned", "failed", "persisted"}
    BY <1>2 DEF NextPass, Inside
  <2> QED BY <1>2, <2>2, <2>3, <2>4, <2>5, <2>6 DEF TypeOK
<1>8. Launched'
  <2> SUFFICES ASSUME NEW s \in running'
               PROVE  /\ MayRun(s)'
                      /\ inputs'[s] = NamedInputs(s)'
                      /\ task'[s] = "over" =>
                           /\ answer'[s].status \in FinalStates
                           /\ s \in dag'.hashed => answer'[s].status = "CANCELLED"
                                                   \/ answer'[s].hash = {inputs'[s]}
    BY DEF Launched
  <2>1. s \in Stages
    BY DEF running
  <2>2. CASE s \in new
    <3>1. MayRun(s)
      BY <2>2, <1>1
    <3>2. inputs'[s] = NamedInputs(s) /\ task'[s] = "waiting"
      BY <2>1, <2>2, <1>2
    <3> QED BY <2>1, <3>1, <3>2, <1>4, Stable
  <2>3. CASE s \notin new
    <3>1. s \in running /\ inputs'[s] = inputs[s] /\ task'[s] = task[s]
          /\ answer'[s] = answer[s]
      BY <2>1, <2>3, <1>2 DEF running
    <3> QED BY <2>1, <3>1, <1>4, Stable DEF Launched, Extends
  <2> QED BY <2>2, <2>3
<1>9. Settled'
  <2> SUFFICES ASSUME NEW s \in finished'
               PROVE  \/ results'[s] = Skipped /\ CannotRun(s)'
                      \/ /\ MayRun(s)'
                         /\ s \in dag'.hashed =>
                              results'[s].status = "CANCELLED"
                              \/ NamedInputs(s)' \in results'[s].hash
    BY DEF Settled
  <2>1. s \in Stages
    BY <1>7 DEF TypeOK
  <2>2. CASE s \in finished
    BY <2>1, <2>2, <1>4, Stable DEF Settled, Extends
  <2>3. CASE s \notin finished
    BY <2>1, <2>3, <1>4, <1>5, <1>6, Stable
  <2> QED BY <2>2, <2>3
<1>10. Over'
  <2> SUFFICES ASSUME pc' = "returned"
               PROVE  running' = {} /\ \A s \in Stages \ finished' : Diagnose(s)' = "WAIT"
    BY DEF Over
  <2>1. running \cup new = {} /\ reused \cup RuledOut = {}
    BY <1>2 DEF NextPass
  <2>2. task' = task /\ results' = results /\ finished' = finished /\ dag' = dag
    BY <1>2, <2>1 DEF TypeOK
  <2>3. running' = running
    BY <2>2 DEF running
  <2>4. \A s \in Stages : Diagnose(s)' = Diagnose(s)
    <3>1. \A d : DependencyGate(d)' = DependencyGate(d)
      BY <2>2 DEF DependencyGate, DependencyHolds, Final
    <3>2. \A s \in Stages : DataflowGate(s)' = DataflowGate(s)
      BY <2>2 DEF DataflowGate, Final, Completed
    <3> QED BY <3>1, <3>2, <2>2 DEF Diagnose, Gates
  <2>5. ASSUME NEW s \in Stages \ finished PROVE Diagnose(s) = "WAIT"
    <3>1. s \in Candidates
      BY <2>1, <2>5 DEF Candidates
    <3>2. Diagnose(s) # "IMPOSSIBLE"
      BY <2>1, <3>1 DEF RuledOut
    <3>3. Diagnose(s) # "READY"
      BY <2>1, <3>1 DEF ready
    <3> QED BY <3>2, <3>3 DEF Diagnose
  <2> QED BY <2>1, <2>2, <2>3, <2>4, <2>5
<1> QED BY <1>4, <1>5, <1>7, <1>8, <1>9, <1>10

LEMMA StartStep ==
  ASSUME IInv, NEW x \in Stages, Start(x)
  PROVE  IInv' /\ Extends /\ finished' = finished
<1> USE DEF IInv
<1>1. Extends /\ finished' = finished
  BY DEF Start, Extends
<1>2. TypeOK'
  BY DEF TypeOK, Start, Inside
<1>3. running' = running /\ \A s \in Stages : task'[s] = "over" => task[s] = "over"
  BY DEF Start, running, TypeOK
<1>4. \A s \in Stages : MayRun(s)' = MayRun(s) /\ NamedInputs(s)' = NamedInputs(s)
                        /\ CannotRun(s)' = CannotRun(s)
  BY DEF Start, MayRun, CannotRun, NamedInputs, Final, Completed, DependencyHolds
<1>5. Launched'
  BY <1>3, <1>4 DEF Launched, Start, running
<1>6. Settled'
  BY <1>4 DEF Settled, Start, TypeOK
<1>7. Over'
  BY DEF Over, Start
<1> QED BY <1>1, <1>2, <1>5, <1>6, <1>7

LEMMA FinishStep ==
  ASSUME IInv, NEW x \in Stages, Finish(x)
  PROVE  IInv' /\ Extends /\ finished' = finished
<1> USE DEF IInv
<1>1. Extends /\ finished' = finished
  BY DEF Finish, Extends
<1>2. PICK r \in Result : /\ answer' = [answer EXCEPT ![x] = r]
                          /\ r.status \in FinalStates
                          /\ r.status = "CANCELLED" \/ r.hash = Hash(x)
  <2>1. Hash(x) \subseteq Inputs
    BY DEF Hash, TypeOK
  <2>2. CASE \E v \in Versions :
          answer' = [answer EXCEPT ![x] =
            [status |-> "COMPLETED", output |-> v, hash |-> Hash(x)]]
    <3>1. PICK v \in Versions :
            answer' = [answer EXCEPT ![x] =
              [status |-> "COMPLETED", output |-> v, hash |-> Hash(x)]]
      BY <2>2
    <3>2. [status |-> "COMPLETED", output |-> v, hash |-> Hash(x)] \in Result
      BY <2>1 DEF Result, FinalStates
    <3> QED BY <3>1, <3>2 DEF FinalStates
  <2>3. CASE \E st \in {"FAILED", "SKIPPED"} :
          answer' = [answer EXCEPT ![x] = [Pending EXCEPT !.status = st, !.hash = Hash(x)]]
    <3>1. PICK st \in {"FAILED", "SKIPPED"} :
          answer' = [answer EXCEPT ![x] = [Pending EXCEPT !.status = st, !.hash = Hash(x)]]
      BY <2>3
    <3>2. [Pending EXCEPT !.status = st, !.hash = Hash(x)] \in Result
      BY <2>1 DEF Result, FinalStates, Pending
    <3>3. [Pending EXCEPT !.status = st, !.hash = Hash(x)].status = st
          /\ [Pending EXCEPT !.status = st, !.hash = Hash(x)].hash = Hash(x)
      BY DEF Pending
    <3> QED BY <3>1, <3>2, <3>3 DEF FinalStates
  <2>4. CASE answer' = [answer EXCEPT ![x] = [Pending EXCEPT !.status = "CANCELLED"]]
    <3>1. [Pending EXCEPT !.status = "CANCELLED"] \in Result
          /\ [Pending EXCEPT !.status = "CANCELLED"].status = "CANCELLED"
      BY DEF Result, FinalStates, Pending
    <3> QED BY <2>4, <3>1 DEF FinalStates
  <2> QED BY <2>2, <2>3, <2>4 DEF Finish
<1>3. TypeOK'
  BY <1>2 DEF TypeOK, Finish, Inside
<1>4. \A s \in Stages : MayRun(s)' = MayRun(s) /\ NamedInputs(s)' = NamedInputs(s)
                        /\ CannotRun(s)' = CannotRun(s)
  BY DEF Finish, MayRun, CannotRun, NamedInputs, Final, Completed, DependencyHolds
<1>5. Launched'
  <2>1. running' = running
    BY DEF Finish, running, TypeOK
  <2>2. \A s \in running : s # x => task'[s] = task[s] /\ answer'[s] = answer[s]
    BY <1>2 DEF Finish, TypeOK, running
  <2>3. x \in running /\ answer'[x] = r
    BY <1>2 DEF Finish, TypeOK, running
  <2>4. inputs' = inputs /\ dag' = dag
    BY DEF Finish
  <2> SUFFICES ASSUME NEW s \in running
               PROVE  /\ MayRun(s)'
                      /\ inputs'[s] = NamedInputs(s)'
                      /\ task'[s] = "over" =>
                           /\ answer'[s].status \in FinalStates
                           /\ s \in dag'.hashed => answer'[s].status = "CANCELLED"
                                                   \/ answer'[s].hash = {inputs'[s]}
    BY <2>1 DEF Launched
  <2>5. s \in Stages
    BY DEF running
  <2>6. CASE s = x
    BY <2>3, <2>4, <2>5, <2>6, <1>2, <1>4 DEF Launched, Hash
  <2>7. CASE s # x
    BY <2>2, <2>4, <2>5, <2>7, <1>4 DEF Launched
  <2> QED BY <2>6, <2>7
<1>6. Settled'
  BY <1>4 DEF Settled, Finish, TypeOK
<1>7. Over'
  BY DEF Over, Finish
<1> QED BY <1>1, <1>3, <1>5, <1>6, <1>7

LEMMA CollectStep ==
  ASSUME IInv, Collect
  PROVE  IInv' /\ Extends /\ \A s \in finished' \ finished : MayRun(s)
<1> USE DEF IInv
<1>1. \A s \in Ended : s \in running /\ s \in Stages /\ s \notin finished
  BY DEF Ended, running, TypeOK, FinalStates
<1>2. Extends
  BY <1>1 DEF Collect, Extends, TypeOK
<1>3. \A s \in finished' \ finished : s \in Ended
  BY DEF Collect
<1>4. \A s \in finished' \ finished : MayRun(s)
  BY <1>1, <1>3 DEF Launched
<1>5. \A s \in Ended : results'[s] = answer[s] /\ answer[s].status \in FinalStates
  BY <1>1 DEF Collect, Launched, Ended
<1>6. TypeOK'
  <2>1. Pending \in Result /\ NoInputs \in Inputs
    BY DEF Pending, Result, NoInputs, Inputs
  <2>2. results' \in [Stages -> Result] /\ finished' \subseteq Stages
    BY <1>1 DEF TypeOK, Collect
  <2>3. /\ task' \in [Stages -> {"none", "waiting", "executing", "over"}]
        /\ inputs' \in [Stages -> Inputs] /\ answer' \in [Stages -> Result]
    BY <2>1 DEF TypeOK, Collect
  <2>4. \A s \in Stages : task'[s] # "none" => results'[s].status = "RUNNING"
    BY DEF TypeOK, Collect
  <2>5. \A s \in finished' : results'[s].status \in FinalStates
    BY <1>2, <1>3, <1>5 DEF TypeOK, Extends
  <2> QED BY <2>2, <2>3, <2>4, <2>5 DEF TypeOK, Collect, Inside
<1>7. Launched'
  <2> SUFFICES ASSUME NEW s \in running'
               PROVE  /\ MayRun(s)'
                      /\ inputs'[s] = NamedInputs(s)'
                      /\ task'[s] = "over" =>
                           /\ answer'[s].status \in FinalStates
                           /\ s \in dag'.hashed => answer'[s].status = "CANCELLED"
                                                   \/ answer'[s].hash = {inputs'[s]}
    BY DEF Launched
  <2>1. s \in Stages /\ s \in running /\ s \notin Ended
    BY DEF running, Collect
  <2>2. task'[s] = task[s] /\ inputs'[s] = inputs[s] /\ answer'[s] = answer[s]
    BY <2>1 DEF Collect
  <2> QED BY <2>1, <2>2, <1>2, Stable DEF Launched, Extends
<1>8. Settled'
  <2> SUFFICES ASSUME NEW s \in finished'
               PROVE  \/ results'[s] = Skipped /\ CannotRun(s)'
                      \/ /\ MayRun(s)'
                         /\ s \in dag'.hashed =>
                              results'[s].status = "CANCELLED"
                              \/ NamedInputs(s)' \in results'[s].hash
    BY DEF Settled
  <2>1. s \in Stages
    BY <1>6 DEF TypeOK
  <2>2. CASE s \in finished
    BY <2>1, <2>2, <1>2, Stable DEF Settled, Extends
  <2>3. CASE s \notin finished
    <3>1. s \in Ended
      BY <2>3, <1>3
    <3>2. MayRun(s) /\ inputs[s] = NamedInputs(s) /\ results'[s] = answer[s]
          /\ (s \in dag.hashed => answer[s].status = "CANCELLED"
                                  \/ answer[s].hash = {inputs[s]})
      BY <3>1, <1>1, <1>5 DEF Launched, Ended
    <3>3. MayRun(s)' /\ NamedInputs(s)' = NamedInputs(s) /\ dag' = dag
      BY <2>1, <3>2, <1>2, Stable DEF Extends
    <3> QED BY <3>2, <3>3
  <2> QED BY <2>2, <2>3
<1>9. Over'
  BY DEF Over, Collect
<1> QED BY <1>2, <1>4, <1>6, <1>7, <1>8, <1>9

(* Between two runs nothing is finished and no task exists.                *)
LEMMA DropStep ==
  ASSUME IInv, Drop, stored' \in [Stages -> Result], pc' \in {"failed", "persisted", "idle"}
  PROVE  IInv'
<1> USE DEF IInv
<1>1. Pending \in Result /\ NoInputs \in Inputs
  BY DEF Pending, Result, NoInputs, Inputs
<1>2. TypeOK'
  BY <1>1 DEF TypeOK, Drop
<1>3. Launched' /\ Settled'
  BY DEF Launched, Settled, Drop, running
<1>4. Over'
  BY DEF Over
<1> QED BY <1>2, <1>3, <1>4

LEMMA BeginStep ==
  ASSUME IInv, Begin
  PROVE  IInv' /\ Extends /\ finished' = finished
<1> USE DEF IInv
<1>1. Extends /\ finished' = finished
  BY DEF Begin, Extends
<1>2. TypeOK'
  BY DagAssumption DEF TypeOK, Begin, Inside
<1>3. \A s \in Stages : MayRun(s)' = MayRun(s) /\ NamedInputs(s)' = NamedInputs(s)
                        /\ CannotRun(s)' = CannotRun(s)
  BY DEF Begin, MayRun, CannotRun, NamedInputs, Final, Completed, DependencyHolds
<1>4. Launched'
  BY <1>3 DEF Launched, Begin, running
<1>5. Settled'
  BY <1>3 DEF Settled, Begin, TypeOK
<1>6. Over'
  BY DEF Over, Begin
<1> QED BY <1>1, <1>2, <1>4, <1>5, <1>6

-----------------------------------------------------------------------------
(* The invariant, and every step as a step of DagOutcome.                  *)

(* Steps inside a run, and those that leave it.                            *)
Inner == Begin \/ Step
Leave == Timeout \/ Persist \/ Crash

LEMMA InnerStep ==
  ASSUME IInv, Inner
  PROVE  /\ IInv' /\ Extends
         /\ \A s \in finished' \ finished :
              MayRun(s) \/ (results'[s].status = "SKIPPED" /\ CannotRun(s))
<1>1. CASE Begin
  BY <1>1, BeginStep
<1>2. CASE Skip
  BY <1>2, SkipStep
<1>3. CASE Launch
  BY <1>3, LaunchStep
<1>4. CASE Collect
  BY <1>4, CollectStep
<1>5. CASE \E s \in Stages : Start(s)
  BY <1>5, StartStep
<1>6. CASE \E s \in Stages : Finish(s)
  BY <1>6, FinishStep
<1> QED BY <1>1, <1>2, <1>3, <1>4, <1>5, <1>6 DEF Inner, Step

LEMMA LeaveStep ==
  ASSUME IInv, Leave
  PROVE  IInv' /\ finished' = {} /\ dag' = dag /\ pc' \notin Inside
<1>1. stored' \in [Stages -> Result]
  BY DEF Leave, Timeout, Persist, Crash, IInv, TypeOK
<1>2. Drop /\ pc' \in {"failed", "persisted", "idle"}
  BY DEF Leave, Timeout, Persist, Crash
<1> QED BY <1>1, <1>2, DropStep DEF Drop, Inside

LEMMA NextInv == IInv /\ [Next]_vars => IInv'
<1> SUFFICES ASSUME IInv, [Next]_vars PROVE IInv'
  OBVIOUS
<1>1. CASE Inner
  BY <1>1, InnerStep
<1>2. CASE Leave
  BY <1>2, LeaveStep
<1>3. CASE UNCHANGED vars
  <2> USE <1>3 DEF vars
  <2>1. TypeOK'
    BY DEF IInv, TypeOK
  <2>2. \A s \in Stages : MayRun(s)' = MayRun(s) /\ NamedInputs(s)' = NamedInputs(s)
                          /\ CannotRun(s)' = CannotRun(s) /\ Diagnose(s)' = Diagnose(s)
    BY DEF MayRun, CannotRun, NamedInputs, Final, Completed, DependencyHolds,
           Diagnose, Gates, DependencyGate, DataflowGate
  <2>3. Launched'
    BY <2>2 DEF IInv, Launched, running
  <2>4. Settled'
    BY <2>2 DEF IInv, Settled, TypeOK
  <2>5. Over'
    BY <2>2 DEF IInv, Over, running
  <2> QED BY <2>1, <2>3, <2>4, <2>5 DEF IInv
<1> QED BY <1>1, <1>2, <1>3 DEF Next, Inner, Leave

(* The inductive invariant.                                                *)
THEOREM Inductive == Spec => []IInv
<1>1. Init => IInv
  BY InitInv
<1>2. IInv /\ [Next]_vars => IInv'
  BY NextInv
<1> QED BY <1>1, <1>2, PTL DEF Spec

(* Types, and: only RUNNING stages have a task, only stages with a final   *)
(* result count as finished.                                               *)
THEOREM TypeCorrect == Spec => []TypeOK
<1>1. IInv => TypeOK
  BY DEF IInv
<1> QED BY <1>1, Inductive, PTL

(* A run that returns leaves no hashed stage with a result that was        *)
(* computed from other inputs than those it has (cache_handler.py).        *)
THEOREM ResultsAreFresh == Spec => []FreshResults
<1>1. IInv => FreshResults
  BY DEF IInv, Settled, FreshResults, Skipped
<1> QED BY <1>1, Inductive, PTL

(* A stage is skipped by the automaton if and only if, once everything is  *)
(* known, it could not have run (get_stages_to_skip).                      *)
THEOREM SkipsAreRight == Spec => []SkippedIsRuledOut
<1>1. ASSUME IInv, pc = "returned", NEW s \in Stages, Diagnose(s) = "IMPOSSIBLE"
      PROVE  results[s] = Skipped
  <2>1. s \in finished
    BY <1>1 DEF IInv, Over
  <2> QED BY <2>1, <1>1, ImpossibleMeans, NotBoth DEF IInv, Settled
<1>2. ASSUME IInv, pc = "returned", NEW s \in dag.hashed \cap finished,
             results[s] = Skipped
      PROVE  Diagnose(s) = "IMPOSSIBLE"
  <2>1. s \in Stages
    BY <1>2 DEF IInv, TypeOK
  <2>2. CannotRun(s)
    BY <1>2 DEF IInv, Settled, Skipped
  <2> QED BY <2>1, <2>2, ImpossibleMeans
<1>3. IInv => SkippedIsRuledOut
  BY <1>1, <1>2 DEF SkippedIsRuledOut
<1> QED BY <1>3, Inductive, PTL

(* A stage of which every producer is finished does not wait.              *)
LEMMA NobodyLeft ==
  ASSUME NEW s \in Stages, \A p \in Producers(dag, s) : Final(p)
  PROVE  Diagnose(s) # "WAIT"
<1>1. CASE "IMPOSSIBLE" \in Gates(s)
  BY <1>1 DEF Diagnose
<1>2. CASE "IMPOSSIBLE" \notin Gates(s)
  <2>1. DataflowGate(s) = "READY"
    BY <1>2 DEF Gates, DataflowGate, Producers
  <2>2. \A d \in dag.after[s] : DependencyGate(d) = "READY"
    BY <1>2 DEF Gates, DependencyGate, Producers
  <2> QED BY <2>1, <2>2 DEF Gates, Diagnose
<1> QED BY <1>1, <1>2

(* A run that returns has given every stage a result: the loop never stops *)
(* with stages that wait for each other, nor before the last skip or reuse *)
(* has had its consequences.                                               *)
THEOREM NothingUnresolved == Spec => []AllResolved
<1>1. ASSUME IInv, pc = "returned", finished # Stages PROVE FALSE
  <2>1. Stages \ finished # {} /\ Acyclic(dag)
    BY <1>1, DagAssumption DEF IInv, TypeOK
  <2>2. PICK s \in Stages \ finished : Producers(dag, s) \cap (Stages \ finished) = {}
    BY <2>1 DEF Acyclic
  <2>3. Producers(dag, s) \subseteq Stages
    BY DagAssumption, <1>1 DEF IInv, TypeOK, Shape, Producers
  <2>4. \A p \in Producers(dag, s) : Final(p)
    BY <2>2, <2>3, <1>1 DEF IInv, TypeOK, Final
  <2>5. Diagnose(s) = "WAIT"
    BY <1>1 DEF IInv, Over
  <2> QED BY <2>4, <2>5, NobodyLeft
<1>2. IInv => AllResolved
  BY <1>1 DEF AllResolved
<1> QED BY <1>2, Inductive, PTL

(* A finished result stays as it is until the run is over, however late    *)
(* other stages fail (the loop's finished_this_run).                       *)
THEOREM ResultsAreFinal == Spec => FinalIsFinal
<1>1. ASSUME IInv, Next, pc' \in Inside, NEW s \in finished
      PROVE  s \in finished' /\ results'[s] = results[s]
  <2>1. CASE Inner
    BY <2>1, <1>1, InnerStep DEF Extends
  <2>2. CASE Leave
    BY <2>2, <1>1, LeaveStep
  <2> QED BY <2>1, <2>2, <1>1 DEF Next, Inner, Leave
<1>2. IInv /\ [Next]_vars =>
        [pc' \in Inside => \A s \in finished : s \in finished' /\ results'[s] = results[s]]_vars
  BY <1>1
<1> QED BY <1>2, Inductive, PTL DEF Spec, FinalIsFinal

-----------------------------------------------------------------------------
(* The refinement.                                                         *)

LEMMA OutcomeReady ==
  ASSUME NEW s \in Stages, MayRun(s), TypeOK
  PROVE  Outcome!Ready(s)
<1>1. \A p \in dag.required[s] \cup dag.optional[s] : p \in Stages
  BY DagAssumption DEF TypeOK, Shape
<1>2. \A d \in dag.after[s] : d.stage \in Stages /\ d.condition \in Conditions
  BY DagAssumption DEF TypeOK, Shape
<1>3. \A p \in dag.required[s] : Final(p) /\ results[p].status = "COMPLETED"
  BY DEF MayRun, Completed
<1>4. \A p \in dag.optional[s] : Final(p) /\ results[p].status \in Outcome!Outcomes
  BY DEF MayRun, Final, FinalStates, Outcome!Outcomes, Outcome!Unsuccessful
<1>5. \A d \in dag.after[s] :
        Final(d.stage) /\ results[d.stage].status \in Outcome!Meets[d.condition]
  BY <1>2 DEF MayRun, DependencyHolds, Final, FinalStates, Conditions, Outcome!Meets,
              Outcome!Outcomes, Outcome!Unsuccessful
<1> QED BY <1>1, <1>2, <1>3, <1>4, <1>5 DEF Outcome!Ready

LEMMA OutcomeRuledOut ==
  ASSUME NEW s \in Stages, CannotRun(s), TypeOK
  PROVE  Outcome!RuledOut(s)
<1>1. \A p \in dag.required[s] : p \in Stages
  BY DagAssumption DEF TypeOK, Shape
<1>2. \A d \in dag.after[s] : d.stage \in Stages /\ d.condition \in Conditions
  BY DagAssumption DEF TypeOK, Shape
<1>3. CASE \E p \in dag.required[s] : Final(p) /\ ~Completed(p)
  <2>1. PICK p \in dag.required[s] : Final(p) /\ ~Completed(p)
    BY <1>3
  <2>2. p \in Stages /\ results[p].status \in Outcome!Unsuccessful
    BY <2>1, <1>1 DEF Completed, Final, FinalStates, Outcome!Unsuccessful
  <2> QED BY <2>1, <2>2 DEF Outcome!RuledOut
<1>4. CASE \E d \in dag.after[s] : Final(d.stage) /\ ~DependencyHolds(d)
  <2>1. PICK d \in dag.after[s] : Final(d.stage) /\ ~DependencyHolds(d)
    BY <1>4
  <2>2. d.stage \in Stages /\ d.condition \in Conditions
    BY <1>2
  <2>3. results[d.stage].status \in Outcome!Outcomes \ Outcome!Meets[d.condition]
    BY <2>1, <2>2 DEF DependencyHolds, Final, FinalStates, Conditions, Outcome!Meets,
                      Outcome!Outcomes, Outcome!Unsuccessful
  <2> QED BY <2>1, <2>2, <2>3 DEF Outcome!RuledOut
<1> QED BY <1>3, <1>4 DEF CannotRun

LEMMA InnerResolves ==
  ASSUME IInv, IInv', Extends,
         \A s \in finished' \ finished :
           MayRun(s) \/ (results'[s].status = "SKIPPED" /\ CannotRun(s))
  PROVE  Outcome!Resolve
<1> DEFINE before(s) == IF Final(s) THEN results[s].status ELSE "OPEN"
           after(s)  == IF Final(s)' THEN results'[s].status ELSE "OPEN"
<1>1. \A s \in Stages : after(s) \in Outcome!Outcomes \cup {"OPEN"}
  BY DEF Final, FinalStates, Outcome!Outcomes, Outcome!Unsuccessful
<1>2. ASSUME NEW s \in Stages
      PROVE  \/ after(s) = before(s)
             \/ before(s) = "OPEN" /\ Outcome!Ready(s) /\ after(s) \in Outcome!Outcomes
             \/ before(s) = "OPEN" /\ Outcome!RuledOut(s) /\ after(s) = "SKIPPED"
  <2>1. CASE s \in finished
    <3>1. Final(s) /\ Final(s)' /\ results'[s] = results[s]
      BY <2>1 DEF Extends, IInv, TypeOK, Final
    <3> QED BY <3>1
  <2>2. CASE s \notin finished'
    BY <2>2 DEF Extends, Final
  <2>3. CASE s \in finished' \ finished
    <3>1. before(s) = "OPEN" /\ after(s) = results'[s].status
          /\ after(s) \in Outcome!Outcomes
      BY <2>3 DEF IInv, TypeOK, Final, FinalStates, Outcome!Outcomes, Outcome!Unsuccessful
    <3> QED BY <3>1, <2>3, OutcomeReady, OutcomeRuledOut DEF IInv
  <2> QED BY <2>1, <2>2, <2>3
<1> QED BY <1>1, <1>2 DEF Outcome!Resolve, Extends

(* A run of the detailed DAG is a run of DagOutcome: dependencies, skips,  *)
(* caches and results of earlier runs never produce another outcome.       *)
THEOREM ImplementsOutcome == Spec => OutcomesHold
<1>1. Init => Outcome!Init
  BY DEF Init, Outcome!Init, Final
<1>2. IInv /\ IInv' /\ [Next]_vars => [Outcome!Next]_(Outcome!vars)
  <2> SUFFICES ASSUME IInv, IInv', [Next]_vars PROVE [Outcome!Next]_(Outcome!vars)
    OBVIOUS
  <2>1. CASE Inner
    BY <2>1, InnerStep, InnerResolves DEF Outcome!Next
  <2>2. CASE Leave
    BY <2>2, LeaveStep DEF Outcome!Next, Outcome!Restart, Final
  <2>3. CASE UNCHANGED vars
    BY <2>3 DEF vars, Outcome!vars, Final
  <2> QED BY <2>1, <2>2, <2>3 DEF Next, Inner, Leave
<1> QED BY <1>1, <1>2, Inductive, PTL DEF Spec, OutcomesHold, Outcome!Spec
============================================================================
