------------------------- MODULE Generational_proofs -------------------------
(***************************************************************************)
(* Proofs about the generational engine, for any population, any bounds    *)
(* and any number of failures and crashes: the inductive invariant of      *)
(* Generational, one lemma per action, and what follows from it.           *)
(***************************************************************************)
EXTENDS Generational, TLAPS

USE DEF In, Became, Active, Unseen

LEMMA InitInv == Init => IInv
<1> SUFFICES ASSUME Init PROVE IInv
  OBVIOUS
<1>1. TypeOK
  <2>1. known \in BOOLEAN /\ pending \in BOOLEAN /\ blind \in BOOLEAN
    BY DEF Init
  <2>2. blob \in [Programs -> States] /\ index \in [Programs -> States]
    BY DEF Init, States
  <2> QED
    BY <2>1, <2>2, GenerationalAssumption DEF Init, TypeOK, Phases
<1>2. Bounded
  BY GenerationalAssumption DEF Init, Bounded
<1> QED
  BY <1>1, <1>2 DEF Init, IInv, Agreed, Overlooked, Phased, Ingesting,
                    NoneUnseen, NothingLeft

(* A step begins. *)
LEMMA StartInv == ASSUME IInv, Start PROVE IInv'
<1> USE DEF redis, ingestion, memory, history
<1>1. TypeOK'
  BY GenerationalAssumption DEF IInv, Start, TypeOK, Bounded, Phases, States
<1>2. Bounded'
  BY GenerationalAssumption DEF IInv, Start, TypeOK, Bounded
<1>3. Agreed'
  BY DEF IInv, Start, TypeOK, Agreed
<1>4. Overlooked'
  BY DEF IInv, Start, TypeOK, Overlooked
<1>5. Phased'
  BY DEF IInv, Start, TypeOK, Phased
<1>6. Ingesting'
  BY DEF IInv, Start, Ingesting
<1>7. NoneUnseen'
  BY DEF IInv, Start, NoneUnseen
<1>8. NothingLeft'
  BY DEF IInv, Start, NothingLeft
<1> QED
  BY <1>1, <1>2, <1>3, <1>4, <1>5, <1>6, <1>7, <1>8 DEF IInv

(* A count of a waiting engine has come back. *)
LEMMA IdleInv == ASSUME IInv, Idle PROVE IInv'
<1> USE DEF redis, ingestion, memory, history
<1>1. TypeOK'
  BY GenerationalAssumption DEF IInv, Idle, AfterWait, TypeOK, Bounded, Phases, States
<1>2. Bounded'
  BY GenerationalAssumption DEF IInv, Idle, AfterWait, TypeOK, Bounded
<1>3. Agreed'
  BY DEF IInv, Idle, AfterWait, TypeOK, Agreed
<1>4. Overlooked'
  BY DEF IInv, Idle, AfterWait, TypeOK, Overlooked
<1>5. Phased'
  BY DEF IInv, Idle, AfterWait, TypeOK, Phased
<1>6. Ingesting'
  BY DEF IInv, Idle, AfterWait, Ingesting
<1>7. NoneUnseen'
  BY DEF IInv, Idle, AfterWait, NoneUnseen
<1>8. NothingLeft'
  BY DEF IInv, Idle, AfterWait, NothingLeft
<1> QED
  BY <1>1, <1>2, <1>3, <1>4, <1>5, <1>6, <1>7, <1>8 DEF IInv

(* Mutants are created. *)
LEMMA MutateInv == ASSUME IInv, Mutate PROVE IInv'
<1> USE DEF redis, ingestion, memory, history
<1>1. TypeOK'
  <2>1. known' \in BOOLEAN /\ pending' \in BOOLEAN /\ blind' \in BOOLEAN
    BY DEF Mutate, IInv, TypeOK
  <2>2. blob' \in [Programs -> States] /\ index' \in [Programs -> States]
    BY DEF Mutate, IInv, TypeOK, States
  <2>3. UNCHANGED <<zeros, gen, saved, archive, ingestion, judged, missed, errors, crashes>>
    BY DEF Mutate
  <2>4. pc' \in Phases /\ empties' \in 0..MaxEmpty /\ mutants' \subseteq Programs
    BY GenerationalAssumption DEF IInv, Mutate, TypeOK, Bounded, Phases
  <2> QED
    BY <2>1, <2>2, <2>3, <2>4 DEF IInv, TypeOK
<1>2. Bounded'
  BY GenerationalAssumption DEF IInv, Mutate, TypeOK, Bounded
<1>3. Agreed'
  BY DEF IInv, Mutate, TypeOK, Agreed
<1>4. Overlooked'
  BY DEF IInv, Mutate, TypeOK, Overlooked
<1>5. Phased'
  BY DEF IInv, Mutate, TypeOK, Phased
<1>6. Ingesting'
  BY DEF IInv, Mutate, Ingesting
<1>7. NoneUnseen'
  BY DEF IInv, Mutate, NoneUnseen, Phased
<1>8. NothingLeft'
  BY DEF IInv, Mutate, NothingLeft
<1> QED
  BY <1>1, <1>2, <1>3, <1>4, <1>5, <1>6, <1>7, <1>8 DEF IInv

(* Leftovers are set apart. *)
LEMMA IngestInv == ASSUME IInv, Ingest PROVE IInv'
<1> USE DEF redis, ingestion, memory, history
<1>1. TypeOK'
  <2>1. known' \in BOOLEAN /\ pending' \in BOOLEAN /\ blind' \in BOOLEAN
    BY DEF Ingest, IInv, TypeOK
  <2>2. blob' \in [Programs -> States] /\ index' \in [Programs -> States]
    BY DEF Ingest, IInv, TypeOK, States
  <2> QED
    BY <2>1, <2>2, GenerationalAssumption DEF IInv, Ingest, TypeOK, Bounded, Ingested, Phases
<1>2. Bounded'
  BY GenerationalAssumption DEF IInv, Ingest, TypeOK, Bounded, Ingested
<1>3. Agreed'
  BY DEF IInv, Ingest, TypeOK, Agreed, Ingested
<1>4. Overlooked'
  BY DEF IInv, Ingest, TypeOK, Overlooked, Ingested
<1>5. Phased'
  BY DEF IInv, Ingest, TypeOK, Phased, Ingested
<1>6. Ingesting'
  BY DEF IInv, Ingest, TypeOK, Ingesting, Ingested
<1>7. NoneUnseen'
  BY DEF IInv, Ingest, TypeOK, NoneUnseen, Overlooked
<1>8. NothingLeft'
  BY DEF IInv, Ingest, TypeOK, NothingLeft
<1> QED
  BY <1>1, <1>2, <1>3, <1>4, <1>5, <1>6, <1>7, <1>8 DEF IInv

(* The acceptor judges. *)
LEMMA JudgeInv == ASSUME IInv, Judge PROVE IInv'
<1> USE DEF redis, ingestion, memory, history
<1>1. TypeOK'
  BY GenerationalAssumption DEF IInv, Judge, TypeOK, Bounded, Phases, States
<1>2. Bounded'
  BY GenerationalAssumption DEF IInv, Judge, TypeOK, Bounded
<1>3. Agreed'
  BY DEF IInv, Judge, TypeOK, Agreed
<1>4. Overlooked'
  BY DEF IInv, Judge, TypeOK, Overlooked
<1>5. Phased'
  BY DEF IInv, Judge, TypeOK, Phased
<1>6. Ingesting'
  BY DEF IInv, Judge, Ingesting, Agreed
<1>7. NoneUnseen'
  BY DEF IInv, Judge, NoneUnseen, Ingesting, Agreed
<1>8. NothingLeft'
  BY DEF IInv, Judge, NothingLeft
<1> QED
  BY <1>1, <1>2, <1>3, <1>4, <1>5, <1>6, <1>7, <1>8 DEF IInv

(* The strategy admits a batch. *)
LEMMA AdmitInv == ASSUME IInv, Admit PROVE IInv'
<1> USE DEF redis, ingestion, memory, history
<1>1. TypeOK'
  <2>1. known' \in BOOLEAN /\ pending' \in BOOLEAN /\ blind' \in BOOLEAN
    BY DEF Admit, IInv, TypeOK
  <2>2. blob' \in [Programs -> States] /\ index' \in [Programs -> States]
    BY DEF Admit, IInv, TypeOK, States
  <2> QED
    BY <2>1, <2>2, GenerationalAssumption DEF IInv, Admit, TypeOK, Bounded, Phases
<1>2. Bounded'
  BY GenerationalAssumption DEF IInv, Admit, TypeOK, Bounded
<1>3. Agreed'
  BY DEF IInv, Admit, TypeOK, Agreed
<1>4. Overlooked'
  BY DEF IInv, Admit, TypeOK, Overlooked
<1>5. Phased'
  BY DEF IInv, Admit, TypeOK, Phased
<1>6. Ingesting'
  BY DEF IInv, Admit, TypeOK, Ingesting, NoneUnseen
<1>7. NoneUnseen'
  BY DEF IInv, Admit, TypeOK, NoneUnseen, Ingesting
<1>8. NothingLeft'
  BY DEF IInv, Admit, NothingLeft
<1> QED
  BY <1>1, <1>2, <1>3, <1>4, <1>5, <1>6, <1>7, <1>8 DEF IInv

(* The rejected are discarded. *)
LEMMA DiscardInv == ASSUME IInv, Discard PROVE IInv'
<1> USE DEF redis, ingestion, memory, history
<1>1. TypeOK'
  <2>1. known' \in BOOLEAN /\ pending' \in BOOLEAN /\ blind' \in BOOLEAN
    BY DEF Discard, IInv, TypeOK
  <2>2. blob' \in [Programs -> States] /\ index' \in [Programs -> States]
    BY DEF Discard, IInv, TypeOK, States
  <2> QED
    BY <2>1, <2>2, GenerationalAssumption DEF IInv, Discard, TypeOK, Bounded, Ingested, Phases
<1>2. Bounded'
  BY GenerationalAssumption DEF IInv, Discard, TypeOK, Bounded, Ingested
<1>3. Agreed'
  BY DEF IInv, Discard, TypeOK, Agreed, Ingested
<1>4. Overlooked'
  BY DEF IInv, Discard, TypeOK, Overlooked, Ingested
<1>5. Phased'
  BY DEF IInv, Discard, TypeOK, Phased, Ingested
<1>6. Ingesting'
  BY DEF IInv, Discard, Ingesting, Ingested
<1>7. NoneUnseen'
  BY DEF IInv, Discard, TypeOK, NoneUnseen
<1>8. NothingLeft'
  BY DEF IInv, Discard, TypeOK, NothingLeft, Agreed, Ingesting
<1> QED
  BY <1>1, <1>2, <1>3, <1>4, <1>5, <1>6, <1>7, <1>8 DEF IInv

(* The archive is queued again. *)
LEMMA RefreshInv == ASSUME IInv, Refresh PROVE IInv'
<1> USE DEF redis, ingestion, memory, history
<1>1. TypeOK'
  BY GenerationalAssumption DEF IInv, Refresh, TypeOK, Bounded, Phases, States
<1>2. Bounded'
  BY GenerationalAssumption DEF IInv, Refresh, TypeOK, Bounded
<1>3. Agreed'
  BY DEF IInv, Refresh, TypeOK, Agreed
<1>4. Overlooked'
  BY DEF IInv, Refresh, TypeOK, Overlooked
<1>5. Phased'
  BY DEF IInv, Refresh, TypeOK, Phased
<1>6. Ingesting'
  BY DEF IInv, Refresh, Ingesting
<1>7. NoneUnseen'
  BY DEF IInv, Refresh, TypeOK, NoneUnseen
<1>8. NothingLeft'
  BY DEF IInv, Refresh, NothingLeft
<1> QED
  BY <1>1, <1>2, <1>3, <1>4, <1>5, <1>6, <1>7, <1>8 DEF IInv

(* The archive is re-indexed. *)
LEMMA ReindexInv == ASSUME IInv, Reindex PROVE IInv'
<1> USE DEF redis, ingestion, memory, history
<1>1. TypeOK'
  BY GenerationalAssumption DEF IInv, Reindex, TypeOK, Bounded, Phases, States
<1>2. Bounded'
  BY GenerationalAssumption DEF IInv, Reindex, TypeOK, Bounded
<1>3. Agreed'
  BY DEF IInv, Reindex, TypeOK, Agreed
<1>4. Overlooked'
  BY DEF IInv, Reindex, TypeOK, Overlooked
<1>5. Phased'
  BY DEF IInv, Reindex, TypeOK, Phased
<1>6. Ingesting'
  BY DEF IInv, Reindex, Ingesting
<1>7. NoneUnseen'
  BY DEF IInv, Reindex, NoneUnseen
<1>8. NothingLeft'
  BY DEF IInv, Reindex, NothingLeft
<1> QED
  BY <1>1, <1>2, <1>3, <1>4, <1>5, <1>6, <1>7, <1>8 DEF IInv

(* The generation is counted. *)
LEMMA CountInv == ASSUME IInv, Count PROVE IInv'
<1> USE DEF redis, ingestion, memory, history
<1>1. TypeOK'
  BY GenerationalAssumption DEF IInv, Count, TypeOK, Bounded, Phases, States
<1>2. Bounded'
  BY GenerationalAssumption DEF IInv, Count, TypeOK, Bounded
<1>3. Agreed'
  BY DEF IInv, Count, TypeOK, Agreed
<1>4. Overlooked'
  BY DEF IInv, Count, TypeOK, Overlooked
<1>5. Phased'
  BY DEF IInv, Count, TypeOK, Phased
<1>6. Ingesting'
  BY DEF IInv, Count, Ingesting
<1>7. NoneUnseen'
  BY DEF IInv, Count, NoneUnseen
<1>8. NothingLeft'
  BY DEF IInv, Count, NothingLeft
<1> QED
  BY <1>1, <1>2, <1>3, <1>4, <1>5, <1>6, <1>7, <1>8 DEF IInv

(* The counter is saved. *)
LEMMA SaveInv == ASSUME IInv, Save PROVE IInv'
<1> USE DEF redis, ingestion, memory, history
<1>1. TypeOK'
  BY GenerationalAssumption DEF IInv, Save, TypeOK, Bounded, Phases, States
<1>2. Bounded'
  BY GenerationalAssumption DEF IInv, Save, TypeOK, Bounded
<1>3. Agreed'
  BY DEF IInv, Save, TypeOK, Agreed
<1>4. Overlooked'
  BY DEF IInv, Save, TypeOK, Overlooked
<1>5. Phased'
  BY DEF IInv, Save, TypeOK, Phased
<1>6. Ingesting'
  BY DEF IInv, Save, Ingesting
<1>7. NoneUnseen'
  BY DEF IInv, Save, NoneUnseen
<1>8. NothingLeft'
  BY DEF IInv, Save, NothingLeft
<1> QED
  BY <1>1, <1>2, <1>3, <1>4, <1>5, <1>6, <1>7, <1>8 DEF IInv

(* The step fails. *)
LEMMA FailInv == ASSUME IInv, Fail PROVE IInv'
<1> USE DEF redis, ingestion, memory, history
<1>1. TypeOK'
  BY GenerationalAssumption DEF IInv, Fail, TypeOK, Bounded, Phases, States
<1>2. Bounded'
  BY GenerationalAssumption DEF IInv, Fail, TypeOK, Bounded
<1>3. Agreed'
  BY DEF IInv, Fail, TypeOK, Agreed
<1>4. Overlooked'
  BY DEF IInv, Fail, TypeOK, Overlooked
<1>5. Phased'
  BY DEF IInv, Fail, TypeOK, Phased
<1>6. Ingesting'
  BY DEF IInv, Fail, Ingesting
<1>7. NoneUnseen'
  BY DEF IInv, Fail, TypeOK, NoneUnseen
<1>8. NothingLeft'
  BY DEF IInv, Fail, NothingLeft
<1> QED
  BY <1>1, <1>2, <1>3, <1>4, <1>5, <1>6, <1>7, <1>8 DEF IInv

(* The process dies and is resumed. *)
LEMMA CrashInv == ASSUME IInv, Crash PROVE IInv'
<1> USE DEF redis, ingestion, memory, history
<1>1. TypeOK'
  <2>1. known' \in BOOLEAN /\ pending' \in BOOLEAN /\ blind' \in BOOLEAN
    BY DEF Crash, IInv, TypeOK
  <2>2. blob' \in [Programs -> States] /\ index' \in [Programs -> States]
    BY DEF Crash, IInv, TypeOK, States
  <2> QED
    BY <2>1, <2>2, GenerationalAssumption DEF IInv, Crash, TypeOK, Bounded, Phases
<1>2. Bounded'
  BY GenerationalAssumption DEF IInv, Crash, TypeOK, Bounded
<1>3. Agreed'
  BY DEF IInv, Crash, TypeOK, Agreed
<1>4. Overlooked'
  BY DEF IInv, Crash, TypeOK, Overlooked
<1>5. Phased'
  BY DEF IInv, Crash, TypeOK, Phased
<1>6. Ingesting'
  BY DEF IInv, Crash, Ingesting
<1>7. NoneUnseen'
  BY DEF IInv, Crash, NoneUnseen
<1>8. NothingLeft'
  BY DEF IInv, Crash, NothingLeft
<1> QED
  BY <1>1, <1>2, <1>3, <1>4, <1>5, <1>6, <1>7, <1>8 DEF IInv

(* The DAG runner takes or returns a program. *)
LEMMA RunnerInv == ASSUME IInv, NEW p \in Programs, Runner(p) PROVE IInv'
<1> USE DEF redis, ingestion, memory, history
<1>1. TypeOK'
  BY GenerationalAssumption DEF IInv, Runner, Launch, Evaluate, TypeOK, Bounded, Phases, States
<1>2. Bounded'
  BY GenerationalAssumption DEF IInv, Runner, Launch, Evaluate, TypeOK, Bounded
<1>3. Agreed'
  BY DEF IInv, Runner, Launch, Evaluate, TypeOK, Agreed
<1>4. Overlooked'
  BY DEF IInv, Runner, Launch, Evaluate, TypeOK, Overlooked
<1>5. Phased'
  BY DEF IInv, Runner, Launch, Evaluate, TypeOK, Phased
<1>6. Ingesting'
  BY DEF IInv, Runner, Launch, Evaluate, Ingesting, Overlooked
<1>7. NoneUnseen'
  BY DEF IInv, Runner, Launch, Evaluate, NoneUnseen
<1>8. NothingLeft'
  BY DEF IInv, Runner, Launch, Evaluate, NothingLeft, Overlooked
<1> QED
  BY <1>1, <1>2, <1>3, <1>4, <1>5, <1>6, <1>7, <1>8 DEF IInv

LEMMA NextInv == IInv /\ [Next]_vars => IInv'
<1> SUFFICES ASSUME IInv, [Next]_vars PROVE IInv'
  OBVIOUS
<1>1. CASE Engine
  BY <1>1, StartInv, IdleInv, MutateInv, IngestInv, JudgeInv, AdmitInv, DiscardInv,
     RefreshInv, ReindexInv, CountInv, SaveInv DEF Engine
<1>2. CASE Fail
  BY <1>2, FailInv
<1>3. CASE Crash
  BY <1>3, CrashInv
<1>4. CASE \E p \in Programs : Runner(p)
  BY <1>4, RunnerInv
<1>5. CASE UNCHANGED vars
  BY <1>5 DEF vars, redis, ingestion, memory, history, IInv, TypeOK, Bounded, Agreed,
              Overlooked, Phased, Ingesting, NoneUnseen, NothingLeft
<1> QED
  BY <1>1, <1>2, <1>3, <1>4, <1>5 DEF Next

(* The invariant of the generational engine holds in every reachable state *)
(* (core.py, EvolutionEngine.step and what it calls).                      *)
THEOREM Inductive == Spec => []IInv
<1> QED
  BY InitInv, NextInv, PTL DEF Spec

(* The engine's state is well typed; the counter never passes its bound.   *)
THEOREM TypeCorrect == Spec => []TypeOK
<1>1. IInv => TypeOK
  BY DEF IInv
<1> QED
  BY <1>1, Inductive, PTL

(* An ingestion without errors leaves nothing finished outside the archive *)
(* but what was still active when it began (_ingest_completed_programs).   *)
THEOREM NothingIsLeft == Spec => []NothingLeft
<1>1. IInv => NothingLeft
  BY DEF IInv
<1> QED
  BY <1>1, Inductive, PTL

(* Without errors every evaluated program that no wait for idleness has     *)
(* overlooked is shown to the acceptor first, crashes included.            *)
THEOREM JudgedIsFirst == Spec => JudgedFirst
<1> DEFINE Seen == \A p \in Programs \ missed :
             errors = 0 /\ index[p] = "DONE" /\ index'[p] = "DISCARDED" => p \in judged
<1> USE DEF redis, ingestion, memory, history
<1>1. ASSUME IInv, Ingest PROVE Seen
  BY <1>1 DEF IInv, TypeOK, Ingest, Phased, NoneUnseen
<1>2. ASSUME IInv, Discard PROVE Seen
  BY <1>2 DEF IInv, TypeOK, Discard, Ingesting
<1>3. ASSUME IInv, Start \/ Idle \/ Judge \/ Admit \/ Reindex \/ Count \/ Save \/ Fail
      PROVE Seen
  BY <1>3 DEF Start, Idle, Judge, Admit, Reindex, Count, Save, Fail
<1>4. ASSUME IInv, Mutate \/ Refresh \/ Crash PROVE Seen
  BY <1>4 DEF IInv, TypeOK, Mutate, Refresh, Crash
<1>5. ASSUME IInv, NEW p \in Programs, Runner(p) PROVE Seen
  BY <1>5 DEF IInv, TypeOK, Runner, Launch, Evaluate
<1>6. IInv /\ [Next]_vars => [Seen]_vars
  BY <1>1, <1>2, <1>3, <1>4, <1>5 DEF Next, Engine
<1> QED
  BY <1>6, Inductive, PTL DEF Spec, JudgedFirst

(* No program is discarded while it is active in the archive, unless an    *)
(* admission failed and the active ids could not be read.                  *)
THEOREM ElitesAreSpared == Spec => ElitesSpared
<1> DEFINE Spared == \A p \in Programs :
             ~blind /\ index[p] = "DONE" /\ index'[p] = "DISCARDED" => p \notin archive'
<1> USE DEF redis, ingestion, memory, history
<1>1. ASSUME IInv, Ingest PROVE Spared
  BY <1>1 DEF IInv, TypeOK, Ingest
<1>2. ASSUME IInv, Discard PROVE Spared
  BY <1>2 DEF IInv, TypeOK, Discard, Ingesting
<1>3. ASSUME IInv, Start \/ Idle \/ Judge \/ Admit \/ Reindex \/ Count \/ Save \/ Fail
      PROVE Spared
  BY <1>3 DEF Start, Idle, Judge, Admit, Reindex, Count, Save, Fail
<1>4. ASSUME IInv, Mutate \/ Refresh \/ Crash PROVE Spared
  BY <1>4 DEF IInv, TypeOK, Mutate, Refresh, Crash
<1>5. ASSUME IInv, NEW p \in Programs, Runner(p) PROVE Spared
  BY <1>5 DEF IInv, TypeOK, Runner, Launch, Evaluate
<1>6. IInv /\ [Next]_vars => [Spared]_vars
  BY <1>1, <1>2, <1>3, <1>4, <1>5 DEF Next, Engine
<1> QED
  BY <1>6, Inductive, PTL DEF Spec, ElitesSpared

=============================================================================
