---------------------------- MODULE Generational ----------------------------
(***************************************************************************)
(* The generational engine (EvolutionEngine): a step waits until nothing   *)
(* is being evaluated, selects elites and creates mutants, waits for their *)
(* evaluation, ingests them, sends the archive's programs through their    *)
(* DAGs again and re-indexes the archive.  The DAG runner works beside it. *)
(* A step that raises is logged and the next one begins; a crash loses     *)
(* what the engine remembers, and a resumed run first ingests what it      *)
(* finds.                                                                  *)
(*                                                                         *)
(* The strategy is abstracted to its archive, a set of programs that an    *)
(* admission or a re-indexing changes as it pleases.  A program's state is *)
(* kept twice, in its blob and in the status sets.                         *)
(***************************************************************************)
EXTENDS Naturals, FiniteSets

CONSTANTS Programs,
          Initial,         \* the initial population
          MaxMutations,    \* config.max_mutations_per_generation
          MaxEmpty,        \* _MAX_CONSECUTIVE_EMPTY_MUTATION_GENERATIONS
          MaxGenerations,  \* the stopper's bound on generations
          MaxErrors,       \* bound: operations that fail
          MaxCrashes       \* bound: crashes of the process

ASSUME GenerationalAssumption ==
    /\ Initial \subseteq Programs
    /\ {MaxMutations, MaxEmpty, MaxGenerations} \subseteq Nat \ {0}
    /\ {MaxErrors, MaxCrashes} \subseteq Nat

VARIABLES
    pc,         \* where step() is
    zeros,      \* memory: the counts of a waiting engine's round that were zero
    gen,        \* memory: metrics.total_generations
    saved,      \* Redis: its saved copy
    blob,       \* Redis: the state a program's blob gives
    index,      \* Redis: the status set a program is in
    archive,    \* the strategy's active programs
    known,      \* memory: whether this step has created mutants,
    mutants,    \* memory: and which (mutation_ids)
    pending,    \* memory: _resume_ingest_pending
    empties,    \* memory: consecutive generations without a mutant
    incumbents, \* memory: the active ids an ingestion began with
    fresh,      \* memory: the programs it looks at, then those eligible
    rejects,    \* memory: the programs it is going to discard
    judged,     \* history: programs the acceptor or the strategy has seen
    missed,     \* history: programs that were active when a wait for idleness
                \* returned, until an ingestion has met them
    blind,      \* history: an admission failed and so did its reconciliation
    errors, crashes

redis == <<saved, blob, index, archive>>
ingestion == <<incumbents, fresh, rejects>>
memory == <<zeros, gen, known, mutants, pending, empties>>
history == <<judged, missed, blind, errors, crashes>>
vars == <<pc, redis, ingestion, memory, history>>

States == {"NEW", "QUEUED", "RUNNING", "DONE", "DISCARDED"}
In(s) == {p \in Programs : index[p] = s}
Became(f, P, s) == [p \in Programs |-> IF p \in P THEN s ELSE f[p]]

Active == In("QUEUED") \union In("RUNNING")

Phases == {"start", "idle", "resume", "mutate", "wait", "ingest", "judge", "admit",
           "discard", "refresh", "settle", "reindex", "count", "save", "stopped"}

TypeOK ==
    /\ pc \in Phases
    /\ gen \in 0..MaxGenerations /\ saved \in 0..MaxGenerations
    /\ blob \in [Programs -> States] /\ index \in [Programs -> States]
    /\ archive \subseteq Programs /\ mutants \subseteq Programs
    /\ incumbents \subseteq Programs /\ fresh \subseteq Programs
    /\ rejects \subseteq Programs /\ judged \subseteq Programs
    /\ missed \subseteq Programs /\ zeros \in SUBSET {"QUEUED", "RUNNING"}
    /\ known \in BOOLEAN /\ pending \in BOOLEAN /\ blind \in BOOLEAN
    /\ empties \in 0..MaxEmpty
    /\ errors \in 0..MaxErrors /\ crashes \in 0..MaxCrashes

Init ==
    /\ pc = "start" /\ gen = 0 /\ saved = 0
    /\ blob = [p \in Programs |-> IF p \in Initial THEN "QUEUED" ELSE "NEW"]
    /\ index = blob
    /\ archive = {} /\ mutants = {} /\ known = FALSE
    /\ pending = FALSE /\ empties = 0
    /\ incumbents = {} /\ fresh = {} /\ rejects = {}
    /\ judged = {} /\ missed = {} /\ zeros = {} /\ blind = FALSE
    /\ errors = 0 /\ crashes = 0

----------------------------------------------------------------------------
(* The step, phase by phase.                                               *)

Start ==
    /\ pc = "start"
    /\ pc' = IF gen >= MaxGenerations THEN "stopped" ELSE "idle"
    /\ known' = FALSE /\ mutants' = {}
    /\ UNCHANGED <<redis, ingestion, zeros, gen, pending, empties, history>>

AfterWait == CASE pc = "idle" -> IF pending THEN "resume" ELSE "mutate"
               [] pc = "wait" -> "ingest"
               [] pc = "settle" -> "reindex"

\* Phases 1, 3 and 5: wait until both counts of a round are zero.  The two
\* commands go out on two connections and are answered in either order;
\* between them the DAG runner may move a program from one set to the other,
\* past both counts.
Idle ==
    /\ pc \in {"idle", "wait", "settle"}
    /\ \E s \in {"QUEUED", "RUNNING"} \ zeros :
         \/ /\ In(s) = {} /\ zeros = {}
            /\ zeros' = {s}
            /\ UNCHANGED <<pc, missed>>
         \/ /\ In(s) = {} /\ zeros # {}
            /\ zeros' = {} /\ pc' = AfterWait
            /\ missed' = missed \union Active
         \/ /\ In(s) # {} /\ zeros # {}
            /\ zeros' = {}
            /\ UNCHANGED <<pc, missed>>
    /\ UNCHANGED <<redis, ingestion, gen, known, mutants, pending, empties, judged, blind,
                   errors, crashes>>

\* Phase 2: mutants of the elites, if there are any.
Mutate ==
    /\ pc = "mutate"
    /\ IF archive = {}
       THEN /\ pc' = "wait"
            /\ UNCHANGED <<redis, memory>>
       ELSE \E M \in SUBSET In("NEW") :
              /\ Cardinality(M) <= MaxMutations
              /\ blob' = Became(blob, M, "QUEUED")
              /\ index' = Became(index, M, "QUEUED")
              /\ known' = TRUE /\ mutants' = M
              /\ empties' = IF M = {} THEN empties + 1 ELSE 0
              /\ pc' = IF M = {} /\ empties + 1 >= MaxEmpty THEN "stopped" ELSE "wait"
              /\ UNCHANGED <<saved, archive, zeros, gen, pending>>
    /\ UNCHANGED <<ingestion, history>>

\* Where an ingestion that is over returns to.
Ingested == IF pending THEN "mutate" ELSE "refresh"

\* Phase 4, and the ingestion of a resumed run: the finished programs that
\* are not in the archive.  If mutants were created, the others are leftovers
\* and are moved to the discarded set; only the set is written.
Ingest ==
    /\ pc \in {"ingest", "resume"}
    /\ LET others == In("DONE") \ archive
           stale == IF known THEN others \ mutants ELSE {} IN
       /\ \/ index' = Became(index, stale, "DISCARDED") /\ UNCHANGED errors
          \/ stale # {} /\ errors < MaxErrors /\ errors' = errors + 1 /\ UNCHANGED index
       /\ incumbents' = archive
       /\ fresh' = others \ stale
       /\ missed' = missed \ In("DONE")
       /\ IF others \ stale = {}
          THEN pc' = Ingested /\ pending' = FALSE
          ELSE pc' = "judge" /\ UNCHANGED pending
    /\ UNCHANGED <<saved, blob, archive, rejects, zeros, gen, known, mutants, empties,
                   judged, blind, crashes>>

\* The acceptor looks at those whose blob says DONE.
Judge ==
    /\ pc = "judge"
    /\ LET completed == {p \in fresh : blob[p] = "DONE"} IN
       \E E \in SUBSET completed :
         /\ judged' = judged \union completed
         /\ fresh' = E
         /\ rejects' = completed \ E
         /\ pc' = IF E = {} THEN "discard" ELSE "admit"
    /\ UNCHANGED <<redis, incumbents, memory, missed, blind, errors, crashes>>

\* Mutant: the batch is settled by what the additions returned or raised.
AdmitAsReturned ==
    /\ pc = "admit"
    /\ \E A \in SUBSET (archive \union fresh), E \in SUBSET fresh :
         /\ archive' = A
         /\ rejects' = rejects \union E \union (incumbents \ A)
    /\ pc' = "discard"
    /\ UNCHANGED <<saved, blob, index, incumbents, fresh, memory, judged, missed, blind,
                   errors, crashes>>

\* Mutant: incumbents that were displaced are forgotten.
AdmitForgetsDisplaced ==
    /\ pc = "admit"
    /\ \E A \in SUBSET (archive \union fresh) :
         archive' = A /\ rejects' = rejects \union (fresh \ A)
    /\ pc' = "discard"
    /\ UNCHANGED <<saved, blob, index, incumbents, fresh, memory, judged, missed, blind,
                   errors, crashes>>

\* The strategy admits the batch, one program after the other; an addition
\* that fails rejects its program, and whatever the additions did, the batch
\* is settled against the active ids.  If these cannot be read, every
\* newcomer is rejected.
Admit ==
    /\ pc = "admit"
    /\ \E A \in SUBSET (archive \union fresh) :
         /\ archive' = A
         /\ \/ /\ rejects' = rejects \union (fresh \ A) \union (incumbents \ A)
               /\ UNCHANGED <<blind, errors>>
            \/ /\ errors < MaxErrors /\ errors' = errors + 1
               /\ rejects' = rejects \union fresh
               /\ blind' = TRUE
    /\ pc' = "discard"
    /\ UNCHANGED <<saved, blob, index, incumbents, fresh, memory, judged, missed, crashes>>

\* Those of the rejected that are DONE are discarded; a failure is logged.
Discard ==
    /\ pc = "discard"
    /\ LET gone == {p \in rejects : blob[p] = "DONE"} IN
       \/ /\ blob' = Became(blob, gone, "DISCARDED")
          /\ index' = Became(index, gone, "DISCARDED")
          /\ UNCHANGED errors
       \/ /\ errors < MaxErrors /\ errors' = errors + 1
          /\ UNCHANGED <<blob, index>>
    /\ incumbents' = {} /\ fresh' = {} /\ rejects' = {}
    /\ pending' = FALSE
    /\ pc' = Ingested
    /\ UNCHANGED <<saved, archive, zeros, gen, known, mutants, empties, judged, missed,
                   blind, crashes>>

\* Phase 5: the archive's programs are queued again.  When the operation
\* fails, or its answer is lost and the repetition finds nothing to do, the
\* engine believes that nothing was refreshed.
Refresh ==
    /\ pc = "refresh"
    /\ LET again == {p \in archive : blob[p] = "DONE"} IN
       \/ /\ blob' = Became(blob, again, "QUEUED")
          /\ index' = Became(index, again, "QUEUED")
          /\ pc' = IF again = {} THEN "count" ELSE "settle"
          /\ UNCHANGED errors
       \/ /\ errors < MaxErrors /\ errors' = errors + 1
          /\ \E P \in {{}, again} : /\ blob' = Became(blob, P, "QUEUED")
                                    /\ index' = Became(index, P, "QUEUED")
          /\ pc' = "count"
    /\ UNCHANGED <<saved, archive, ingestion, memory, judged, missed, blind, crashes>>

\* Phase 7: programs whose new cells collide leave the archive.
Reindex ==
    /\ pc = "reindex"
    /\ \E A \in SUBSET archive : (A = {} <=> archive = {}) /\ archive' = A
    /\ pc' = "count"
    /\ UNCHANGED <<saved, blob, index, ingestion, memory, history>>

\* Mutant: a generation counts only if the archive holds something.
CountProductive ==
    /\ pc = "count"
    /\ gen' = IF archive = {} THEN gen ELSE gen + 1
    /\ pc' = "save"
    /\ UNCHANGED <<redis, ingestion, zeros, known, mutants, pending, empties, history>>

Count ==
    /\ pc = "count"
    /\ gen' = gen + 1
    /\ pc' = "save"
    /\ UNCHANGED <<redis, ingestion, zeros, known, mutants, pending, empties, history>>

Save ==
    /\ pc = "save"
    /\ saved' = gen
    /\ pc' = "start"
    /\ UNCHANGED <<blob, index, archive, ingestion, memory, history>>

\* An operation raises: the step ends, the engine goes on with the next.
Fail ==
    /\ pc \in {"idle", "resume", "mutate", "wait", "ingest", "judge", "refresh",
               "settle", "reindex", "save"}
    /\ errors < MaxErrors /\ errors' = errors + 1
    /\ pc' = "start" /\ zeros' = {}
    /\ incumbents' = {} /\ fresh' = {} /\ rejects' = {}
    /\ UNCHANGED <<redis, gen, known, mutants, pending, empties, judged, missed, blind,
                   crashes>>

\* Mutant: a resumed run goes straight to its next mutants.
CrashWithoutIngestion ==
    /\ pc # "stopped" /\ crashes < MaxCrashes
    /\ crashes' = crashes + 1
    /\ blob' = Became(blob, In("RUNNING"), "QUEUED")
    /\ index' = Became(index, In("RUNNING"), "QUEUED")
    /\ gen' = saved /\ pending' = FALSE
    /\ pc' = "start" /\ empties' = 0 /\ known' = FALSE /\ mutants' = {}
    /\ incumbents' = {} /\ fresh' = {} /\ rejects' = {}
    /\ zeros' = {} /\ missed' = {}
    /\ UNCHANGED <<saved, archive, judged, blind, errors>>

\* The process dies and the run is resumed: programs that were being
\* evaluated are queued again (recover_stranded_programs), the counter is
\* read back and an ingestion is due (restore_state).
Crash ==
    /\ pc # "stopped" /\ crashes < MaxCrashes
    /\ crashes' = crashes + 1
    /\ blob' = Became(blob, In("RUNNING"), "QUEUED")
    /\ index' = Became(index, In("RUNNING"), "QUEUED")
    /\ gen' = saved /\ pending' = TRUE
    /\ pc' = "start" /\ empties' = 0 /\ known' = FALSE /\ mutants' = {}
    /\ incumbents' = {} /\ fresh' = {} /\ rejects' = {}
    /\ zeros' = {} /\ missed' = {}
    /\ UNCHANGED <<saved, archive, judged, blind, errors>>

----------------------------------------------------------------------------
(* The DAG runner.                                                         *)

Launch(p) ==
    /\ index[p] = "QUEUED"
    /\ blob' = Became(blob, {p}, "RUNNING") /\ index' = Became(index, {p}, "RUNNING")
    /\ UNCHANGED <<pc, saved, archive, ingestion, memory, history>>

Evaluate(p) ==
    /\ index[p] = "RUNNING"
    /\ \E s \in {"DONE", "DISCARDED"} :
         blob' = Became(blob, {p}, s) /\ index' = Became(index, {p}, s)
    /\ UNCHANGED <<pc, saved, archive, ingestion, memory, history>>

----------------------------------------------------------------------------
Engine == \/ Start \/ Idle \/ Mutate \/ Ingest \/ Judge \/ Admit \/ Discard
          \/ Refresh \/ Reindex \/ Count \/ Save
Runner(p) == Launch(p) \/ Evaluate(p)

Next == Engine \/ Fail \/ Crash \/ \E p \in Programs : Runner(p)

Spec == Init /\ [][Next]_vars

\* The engine's task runs whenever it can, and the DAG runner evaluates
\* every program it finds (a stage that hangs is ended by its timeout).
FairSpec == Spec /\ WF_vars(Engine) /\ \A p \in Programs : WF_vars(Runner(p))

----------------------------------------------------------------------------
(* Properties.                                                             *)

\* Leftovers are discarded without being looked at, so nothing may become a
\* leftover unseen: as long as no operation fails, a program whose evaluation
\* succeeded is discarded only after the acceptor has seen it, also when the
\* process dies between the creation of a mutant and its ingestion.  Only a
\* program that a wait for idleness overlooked is lost this way.
JudgedFirst ==
    [][\A p \in Programs \ missed :
          errors = 0 /\ index[p] = "DONE" /\ index'[p] = "DISCARDED" => p \in judged]_vars

\* The outcome of a batch is settled against the active ids so that the
\* engine never discards a program that is active in the archive, whatever
\* the additions did, unless even the active ids could not be read.
ElitesSpared ==
    [][\A p \in Programs :
          ~blind /\ index[p] = "DONE" /\ index'[p] = "DISCARDED" => p \notin archive']_vars

\* After an ingestion without errors nothing finished is left outside the
\* archive, whatever was left by earlier generations or a crash, but for a
\* program that was still active when the ingestion began.
NothingLeft ==
    errors = 0 /\ pc = "refresh" => In("DONE") \subseteq archive \union missed

\* "Block until there are no programs in QUEUED or RUNNING" (core.py): the
\* two counts of a round do not promise it.
QuietWhileWriting ==
    pc \in {"resume", "mutate", "ingest", "judge", "admit", "discard", "refresh",
            "reindex"} => Active = {}

\* The run comes to its end: no step waits for ever.
Completes == <>(pc = "stopped")

----------------------------------------------------------------------------
(* Why the safety properties hold: the parts of an inductive invariant.    *)

\* The bounds of the counters while a step runs.
Bounded ==
    /\ pc \notin {"start", "save", "stopped"} => gen < MaxGenerations
    /\ pc # "stopped" => empties < MaxEmpty

\* The status sets and the blobs disagree about discarded leftovers only.
Agreed == \A p \in Programs : index[p] # "DISCARDED" => blob[p] = index[p]

\* A resumed run ingests before it mutates, and a step learns of its mutants
\* when it has created them.
Phased ==
    /\ pending => pc \in {"start", "idle", "resume", "judge", "admit", "discard",
                          "stopped"}
    /\ pc \in {"idle", "resume", "mutate"} \/ pending => ~known
    /\ pc = "resume" => pending

\* An ingestion looks at programs outside the archive, all of them if no
\* operation has failed, and remembers those that were in it.
Ingesting ==
    /\ pc \in {"judge", "admit"} =>
          /\ incumbents = archive /\ fresh \subseteq In("DONE") \ archive
          /\ errors = 0 => In("DONE") \subseteq archive \union fresh \union missed \union
                                (IF pc = "admit" THEN rejects ELSE {})
    /\ pc = "admit" => fresh \subseteq judged /\ rejects \intersect (archive \union fresh) = {}
    /\ pc \in {"admit", "discard"} => rejects \subseteq judged
    /\ pc = "discard" =>
          /\ ~blind => rejects \intersect archive = {}
          /\ errors = 0 => In("DONE") \subseteq archive \union rejects \union missed

\* Whoever is active while the engine does not wait was overlooked by its wait,
\* and between the two counts the set counted first can only have been empty
\* since the other one was not.
Overlooked ==
    /\ pc \in {"resume", "mutate", "ingest", "judge", "admit", "discard", "refresh",
               "reindex"} => Active \subseteq missed
    /\ zeros # {} => pc \in {"idle", "wait", "settle"}

\* Programs under way or finished that nobody has looked at or overlooked.
Unseen == {p \in Programs : index[p] \in {"QUEUED", "RUNNING", "DONE"}} \ (judged \union missed)

\* Only the step's own mutants are, and before the first generation the
\* initial population.
NoneUnseen ==
    /\ archive \subseteq judged
    /\ errors = 0 =>
          /\ ~pending /\ pc \in {"start", "idle", "mutate"} => archive = {} \/ Unseen = {}
          /\ known /\ pc \in {"wait", "ingest"} => Unseen \subseteq mutants
          /\ pc = "judge" => Unseen \subseteq fresh
          /\ pc \in {"admit", "discard", "refresh", "settle", "reindex", "count", "save"} =>
                Unseen = {}

IInv == /\ TypeOK /\ Bounded /\ Agreed /\ Overlooked /\ Phased
        /\ Ingesting /\ NoneUnseen /\ NothingLeft

=============================================================================
