------------------------------ MODULE Islands ------------------------------
(***************************************************************************)
(* MAP-Elites islands: the archive of each island (RedisArchiveStorage),   *)
(* kept in Redis as a hash from cells to program ids with a reverse hash,  *)
(* and mirrored in memory; the island that admits programs and enforces    *)
(* its size (MapElitesIsland); the strategy that routes, migrates and      *)
(* re-indexes (MapElitesMultiIsland); and the way an engine settles what a *)
(* batch of additions did.                                                 *)
(*                                                                         *)
(* Everything runs in coroutines of one process.  A coroutine is a task; a *)
(* task hands a command to Redis in one step and goes on with the answer   *)
(* in a later one, so another task's commands and answers can come in      *)
(* between.  Redis runs a MULTI/EXEC block in one step and tells a task    *)
(* that WATCHes a hash whether it was written.                             *)
(*                                                                         *)
(* A metric is abstracted to the cell it puts a program in and to one      *)
(* fixed quality, the selector to a strict comparison of qualities.        *)
(***************************************************************************)
EXTENDS Naturals, FiniteSets

CONSTANTS Islands,        \* the islands of the strategy
          Programs,
          Cells,          \* the cells of an island's behaviour space
          None,
          Quality,        \* what the archive selector compares
          MaxSize,        \* config.max_size of every island
          MaxMigrants,    \* max_migrants_per_island
          Engines,        \* which engines drive the strategy
          MaxBatch,       \* bound: programs an engine hands over at once
          MaxEvents       \* bound: migrations, re-indexings, lost answers,
                          \*        failed operations, crashes and an overlap
                          \*        of migration and ingestion, together

ASSUME IslandsAssumption ==
    /\ None \notin Islands \union Programs \union Cells
    /\ Quality \in [Programs -> Nat]
    /\ {MaxSize, MaxMigrants} \subseteq Nat \ {0}
    /\ MaxEvents \in Nat
    /\ MaxBatch \in [Engines -> Nat \ {0}]
    /\ Engines \subseteq {"generational", "steady"}

VARIABLES
    hash,       \* Redis, per island: cell -> program id
    rev,        \* Redis, per island: program id -> cell
    watching,   \* Redis, per island: the tasks whose WATCH is still good
    cache,      \* memory, per island: _elite_cache, cell -> program
    where,      \* memory, per island: _elite_reverse, program -> cell
    cell,       \* the cell a program's present metrics put it in
    state,      \* Redis: NEW (in evaluation), DONE or DISCARDED
    home,       \* Redis: metadata current_island
    task,       \* what each coroutine is doing
    engine,     \* the engine that drives the strategy
    migrations, reindexes, faults, crashes,
    beaten,     \* history: programs that lost a cell to a better one
    overlap     \* history: a migration overlapped with an ingestion

redis == <<hash, rev, watching>>
memory == <<cache, where>>
blobs == <<cell, state, home>>
counts == <<engine, migrations, reindexes, faults, crashes, overlap>>
vars == <<redis, memory, blobs, task, counts, beaten>>

(***************************************************************************)
(* The tasks: the engine's ingestion, the selection of elites (which       *)
(* migrates), and one task per island for a re-indexing and for the        *)
(* enforcement of sizes after a migration (asyncio.gather).                *)
(***************************************************************************)
Helpers(kind) == {kind} \X Islands
Ingestor == <<"ingest", None>>
Selector == <<"select", None>>
Tasks == {Ingestor, Selector} \union Helpers("reindex") \union Helpers("enforce")

Jobs == [prog : Programs, src : Islands \union {None}, cell : Cells]

Idle == [pc |-> "idle", todo |-> {}, prog |-> None, src |-> None, cell |-> None,
         on |-> None, cur |-> None, seen |-> None,
         out |-> {}, at |-> [p \in Programs |-> None], why |-> "none",
         batch |-> {}, good |-> {}, before |-> {}]

Pcs == {"idle", "next", "watch", "seen", "stored", "limit", "look", "wipe",
        "wiped", "gather", "clear", "cleared", "waiting", "verdict"}

Task == [pc : Pcs, todo : SUBSET Jobs,
         prog : Programs \union {None}, src : Islands \union {None},
         cell : Cells \union {None}, on : Islands \union {None},
         cur : Programs \union {None}, seen : Programs \union {None},
         out : SUBSET Programs, at : [Programs -> Cells \union {None}],
         why : {"none", "limit", "source", "rollback"},
         batch : SUBSET Programs, good : SUBSET Programs, before : SUBSET Programs]

Better(p, q) == Quality[p] > Quality[q]

Occupants(archive) == {archive[c] : c \in Cells} \ {None}
Cached(i) == Occupants(cache[i])
Active == UNION {Cached(i) : i \in Islands}          \* get_program_ids

\* What a task keeps from one program to the next.
NextJob(r) == [Idle EXCEPT !.pc = "next", !.todo = r.todo, !.batch = r.batch,
                           !.good = r.good, !.before = r.before]

\* Mutant: a migrant is not removed from its source.
AfterAddCopies(t, r, ok) ==
    [NextJob(r) EXCEPT !.good = IF t = Ingestor /\ engine = "steady" /\ ok
                                THEN @ \union {r.prog} ELSE @]

\* An add_elite has returned ok: where its caller goes on.
AfterAdd(t, r, ok) ==
    IF t = Selector /\ ok /\ r.src # None
    THEN [r EXCEPT !.pc = "look", !.cur = None, !.seen = None,
                   !.out = {r.prog}, !.why = "source"]
    ELSE [NextJob(r) EXCEPT !.good = IF t = Ingestor /\ engine = "steady" /\ ok
                                     THEN @ \union {r.prog} ELSE @]

\* The size of the island has been seen to.
AfterLimit(t, r) ==
    LET q == [r EXCEPT !.out = {}, !.why = "none", !.at = Idle.at] IN
    IF t \in Helpers("enforce") THEN Idle ELSE AfterAdd(t, q, TRUE)

\* The island a removal works on: the source of a migrant, else the island
\* of the addition.
Target(r) == IF r.why = "source" THEN r.src ELSE r.on

TypeOK ==
    /\ hash \in [Islands -> [Cells -> Programs \union {None}]]
    /\ rev \in [Islands -> [Programs -> Cells \union {None}]]
    /\ watching \in [Islands -> SUBSET Tasks]
    /\ cache \in [Islands -> [Cells -> Programs \union {None}]]
    /\ where \in [Islands -> [Programs -> Cells \union {None}]]
    /\ cell \in [Programs -> Cells]
    /\ state \in [Programs -> {"NEW", "DONE", "DISCARDED"}]
    /\ home \in [Programs -> Islands \union {None}]
    /\ task \in [Tasks -> Task]
    /\ engine \in Engines
    /\ migrations \in Nat /\ reindexes \in Nat /\ faults \in Nat /\ crashes \in Nat
    /\ migrations + reindexes + faults + crashes <= MaxEvents
    /\ beaten \subseteq Programs
    /\ overlap \in BOOLEAN

\* A task under way knows its program and where it is working, and a program
\* it adds is better than the occupant that memory showed.
Placed ==
    \A t \in Tasks :
        LET r == task[t] IN
        /\ r.pc \in {"watch", "seen", "stored", "limit", "look", "wipe", "wiped",
                     "gather", "clear", "cleared"} => r.on # None
        /\ r.pc \in {"limit", "look", "wipe", "wiped"} =>
              t \in Helpers("enforce") \/ r.prog # None
        /\ r.pc \in {"look", "wipe", "wiped"} /\ r.why = "source" => r.src # None
        /\ r.pc \in {"watch", "seen", "stored"} =>
              /\ r.prog # None /\ r.cell # None
              /\ r.cur # None => Better(r.prog, r.cur)

\* What the optimistic transaction rests on: while its WATCH is good the cell
\* still holds what it read.
Watched ==
    \A t \in Tasks :
        LET r == task[t] IN
        r.pc = "seen" /\ t \in watching[r.on] => hash[r.on][r.cell] = r.seen

\* The inductive invariant of the archive.
IInv == TypeOK /\ Placed /\ Watched

Init ==
    /\ hash = [i \in Islands |-> [c \in Cells |-> None]]
    /\ rev = [i \in Islands |-> [p \in Programs |-> None]]
    /\ watching = [i \in Islands |-> {}]
    /\ cache = hash
    /\ where = rev
    /\ cell \in [Programs -> Cells]
    /\ state = [p \in Programs |-> "NEW"]
    /\ home = [p \in Programs |-> None]
    /\ task = [t \in Tasks |-> Idle]
    /\ engine \in Engines
    /\ migrations = 0 /\ reindexes = 0 /\ faults = 0 /\ crashes = 0
    /\ beaten = {}
    /\ overlap = FALSE

Events == migrations + reindexes + faults + crashes + (IF overlap THEN 1 ELSE 0)
MoreEvents == Events < MaxEvents

Go(t, r) == task' = [task EXCEPT ![t] = r]

----------------------------------------------------------------------------
(* The callers: the engine's ingestion, a migration and a re-indexing.     *)

Resting(T) == \A t \in T : task[t].pc = "idle"

\* A batch of evaluated programs is handed to the strategy.
Ingest(B) ==
    /\ task[Ingestor].pc = "idle"
    /\ engine = "generational" => Resting({Selector} \union Helpers("enforce"))
    /\ MoreEvents \/ task[Selector].pc = "idle"
    /\ B # {} /\ Cardinality(B) <= MaxBatch[engine]
    /\ \A p \in B : state[p] = "NEW"
    /\ state' = [p \in Programs |-> IF p \in B THEN "DONE" ELSE state[p]]
    /\ Go(Ingestor, [Idle EXCEPT !.pc = "next", !.batch = B, 
                        !.before = IF engine = "generational" THEN Active ELSE {},
                        !.todo = {[prog |-> p, src |-> None, cell |-> cell[p]] : p \in B}])
    /\ overlap' = (overlap \/ task[Selector].pc # "idle")
    /\ UNCHANGED <<redis, memory, cell, home, beaten, engine, migrations,
                   reindexes, faults, crashes>>

\* Mutant: the batch is settled against the ids from before the additions.
RejectedOutdated ==
    LET r == task[Ingestor] IN
    IF engine = "generational" THEN r.batch \ r.before ELSE r.batch \ r.good

\* The generational engine settles a batch against the active ids (add_batch
\* and _reconcile_batch_admission_failure), the steady-state engine goes by
\* what each addition returned.
Rejected ==
    LET r == task[Ingestor] IN
    IF engine = "generational" THEN (r.batch \union r.before) \ Active
                               ELSE r.batch \ r.good

Verdict ==
    /\ task[Ingestor].pc = "verdict"
    /\ state' = [p \in Programs |-> IF p \in Rejected /\ state[p] = "DONE"
                                    THEN "DISCARDED" ELSE state[p]]
    /\ Go(Ingestor, Idle)
    /\ UNCHANGED <<redis, memory, cell, home, counts, beaten>>

\* select_elites when a migration is due: a snapshot of each island's
\* migrants with the island their metadata names.
MigrantsOf(i) ==
    {M \in SUBSET Cached(i) :
        Cardinality(M) = IF Cardinality(Cached(i)) < MaxMigrants
                         THEN Cardinality(Cached(i)) ELSE MaxMigrants}

StartMigration ==
    /\ task[Selector].pc = "idle" /\ Resting(Helpers("reindex"))
    /\ task[Ingestor].pc # "waiting"
    /\ engine = "generational" => Resting({Ingestor})
    /\ MoreEvents /\ (Resting({Ingestor}) \/ Events + 1 < MaxEvents)
    /\ \E M \in {f \in [Islands -> SUBSET Programs] :
                     \A i \in Islands : f[i] \in MigrantsOf(i)} :
         LET chosen == UNION {M[i] : i \in Islands} IN
         /\ chosen # {}
         /\ Go(Selector, [Idle EXCEPT !.pc = "next",
                !.todo = {[prog |-> p, src |-> home[p], cell |-> cell[p]] : p \in chosen}])
    /\ migrations' = migrations + 1
    /\ overlap' = (overlap \/ task[Ingestor].pc # "idle")
    /\ UNCHANGED <<redis, memory, blobs, beaten, engine, reindexes, faults, crashes>>

\* A refresh has given the elites new metrics and asks for a re-indexing of
\* every island.
StartReindex ==
    /\ Resting({Ingestor, Selector} \union Helpers("reindex") \union Helpers("enforce"))
    /\ MoreEvents
    /\ \E f \in [Programs -> Cells] :
         /\ \A p \in Programs : p \notin Active => f[p] = cell[p]
         /\ cell' = f
    /\ task' = [t \in Tasks |->
                  CASE t = Ingestor -> [Idle EXCEPT !.pc = "waiting"]
                    [] t \in Helpers("reindex") -> [Idle EXCEPT !.pc = "gather", !.on = t[2]]
                    [] OTHER -> task[t]]
    /\ reindexes' = reindexes + 1
    /\ UNCHANGED <<redis, memory, state, home, beaten, engine, migrations, faults,
                   crashes, overlap>>

ReindexEnds ==
    /\ task[Ingestor].pc = "waiting" /\ Resting(Helpers("reindex"))
    /\ Go(Ingestor, Idle)
    /\ UNCHANGED <<redis, memory, blobs, counts, beaten>>

\* reindex_archive of one island: its elites, then the mapping is cleared in
\* Redis, then in memory, then the elites are added again.
Gather(t) ==
    /\ task[t].pc = "gather"
    /\ LET i == task[t].on IN
       Go(t, IF Cached(i) = {} THEN Idle
             ELSE [task[t] EXCEPT !.pc = "clear",
                     !.todo = {[prog |-> p, src |-> None, cell |-> cell[p]] : p \in Cached(i)}])
    /\ UNCHANGED <<redis, memory, blobs, counts, beaten>>

Clear(t) ==
    /\ task[t].pc = "clear"
    /\ LET i == task[t].on IN
       IF Cached(i) = {}
       THEN /\ Go(t, NextJob(task[t]))
            /\ UNCHANGED redis
       ELSE /\ hash' = [hash EXCEPT ![i] = [c \in Cells |-> None]]
            /\ rev' = [rev EXCEPT ![i] = [p \in Programs |-> None]]
            /\ watching' = [watching EXCEPT ![i] = {}]
            /\ Go(t, [task[t] EXCEPT !.pc = "cleared"])
    /\ UNCHANGED <<memory, blobs, counts, beaten>>

Cleared(t) ==
    /\ task[t].pc = "cleared"
    /\ LET i == task[t].on IN
       /\ cache' = [cache EXCEPT ![i] = [c \in Cells |-> None]]
       /\ where' = [where EXCEPT ![i] = [p \in Programs |-> None]]
    /\ Go(t, NextJob(task[t]))
    /\ UNCHANGED <<redis, blobs, counts, beaten>>

----------------------------------------------------------------------------
(* One addition: RedisArchiveStorage.add_elite under MapElitesIsland.add.  *)

\* The island the next program of a task goes to: its own when re-indexing,
\* any other than the source for a migrant, any for a mutant.
Route(t, job) ==
    IF t \in Helpers("reindex") THEN {t[2]} ELSE Islands \ {job.src}

\* A program the archive refuses during a re-indexing has lost its cell.
Beats(t, p) == beaten' = IF t \in Helpers("reindex") THEN beaten \union {p} ELSE beaten

\* The occupant in memory is compared first: a program that is no better
\* costs no call to Redis.
Add(t) ==
    /\ task[t].pc = "next"
    /\ \E job \in task[t].todo : \E i \in Route(t, job) :
         LET cur == cache[i][job.cell]
             r == [task[t] EXCEPT !.todo = @ \ {job}, !.prog = job.prog, !.src = job.src,
                                  !.cell = job.cell, !.on = i, !.cur = cur] IN
         IF cur # None /\ ~Better(job.prog, cur)
         THEN Go(t, AfterAdd(t, r, FALSE)) /\ Beats(t, job.prog)
         ELSE Go(t, [r EXCEPT !.pc = "watch"]) /\ UNCHANGED beaten
    /\ UNCHANGED <<redis, memory, blobs, counts>>

\* WATCH and HGET.
Watch(t) ==
    /\ task[t].pc = "watch"
    /\ LET r == task[t] IN
       /\ watching' = [watching EXCEPT ![r.on] = @ \union {t}]
       /\ Go(t, [r EXCEPT !.pc = "seen", !.seen = hash[r.on][r.cell]])
    /\ UNCHANGED <<hash, rev, memory, blobs, counts, beaten>>

\* _cache_set: the occupant of the cell and the cell of the program; the
\* program that was there is no longer anywhere.
CacheSet(i, c, p) ==
    /\ cache' = [cache EXCEPT ![i][c] = p]
    /\ where' = [where EXCEPT ![i] =
                   [q \in Programs |-> IF q = p THEN c
                                       ELSE IF q = cache[i][c] THEN None ELSE @[q]]]

\* What Redis holds is not what the memory showed, and it is no worse.
Stale(r) == /\ r.seen # None /\ r.seen # r.cur
            /\ ~Better(r.prog, r.seen)

Refuse(t) ==
    /\ task[t].pc = "seen" /\ Stale(task[t])
    /\ LET r == task[t] IN
       /\ watching' = [watching EXCEPT ![r.on] = @ \ {t}]
       /\ CacheSet(r.on, r.cell, r.seen)
       /\ Go(t, AfterAdd(t, r, FALSE))
       /\ Beats(t, r.prog)
    /\ UNCHANGED <<hash, rev, blobs, counts>>

\* EXEC: the cell, and the reverse entries of both programs.
Commit(t, r, reverse) ==
    /\ hash' = [hash EXCEPT ![r.on][r.cell] = r.prog]
    /\ rev' = [rev EXCEPT ![r.on] = reverse]
    /\ watching' = [watching EXCEPT ![r.on] = {}]
    /\ beaten' = (beaten \union ({r.seen} \ {None, r.prog}))
    /\ Go(t, [r EXCEPT !.pc = "stored"])
    /\ UNCHANGED <<memory, blobs, counts>>

Reversed(r) == [q \in Programs |-> IF q = r.prog THEN r.cell
                                   ELSE IF q = r.seen THEN None ELSE rev[r.on][q]]

\* Mutant: the transaction is executed without its WATCH.
ExecUnwatched(t) ==
    /\ task[t].pc = "seen" /\ ~Stale(task[t])
    /\ Commit(t, task[t], Reversed(task[t]))

\* Mutant: the reverse entry of the program that is replaced stays.
ExecKeepsReverse(t) ==
    /\ task[t].pc = "seen" /\ ~Stale(task[t]) /\ t \in watching[task[t].on]
    /\ Commit(t, task[t], [rev[task[t].on] EXCEPT ![task[t].prog] = task[t].cell])

Exec(t) ==
    /\ task[t].pc = "seen" /\ ~Stale(task[t]) /\ t \in watching[task[t].on]
    /\ Commit(t, task[t], Reversed(task[t]))

\* WatchError: the cell is dropped from memory and the transaction repeated.
Retry(t) ==
    /\ task[t].pc = "seen" /\ ~Stale(task[t])
    /\ LET r == task[t] IN
       /\ t \notin watching[r.on]
       /\ cache' = [cache EXCEPT ![r.on][r.cell] = None]
       /\ where' = [where EXCEPT ![r.on] =
                      [q \in Programs |-> IF q = cache[r.on][r.cell] THEN None ELSE @[q]]]
       /\ Go(t, [r EXCEPT !.pc = "watch", !.seen = None])
    /\ UNCHANGED <<redis, blobs, counts, beaten>>

\* The answer of EXEC: memory follows, and the island writes itself into the
\* program's metadata and looks at its size; a re-indexing does neither.
Stored(t) ==
    /\ task[t].pc = "stored"
    /\ LET r == task[t] IN
       /\ CacheSet(r.on, r.cell, r.prog)
       /\ IF t \in Helpers("reindex")
          THEN Go(t, AfterAdd(t, r, TRUE)) /\ UNCHANGED home
          ELSE /\ Go(t, [r EXCEPT !.pc = "limit", !.cur = None, !.seen = None])
               /\ home' = [home EXCEPT ![r.prog] = r.on]
    /\ UNCHANGED <<redis, cell, state, counts, beaten>>

\* A task has nothing left to add.
Finish(t) ==
    /\ task[t].pc = "next" /\ task[t].todo = {}
    /\ task' = CASE t = Ingestor -> [task EXCEPT ![t].pc = "verdict"]
                 [] t = Selector ->
                      [u \in Tasks |->
                         CASE u = t -> [Idle EXCEPT !.pc = "waiting"]
                           [] u \in Helpers("enforce") ->
                                [Idle EXCEPT !.pc = "limit", !.on = u[2]]
                           [] OTHER -> task[u]]
                 [] OTHER -> [task EXCEPT ![t] = Idle]
    /\ UNCHANGED <<redis, memory, blobs, counts, beaten>>

MigrationEnds ==
    /\ task[Selector].pc = "waiting" /\ Resting(Helpers("enforce"))
    /\ Go(Selector, Idle)
    /\ UNCHANGED <<redis, memory, blobs, counts, beaten>>

----------------------------------------------------------------------------
(* Removals: remove_elite_by_id and bulk_remove_elites_by_id.              *)

\* _enforce_size_limit: how many the hash holds, and which of the elites in
\* memory the remover gives up.
Limit(t) ==
    /\ task[t].pc = "limit"
    /\ LET r == task[t] IN
       IF Cardinality({c \in Cells : hash[r.on][c] # None}) <= MaxSize
       THEN Go(t, AfterLimit(t, r))
       ELSE \E V \in SUBSET Cached(r.on) :
              /\ Cardinality(Cached(r.on) \ V) =
                   IF Cardinality(Cached(r.on)) < MaxSize
                   THEN Cardinality(Cached(r.on)) ELSE MaxSize
              /\ Go(t, IF V = {} THEN AfterLimit(t, r)
                       ELSE [r EXCEPT !.pc = "look", !.out = V, !.why = "limit"])
    /\ UNCHANGED <<redis, memory, blobs, counts, beaten>>

\* The cells are looked up in the reverse hash.
Look(t) ==
    /\ task[t].pc = "look"
    /\ LET r == task[t]
           at == [p \in Programs |-> IF p \in r.out THEN rev[Target(r)][p] ELSE None] IN
       Go(t, [r EXCEPT !.pc = IF at = Idle.at THEN "wiped" ELSE "wipe", !.at = at])
    /\ UNCHANGED <<redis, memory, blobs, counts, beaten>>

\* The entries are deleted: the cells that were found, whoever is there now.
Wipe(t) ==
    /\ task[t].pc = "wipe"
    /\ LET r == task[t]
           i == Target(r)
           found == {p \in Programs : r.at[p] # None}
           gone == {r.at[p] : p \in found} IN
       /\ hash' = [hash EXCEPT ![i] = [c \in Cells |-> IF c \in gone THEN None ELSE @[c]]]
       /\ rev' = [rev EXCEPT ![i] =
                    [p \in Programs |-> IF p \in found THEN None ELSE @[p]]]
       /\ watching' = [watching EXCEPT ![i] = IF hash' = hash THEN @ ELSE {}]
       /\ Go(t, [r EXCEPT !.pc = "wiped"])
    /\ UNCHANGED <<memory, blobs, counts, beaten>>

\* The answer: memory follows if anything was removed.
Forget(r) ==
    LET i == Target(r)
        gone == {where[i][p] : p \in r.out} IN
    IF r.at = Idle.at THEN UNCHANGED memory
    ELSE /\ cache' = [cache EXCEPT ![i] = [c \in Cells |-> IF c \in gone THEN None ELSE @[c]]]
         /\ where' = [where EXCEPT ![i] =
                        [p \in Programs |-> IF p \in r.out THEN None ELSE @[p]]]

\* Those over the limit are discarded, whether or not they were still there.
Evicted(t) ==
    /\ task[t].pc = "wiped" /\ task[t].why = "limit"
    /\ Forget(task[t])
    /\ state' = [p \in Programs |-> IF p \in task[t].out THEN "DISCARDED" ELSE state[p]]
    /\ home' = [p \in Programs |-> IF p \in task[t].out THEN None ELSE home[p]]
    /\ Go(t, AfterLimit(t, task[t]))
    /\ UNCHANGED <<redis, cell, counts, beaten>>

\* Mutant: the test of what remove_elite_by_id returned is the wrong way round.
MovedReversed(t) ==
    /\ task[t].pc = "wiped" /\ task[t].why = "source"
    /\ Forget(task[t])
    /\ LET r == [task[t] EXCEPT !.at = Idle.at] IN
       Go(t, IF task[t].at = Idle.at
             THEN NextJob(r) ELSE [r EXCEPT !.pc = "look", !.why = "rollback"])
    /\ UNCHANGED <<redis, blobs, counts, beaten>>

\* A migrant has left its source; if it was no longer there, it is taken
\* back from the destination.
Moved(t) ==
    /\ task[t].pc = "wiped" /\ task[t].why = "source"
    /\ Forget(task[t])
    /\ LET r == [task[t] EXCEPT !.at = Idle.at] IN
       Go(t, IF task[t].at # Idle.at
             THEN NextJob(r)
             ELSE [r EXCEPT !.pc = "look", !.why = "rollback"])
    /\ UNCHANGED <<redis, blobs, counts, beaten>>

RolledBack(t) ==
    /\ task[t].pc = "wiped" /\ task[t].why = "rollback"
    /\ Forget(task[t])
    /\ Go(t, NextJob(task[t]))
    /\ UNCHANGED <<redis, blobs, counts, beaten>>

----------------------------------------------------------------------------
(* Faults.                                                                 *)

\* The answer to a write is lost: RedisConnection.execute runs the whole
\* operation again.
LoseAnswer(t) ==
    /\ MoreEvents
    /\ \/ /\ task[t].pc = "stored"
          /\ Go(t, [task[t] EXCEPT !.pc = "watch", !.seen = None])
       \/ /\ task[t].pc = "wiped" /\ task[t].at # Idle.at
          /\ Go(t, [task[t] EXCEPT !.pc = "look", !.at = Idle.at])
    /\ faults' = faults + 1
    /\ UNCHANGED <<redis, memory, blobs, beaten, engine, migrations, reindexes,
                   crashes, overlap>>

\* The retries are used up, before or after the command took effect: the
\* error ends the addition of an ingested program, and the whole of a
\* migration or of an island's re-indexing or enforcement; the caller that
\* waits for it does not wait any more.
Fail(t) ==
    /\ MoreEvents
    /\ task[t].pc \in {"watch", "seen", "stored", "look", "wipe", "wiped",
                       "clear", "cleared"}
    /\ LET waiter == CASE t \in Helpers("reindex") -> {Ingestor}
                       [] t \in Helpers("enforce") -> {Selector}
                       [] OTHER -> {} IN
       task' = [u \in Tasks |->
                  CASE u = t /\ t = Ingestor ->
                         NextJob(task[t])
                    [] u = t /\ t # Ingestor -> Idle
                    [] u \in waiter /\ task[u].pc = "waiting" -> Idle
                    [] OTHER -> task[u]]
    /\ watching' = [i \in Islands |-> watching[i] \ {t}]
    /\ faults' = faults + 1
    /\ UNCHANGED <<hash, rev, memory, blobs, beaten, engine, migrations, reindexes,
                   crashes, overlap>>

\* The process dies and starts again: memory is read back from Redis.
Crash ==
    /\ MoreEvents
    /\ ~Resting(Tasks)
    /\ cache' = hash
    /\ where' \in [Islands -> [Programs -> Cells \union {None}]]
    /\ \A i \in Islands, p \in Programs :
         LET cs == {c \in Cells : hash[i][c] = p} IN
         where'[i][p] \in (IF cs = {} THEN {None} ELSE cs)
    /\ watching' = [i \in Islands |-> {}]
    /\ task' = [t \in Tasks |-> Idle]
    /\ crashes' = crashes + 1
    /\ UNCHANGED <<hash, rev, blobs, beaten, engine, migrations, reindexes, faults,
                   overlap>>

----------------------------------------------------------------------------
Step(t) ==
    \/ Gather(t) \/ Clear(t) \/ Cleared(t)
    \/ Add(t) \/ Watch(t) \/ Refuse(t) \/ Exec(t) \/ Retry(t) \/ Stored(t) \/ Finish(t)
    \/ Limit(t) \/ Look(t) \/ Wipe(t) \/ Evicted(t) \/ Moved(t) \/ RolledBack(t)

Next ==
    \/ \E B \in SUBSET Programs : Ingest(B)
    \/ Verdict
    \/ StartMigration \/ MigrationEnds
    \/ StartReindex \/ ReindexEnds
    \/ \E t \in Tasks : Step(t) \/ LoseAnswer(t) \/ Fail(t)
    \/ Crash

Spec == Init /\ [][Next]_vars

----------------------------------------------------------------------------
(* Properties.                                                             *)

Archived(p) == \E i \in Islands, c \in Cells : hash[i][c] = p

\* No operation failed, and no migration ran beside an ingestion.
Calm == faults = 0 /\ ~overlap

\* The optimistic transaction of add_elite: whoever else writes the archive,
\* whatever answers are lost and whenever the process dies, a cell passes
\* from one program to another only if the newcomer is better.
NeverWorsened ==
    [][\A i \in Islands, c \in Cells :
          \/ hash[i][c] = None \/ hash'[i][c] \in {None, hash[i][c]}
          \/ Better(hash'[i][c], hash[i][c])]_vars

\* The write-through cache of RedisArchiveStorage mirrors the archive: with
\* one writer at a time and no failed operation, memory agrees with the hash
\* and the reverse hash with its inverse whenever nothing is under way, also
\* after a restart that cut an operation short.  (A second restart of that
\* kind, in a re-indexing after the first, can leave a program in two cells.)
MirrorsRedis ==
    Calm /\ crashes <= 1 /\ Resting(Tasks) =>
        \A i \in Islands :
            /\ cache[i] = hash[i] /\ where[i] = rev[i]
            /\ \A c \in Cells, p \in Programs : hash[i][c] = p <=> rev[i][p] = c

\* A program is the elite of one cell of one island, the one its metadata
\* names, however migrations, evictions and re-indexings followed each other.
OneHome ==
    Calm /\ crashes = 0 /\ Resting(Tasks) =>
        \A p \in Programs, i, j \in Islands, c, d \in Cells :
            hash[i][c] = p =>
                home[p] = i /\ (hash[j][d] = p => i = j /\ c = d)

\* What the engine or an island's limit discards is in no archive.
NoDiscardedElite ==
    Calm /\ crashes = 0 /\ Resting(Tasks) =>
        \A p \in Programs : state[p] = "DISCARDED" => ~Archived(p)

\* No elite is lost: except while it is being ingested, evicted or
\* re-indexed, a program that is not discarded is in an archive, at every
\* step of a migration, unless a better one took its cell.
Kept ==
    Calm /\ crashes = 0 /\ Resting(Helpers("reindex")) =>
        \A p \in Programs : state[p] = "DONE" =>
            \/ Archived(p) \/ p \in beaten
            \/ p \in task[Ingestor].batch
            \/ \E t \in Tasks : task[t].why = "limit" /\ p \in task[t].out
=============================================================================
