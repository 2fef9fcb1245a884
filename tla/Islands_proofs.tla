---------------------------- MODULE Islands_proofs ----------------------------
(***************************************************************************)
(* Proofs about the islands, for any number of islands, cells and          *)
(* programs, any qualities and any failures: the inductive invariant IInv  *)
(* of Islands, one lemma per action, and that no cell is ever worsened.    *)
(* What each action does to the task that takes it is stated once (the     *)
(* lemmas ...Goes) and used by two more invariants, for runs in which no   *)
(* operation fails and no migration overlaps an ingestion: QInv, with up   *)
(* to one crash (memory mirrors Redis) and without (one home for each      *)
(* elite), and KInv (nothing discarded stays, no elite is lost).           *)
(***************************************************************************)
EXTENDS Islands, TLAPS

(* What a task becomes is a task.                                          *)
LEMMA IdleTask == Idle \in Task
  BY DEF Idle, Task, Pcs

LEMMA NextJobTask == ASSUME NEW r \in Task PROVE NextJob(r) \in Task
  BY ZenonT(30), IdleTask DEF NextJob, Idle, Task, Pcs

LEMMA AfterAddTask ==
  ASSUME NEW t \in Tasks, NEW r \in Task, NEW ok \in BOOLEAN, r.prog \in Programs
  PROVE  AfterAdd(t, r, ok) \in Task
<1>1. NextJob(r) \in Task
  BY NextJobTask
<1>2. [NextJob(r) EXCEPT !.good = @ \union {r.prog}] \in Task
  BY <1>1 DEF Task
<1>3. [NextJob(r) EXCEPT !.good = @] \in Task
  BY <1>1 DEF Task
<1>4. [r EXCEPT !.pc = "look", !.cur = None, !.seen = None,
                   !.out = {r.prog}, !.why = "source"] \in Task
  BY DEF Task, Pcs
<1> QED
  BY <1>2, <1>3, <1>4 DEF AfterAdd

LEMMA AfterLimitTask ==
  ASSUME NEW t \in Tasks, NEW r \in Task,
         t \in Helpers("enforce") \/ r.prog \in Programs
  PROVE  AfterLimit(t, r) \in Task
<1> DEFINE q == [r EXCEPT !.out = {}, !.why = "none", !.at = Idle.at]
<1>1. q \in Task /\ q.prog = r.prog
  BY DEF Task, Idle
<1>2. CASE t \in Helpers("enforce")
  BY <1>2, IdleTask DEF AfterLimit
<1>3. CASE t \notin Helpers("enforce")
  BY <1>1, <1>3, AfterAddTask DEF AfterLimit
<1> QED
  BY <1>2, <1>3

(* What it becomes knows where it is.                                      *)
Knows(t, r) ==
  /\ r.pc \in {"watch", "seen", "stored", "limit", "look", "wipe", "wiped",
               "gather", "clear", "cleared"} => r.on # None
  /\ r.pc \in {"limit", "look", "wipe", "wiped"} =>
        t \in Helpers("enforce") \/ r.prog # None
  /\ r.pc \in {"look", "wipe", "wiped"} /\ r.why = "source" => r.src # None
  /\ r.pc \in {"watch", "seen", "stored"} =>
        /\ r.prog # None /\ r.cell # None
        /\ r.cur # None => Better(r.prog, r.cur)

LEMMA IdleKnows == ASSUME NEW t \in Tasks PROVE Knows(t, Idle)
  BY DEF Knows, Idle

LEMMA NextJobKnows ==
  ASSUME NEW t \in Tasks, NEW r \in Task
  PROVE  Knows(t, NextJob(r)) /\ NextJob(r).pc = "next"
  BY DEF Knows, NextJob, Idle

LEMMA AfterAddKnows ==
  ASSUME NEW t \in Tasks, NEW r \in Task, NEW ok \in BOOLEAN,
         r.prog \in Programs, r.on # None
  PROVE  Knows(t, AfterAdd(t, r, ok)) /\ AfterAdd(t, r, ok).pc \in {"next", "look"}
<1>1. NextJob(r) \in Task /\ NextJob(r).pc = "next" /\ NextJob(r).why = "none"
  BY NextJobTask DEF NextJob, Idle
<1>2. r.prog # None
  BY IslandsAssumption
<1> QED
  BY <1>1, <1>2 DEF AfterAdd, Knows, Task

LEMMA AfterLimitKnows ==
  ASSUME NEW t \in Tasks, NEW r \in Task, r.on # None,
         t \in Helpers("enforce") \/ r.prog \in Programs
  PROVE  /\ Knows(t, AfterLimit(t, r))
         /\ AfterLimit(t, r).pc \in {"idle", "next", "look"}
<1> DEFINE q == [r EXCEPT !.out = {}, !.why = "none", !.at = Idle.at]
<1>1. q \in Task /\ q.prog = r.prog /\ q.on = r.on
  BY DEF Task, Idle
<1>2. CASE t \in Helpers("enforce")
  BY <1>2, IdleKnows DEF AfterLimit, Idle
<1>3. CASE t \notin Helpers("enforce")
  BY <1>1, <1>3, AfterAddKnows DEF AfterLimit
<1> QED
  BY <1>2, <1>3

LEMMA CachedPrograms ==
  ASSUME TypeOK, NEW i \in Islands
  PROVE  Cached(i) \subseteq Programs /\ Active \subseteq Programs
  BY DEF TypeOK, Cached, Active, Occupants

(* The data, that is everything but the tasks. *)
Data ==
  /\ hash \in [Islands -> [Cells -> Programs \union {None}]]
  /\ rev \in [Islands -> [Programs -> Cells \union {None}]]
  /\ watching \in [Islands -> SUBSET Tasks]
  /\ cache \in [Islands -> [Cells -> Programs \union {None}]]
  /\ where \in [Islands -> [Programs -> Cells \union {None}]]
  /\ cell \in [Programs -> Cells]
  /\ state \in [Programs -> {"NEW", "DONE", "DISCARDED"}]
  /\ home \in [Programs -> Islands \union {None}]
  /\ beaten \subseteq Programs

Counters ==
  /\ engine \in Engines
  /\ migrations \in Nat /\ reindexes \in Nat /\ faults \in Nat /\ crashes \in Nat
  /\ migrations + reindexes + faults + crashes <= MaxEvents

LEMMA Split == TypeOK <=> Data /\ Counters /\ task \in [Tasks -> Task] /\ overlap \in BOOLEAN
  BY DEF TypeOK, Data, Counters

(* A step that gives some tasks something else to do.  What is watched     *)
(* stays as it was read unless a WATCH is set, for a write of the hash     *)
(* ends every WATCH of it.                                                 *)
LEMMA TasksInv ==
  ASSUME IInv, Data', Counters', overlap' \in BOOLEAN, task' \in [Tasks -> Task],
         \A u \in Tasks : \/ task'[u] = task[u]
                          \/ Knows(u, task'[u]) /\ task'[u].pc # "seen",
         \A i \in Islands : \/ watching'[i] = {}
                            \/ watching'[i] \subseteq watching[i] /\ hash'[i] = hash[i]
  PROVE  IInv'
<1>1. TypeOK'
  BY DEF TypeOK, Data, Counters
<1>2. \A u \in Tasks : Knows(u, task'[u])
  BY DEF IInv, Placed, Knows
<1>3. Placed'
  BY <1>2 DEF Placed, Knows
<1>4. Watched'
  <2> SUFFICES ASSUME NEW u \in Tasks, task'[u].pc = "seen", u \in watching'[task'[u].on]
               PROVE  hash'[task'[u].on][task'[u].cell] = task'[u].seen
    BY DEF Watched
  <2>1. task'[u] = task[u] /\ task[u] \in Task
    BY DEF IInv, TypeOK
  <2>2. task[u].on \in Islands
    BY <2>1 DEF IInv, Placed, Task
  <2> QED
    BY <2>1, <2>2 DEF IInv, Watched
<1> QED
  BY <1>1, <1>3, <1>4 DEF IInv

(* A step of one task.                                                     *)
LEMMA GoInv ==
  ASSUME IInv, NEW t \in Tasks, NEW r \in Task, Go(t, r), Knows(t, r), r.pc # "seen",
         Data', UNCHANGED counts,
         \A i \in Islands : \/ watching'[i] = {}
                            \/ watching'[i] \subseteq watching[i] /\ hash'[i] = hash[i]
  PROVE  IInv'
<1>1. task' = [task EXCEPT ![t] = r] /\ task \in [Tasks -> Task]
  BY DEF Go, IInv, TypeOK
<1>2. Counters' /\ overlap' \in BOOLEAN
  BY DEF IInv, TypeOK, counts, Counters
<1> QED
  BY <1>1, <1>2, TasksInv

LEMMA OldData == IInv => Data /\ Counters /\ task \in [Tasks -> Task] /\ overlap \in BOOLEAN
  BY DEF IInv, TypeOK, Data, Counters

LEMMA At ==
  ASSUME IInv, NEW t \in Tasks
  PROVE  task[t] \in Task /\ Knows(t, task[t])
  BY DEF IInv, TypeOK, Placed, Knows

(* A re-indexing collects the elites. *)
LEMMA GatherInv == ASSUME IInv, NEW t \in Tasks, Gather(t) PROVE IInv'
<1> USE IslandsAssumption
<1>0. task[t] \in Task /\ Knows(t, task[t]) /\ Data /\ TypeOK
  BY At, OldData DEF IInv
<1> DEFINE i == task[t].on
           jobs == {[prog |-> p, src |-> None, cell |-> cell[p]] : p \in Cached(i)}
           r == IF Cached(i) = {} THEN Idle
                ELSE [task[t] EXCEPT !.pc = "clear", !.todo = jobs]
<1>1. i \in Islands
  BY <1>0 DEF Gather, Knows, Task
<1>2. \A p \in Cached(i) : [prog |-> p, src |-> None, cell |-> cell[p]] \in Jobs
  BY <1>0, <1>1, CachedPrograms DEF Jobs, Data
<1>3. r \in Task
  <2>1. jobs \in SUBSET Jobs
    BY <1>2
  <2>2. \A S \in SUBSET Jobs : [task[t] EXCEPT !.pc = "clear", !.todo = S] \in Task
    BY <1>0 DEF Task, Pcs
  <2> QED
    BY <2>1, <2>2, IdleTask
<1>4. Knows(t, r) /\ r.pc # "seen"
  BY <1>0, <1>1, IdleKnows DEF Knows, Task, Idle
<1>5. Go(t, r) /\ Data' /\ watching' = watching /\ hash' = hash /\ UNCHANGED counts
  BY <1>0 DEF Gather, Data, redis, memory, blobs
<1> QED
  BY <1>3, <1>4, <1>5, GoInv

(* It clears the mapping in Redis. *)
LEMMA ClearInv == ASSUME IInv, NEW t \in Tasks, Clear(t) PROVE IInv'
<1> USE IslandsAssumption
<1>0. task[t] \in Task /\ Knows(t, task[t]) /\ Data /\ TypeOK
  BY At, OldData DEF IInv
<1> DEFINE i == task[t].on
           r == IF Cached(i) = {} THEN NextJob(task[t]) ELSE [task[t] EXCEPT !.pc = "cleared"]
<1>1. i \in Islands
  BY <1>0 DEF Clear, Knows, Task
<1>2. r \in Task
  BY <1>0, NextJobTask DEF Task, Pcs
<1>3. Knows(t, r) /\ r.pc # "seen"
  BY <1>0, <1>1, NextJobKnows DEF Knows, Task
<1>4. Go(t, r) /\ UNCHANGED counts
  BY DEF Clear
<1>6. Data'
  <2>1. CASE Cached(i) = {}
    BY <1>0, <2>1 DEF Clear, Data, redis, memory, blobs
  <2>2. CASE Cached(i) # {}
    <3>1. /\ hash' = [hash EXCEPT ![i] = [c \in Cells |-> None]]
          /\ rev' = [rev EXCEPT ![i] = [p \in Programs |-> None]]
          /\ watching' = [watching EXCEPT ![i] = {}]
          /\ UNCHANGED <<cache, where, cell, state, home, beaten>>
      BY <2>2 DEF Clear, memory, blobs
    <3>2. hash' \in [Islands -> [Cells -> Programs \union {None}]]
      BY <1>0, <1>1, <3>1 DEF Data
    <3>3. rev' \in [Islands -> [Programs -> Cells \union {None}]]
      BY <1>0, <1>1, <3>1 DEF Data
    <3> QED
      BY <1>0, <3>1, <3>2, <3>3 DEF Data
  <2> QED
    BY <2>1, <2>2
<1>5. \A j \in Islands : \/ watching'[j] = {}
                         \/ watching'[j] \subseteq watching[j] /\ hash'[j] = hash[j]
  BY <1>0 DEF Clear, Data, redis
<1> QED
  BY <1>2, <1>3, <1>4, <1>5, <1>6, GoInv

(* It clears the memory. *)
LEMMA ClearedInv == ASSUME IInv, NEW t \in Tasks, Cleared(t) PROVE IInv'
<1> USE IslandsAssumption
<1>0. task[t] \in Task /\ Knows(t, task[t]) /\ Data /\ TypeOK
  BY At, OldData DEF IInv
<1>1. Go(t, NextJob(task[t])) /\ Data' /\ watching' = watching /\ hash' = hash /\ UNCHANGED counts
  BY <1>0 DEF Cleared, Data, redis, memory, blobs
<1> QED
  BY <1>0, <1>1, NextJobTask, NextJobKnows, GoInv

(* An addition is refused by what Redis holds. *)
LEMMA RefuseInv == ASSUME IInv, NEW t \in Tasks, Refuse(t) PROVE IInv'
<1> USE IslandsAssumption
<1>0. task[t] \in Task /\ Knows(t, task[t]) /\ Data /\ TypeOK
  BY At, OldData DEF IInv
<1> DEFINE r == task[t]
<1>1. r.on \in Islands /\ r.cell \in Cells /\ r.prog \in Programs /\ r.seen \in Programs
  BY <1>0 DEF Refuse, Knows, Task, Stale
<1>2. AfterAdd(t, r, FALSE) \in Task /\ Knows(t, AfterAdd(t, r, FALSE))
      /\ AfterAdd(t, r, FALSE).pc # "seen"
  BY <1>0, <1>1, AfterAddTask, AfterAddKnows
<1>3. Go(t, AfterAdd(t, r, FALSE)) /\ hash' = hash /\ UNCHANGED counts
  BY DEF Refuse
<1>4. Data'
  BY <1>0, <1>1 DEF Refuse, Data, CacheSet, Beats, blobs
<1>5. \A j \in Islands : watching'[j] \subseteq watching[j]
  BY <1>0 DEF Refuse, Data
<1> QED
  BY <1>0, <1>2, <1>3, <1>4, <1>5, GoInv

(* A transaction is executed. *)
LEMMA ExecInv == ASSUME IInv, NEW t \in Tasks, Exec(t) PROVE IInv'
<1> USE IslandsAssumption
<1>0. task[t] \in Task /\ Knows(t, task[t]) /\ Data /\ TypeOK
  BY At, OldData DEF IInv
<1> DEFINE r == task[t]
<1>1. r.on \in Islands /\ r.cell \in Cells /\ r.prog \in Programs
  BY <1>0 DEF Exec, Knows, Task
<1>2. [r EXCEPT !.pc = "stored"] \in Task /\ Knows(t, [r EXCEPT !.pc = "stored"])
  BY <1>0, <1>1 DEF Task, Pcs, Knows, Exec
<1>3. Go(t, [r EXCEPT !.pc = "stored"]) /\ UNCHANGED counts
  BY DEF Exec, Commit
<1>4. Reversed(r) \in [Programs -> Cells \union {None}]
  BY <1>0, <1>1 DEF Reversed, Data
<1>5. Data'
  BY <1>0, <1>1, <1>4 DEF Exec, Commit, Data, memory, blobs, Task
<1>6. \A j \in Islands : \/ watching'[j] = {}
                         \/ watching'[j] \subseteq watching[j] /\ hash'[j] = hash[j]
  BY <1>0, <1>1 DEF Exec, Commit, Data
<1>7. [r EXCEPT !.pc = "stored"].pc # "seen"
  BY <1>0 DEF Task
<1> QED
  BY <1>2, <1>3, <1>5, <1>6, <1>7, GoInv

(* It is repeated. *)
LEMMA RetryInv == ASSUME IInv, NEW t \in Tasks, Retry(t) PROVE IInv'
<1> USE IslandsAssumption
<1>0. task[t] \in Task /\ Knows(t, task[t]) /\ Data /\ TypeOK
  BY At, OldData DEF IInv
<1> DEFINE r == [task[t] EXCEPT !.pc = "watch", !.seen = None]
<1>1. task[t].on \in Islands /\ task[t].cell \in Cells
  BY <1>0 DEF Retry, Knows, Task
<1>2. r \in Task /\ Knows(t, r) /\ r.pc # "seen"
  BY <1>0 DEF Task, Pcs, Knows, Retry
<1>3. Go(t, r) /\ watching' = watching /\ hash' = hash /\ UNCHANGED counts
  BY DEF Retry, redis
<1>4. Data'
  BY <1>0, <1>1 DEF Retry, Data, redis, blobs
<1> QED
  BY <1>2, <1>3, <1>4, GoInv

(* Its answer arrives. *)
LEMMA StoredInv == ASSUME IInv, NEW t \in Tasks, Stored(t) PROVE IInv'
<1> USE IslandsAssumption
<1>0. task[t] \in Task /\ Knows(t, task[t]) /\ Data /\ TypeOK
  BY At, OldData DEF IInv
<1> DEFINE q == task[t]
           r == IF t \in Helpers("reindex") THEN AfterAdd(t, q, TRUE)
                ELSE [q EXCEPT !.pc = "limit", !.cur = None, !.seen = None]
<1>1. q.on \in Islands /\ q.cell \in Cells /\ q.prog \in Programs
  BY <1>0 DEF Stored, Knows, Task
<1>2. r \in Task
  <2>1. [q EXCEPT !.pc = "limit", !.cur = None, !.seen = None] \in Task
    BY <1>0 DEF Task, Pcs
  <2> QED
    BY <1>0, <1>1, <2>1, AfterAddTask
<1>3. Knows(t, r) /\ r.pc # "seen"
  BY ZenonT(30), <1>0, <1>1, AfterAddKnows DEF Task, Knows
<1>4. Go(t, r) /\ watching' = watching /\ hash' = hash /\ UNCHANGED counts
  BY DEF Stored, redis
<1>5. Data'
  <2>1. home' \in [Programs -> Islands \union {None}]
    BY ZenonT(30), <1>0, <1>1 DEF Stored, Data
  <2>2. CacheSet(q.on, q.cell, q.prog) /\ UNCHANGED <<redis, cell, state, beaten>>
    BY DEF Stored
  <2> QED
    BY <1>0, <1>1, <2>1, <2>2 DEF Data, CacheSet, redis
<1> QED
  BY <1>2, <1>3, <1>4, <1>5, GoInv

(* An addition compares with the memory. *)
LEMMA AddInv == ASSUME IInv, NEW t \in Tasks, Add(t) PROVE IInv'
<1> USE IslandsAssumption
<1>0. task[t] \in Task /\ Knows(t, task[t]) /\ Data /\ TypeOK
  BY At, OldData DEF IInv
<1>a. PICK job \in task[t].todo : \E i \in Route(t, job) :
        LET cur == cache[i][job.cell]
            r == [task[t] EXCEPT !.todo = @ \ {job}, !.prog = job.prog, !.src = job.src,
                                 !.cell = job.cell, !.on = i, !.cur = cur] IN
        IF cur # None /\ ~Better(job.prog, cur)
        THEN Go(t, AfterAdd(t, r, FALSE)) /\ Beats(t, job.prog)
        ELSE Go(t, [r EXCEPT !.pc = "watch"]) /\ UNCHANGED beaten
  BY DEF Add
<1>1. PICK i \in Route(t, job) :
        LET cur == cache[i][job.cell]
            r == [task[t] EXCEPT !.todo = @ \ {job}, !.prog = job.prog, !.src = job.src,
                                 !.cell = job.cell, !.on = i, !.cur = cur] IN
        IF cur # None /\ ~Better(job.prog, cur)
        THEN Go(t, AfterAdd(t, r, FALSE)) /\ Beats(t, job.prog)
        ELSE Go(t, [r EXCEPT !.pc = "watch"]) /\ UNCHANGED beaten
  BY <1>a
<1>2. job \in Jobs /\ i \in Islands
  BY <1>0 DEF Task, Route, Helpers
<1>3. job.prog \in Programs /\ job.src \in Islands \union {None} /\ job.cell \in Cells
  BY <1>2 DEF Jobs
<1> DEFINE cur == cache[i][job.cell]
           r == [task[t] EXCEPT !.todo = @ \ {job}, !.prog = job.prog, !.src = job.src,
                                !.cell = job.cell, !.on = i, !.cur = cur]
           s == [r EXCEPT !.pc = "watch"]
<1>4. cur \in Programs \union {None}
  BY <1>0, <1>2, <1>3 DEF Data
<1>5. /\ r \in Task /\ r.prog = job.prog /\ r.on = i
      /\ s \in Task /\ s.pc = "watch" /\ s.prog = job.prog /\ s.on = i /\ s.cell = job.cell
      /\ s.cur = cur
  <2> HIDE DEF cur
  <2> QED
    BY ZenonT(30), <1>0, <1>2, <1>3, <1>4 DEF Task, Pcs
<1>6. watching' = watching /\ hash' = hash /\ UNCHANGED counts
  BY DEF Add, redis
<1>7. CASE cur # None /\ ~Better(job.prog, cur)
  <2>1. Go(t, AfterAdd(t, r, FALSE)) /\ Beats(t, job.prog)
    BY <1>1, <1>7
  <2>2. AfterAdd(t, r, FALSE) \in Task /\ Knows(t, AfterAdd(t, r, FALSE))
        /\ AfterAdd(t, r, FALSE).pc # "seen"
    BY <1>2, <1>3, <1>5, AfterAddTask, AfterAddKnows
  <2>3. Data'
    BY <1>0, <1>3, <2>1 DEF Add, Data, redis, memory, blobs, Beats
  <2> QED
    BY <1>0, <1>6, <2>1, <2>2, <2>3, GoInv
<1>8. CASE ~(cur # None /\ ~Better(job.prog, cur))
  <2>1. Go(t, s) /\ UNCHANGED beaten
    BY <1>1, <1>8
  <2>2. Knows(t, s)
    BY <1>2, <1>3, <1>5, <1>8 DEF Knows
  <2>3. Data'
    BY <1>0, <2>1 DEF Add, Data, redis, memory, blobs
  <2> HIDE DEF s
  <2> QED
    BY <1>0, <1>5, <1>6, <2>1, <2>2, <2>3, GoInv
<1> QED
  BY <1>7, <1>8

(* The size of an island is looked at. *)
LEMMA LimitInv == ASSUME IInv, NEW t \in Tasks, Limit(t) PROVE IInv'
<1> USE IslandsAssumption
<1>0. task[t] \in Task /\ Knows(t, task[t]) /\ Data /\ TypeOK
  BY At, OldData DEF IInv
<1> DEFINE r == task[t]
<1>1. r.on \in Islands /\ (t \in Helpers("enforce") \/ r.prog \in Programs)
  BY <1>0 DEF Limit, Knows, Task
<1>2. AfterLimit(t, r) \in Task /\ Knows(t, AfterLimit(t, r)) /\ AfterLimit(t, r).pc # "seen"
  BY <1>0, <1>1, AfterLimitTask, AfterLimitKnows
<1>3. ASSUME NEW V \in SUBSET Cached(r.on)
      PROVE  LET q == [r EXCEPT !.pc = "look", !.out = V, !.why = "limit"] IN
             q \in Task /\ Knows(t, q) /\ q.pc # "seen"
  <2>1. V \in SUBSET Programs
    BY <1>0, <1>1, CachedPrograms
  <2>2. [r EXCEPT !.pc = "look", !.out = V, !.why = "limit"] \in Task
    BY <1>0, <2>1 DEF Task, Pcs
  <2> QED
    BY <1>0, <1>1, <2>2 DEF Task, Knows
<1>4. Data' /\ watching' = watching /\ hash' = hash /\ UNCHANGED counts
  BY <1>0 DEF Limit, Data, redis, memory, blobs
<1>5. \E q \in Task : Go(t, q) /\ Knows(t, q) /\ q.pc # "seen"
  BY <1>2, <1>3 DEF Limit
<1> QED
  BY <1>4, <1>5, GoInv

(* The cells of what is removed are looked up. *)
LEMMA LookInv == ASSUME IInv, NEW t \in Tasks, Look(t) PROVE IInv'
<1> USE IslandsAssumption
<1>0. task[t] \in Task /\ Knows(t, task[t]) /\ Data /\ TypeOK
  BY At, OldData DEF IInv
<1> DEFINE r == task[t]
           at == [p \in Programs |-> IF p \in r.out THEN rev[Target(r)][p] ELSE None]
           q == [r EXCEPT !.pc = IF at = Idle.at THEN "wiped" ELSE "wipe", !.at = at]
<1>1. Target(r) \in Islands
  BY <1>0 DEF Look, Knows, Task, Target
<1>2. at \in [Programs -> Cells \union {None}]
  BY <1>0, <1>1 DEF Data
<1>3. \A f \in [Programs -> Cells \union {None}], x \in {"wiped", "wipe"} :
        LET s == [r EXCEPT !.pc = x, !.at = f] IN
        s \in Task /\ Knows(t, s) /\ s.pc # "seen"
  <2> SUFFICES ASSUME NEW f \in [Programs -> Cells \union {None}],
                      NEW x \in {"wiped", "wipe"}
               PROVE  LET s == [r EXCEPT !.pc = x, !.at = f] IN
                      s \in Task /\ Knows(t, s) /\ s.pc # "seen"
    OBVIOUS
  <2>1. [r EXCEPT !.pc = x, !.at = f] \in Task
    BY <1>0 DEF Task, Pcs
  <2> QED
    BY <1>0, <2>1 DEF Look, Task, Knows
<1>4. q \in Task /\ Knows(t, q) /\ q.pc # "seen"
  <2>1. (IF at = Idle.at THEN "wiped" ELSE "wipe") \in {"wiped", "wipe"}
    OBVIOUS
  <2> QED
    BY <1>2, <1>3, <2>1
<1>5. Go(t, q) /\ Data' /\ watching' = watching /\ hash' = hash /\ UNCHANGED counts
  BY <1>0 DEF Look, Data, redis, memory, blobs
<1> QED
  BY <1>4, <1>5, GoInv

(* They are deleted in Redis. *)
LEMMA WipeInv == ASSUME IInv, NEW t \in Tasks, Wipe(t) PROVE IInv'
<1> USE IslandsAssumption
<1>0. task[t] \in Task /\ Knows(t, task[t]) /\ Data /\ TypeOK
  BY At, OldData DEF IInv
<1> DEFINE r == task[t]
           i == Target(r)
           found == {p \in Programs : r.at[p] # None}
           gone == {r.at[p] : p \in found}
           q == [r EXCEPT !.pc = "wiped"]
<1>1. i \in Islands
  BY <1>0 DEF Wipe, Knows, Task, Target
<1>2. q \in Task /\ Knows(t, q) /\ q.pc # "seen"
  BY <1>0 DEF Wipe, Task, Pcs, Knows
<1>3. /\ hash' = [hash EXCEPT ![i] = [c \in Cells |-> IF c \in gone THEN None ELSE @[c]]]
      /\ rev' = [rev EXCEPT ![i] = [p \in Programs |-> IF p \in found THEN None ELSE @[p]]]
      /\ watching' = [watching EXCEPT ![i] = IF hash' = hash THEN @ ELSE {}]
      /\ Go(t, q) /\ UNCHANGED counts
      /\ UNCHANGED <<cache, where, cell, state, home, beaten>>
  BY DEF Wipe, memory, blobs
<1> HIDE DEF gone, found
<1>4. hash' \in [Islands -> [Cells -> Programs \union {None}]]
  BY <1>0, <1>1, <1>3 DEF Data
<1>5. rev' \in [Islands -> [Programs -> Cells \union {None}]]
  BY <1>0, <1>1, <1>3 DEF Data
<1>6. watching' \in [Islands -> SUBSET Tasks]
  BY <1>0, <1>1, <1>3 DEF Data
<1>7. Data'
  BY <1>0, <1>3, <1>4, <1>5, <1>6 DEF Data
<1>8. \A j \in Islands : \/ watching'[j] = {}
                         \/ watching'[j] \subseteq watching[j] /\ hash'[j] = hash[j]
  BY <1>0, <1>1, <1>3 DEF Data
<1> QED
  BY <1>2, <1>3, <1>7, <1>8, GoInv

(* What was removed is forgotten.                                          *)
LEMMA ForgetData ==
  ASSUME Data, NEW r \in Task, Target(r) \in Islands, Forget(r)
  PROVE  /\ cache' \in [Islands -> [Cells -> Programs \union {None}]]
         /\ where' \in [Islands -> [Programs -> Cells \union {None}]]
<1> DEFINE i == Target(r)
           gone == {where[i][p] : p \in r.out}
<1>1. CASE r.at = Idle.at
  BY <1>1 DEF Data, Forget, memory
<1>2. CASE r.at # Idle.at
  <2>1. /\ cache' = [cache EXCEPT ![i] = [c \in Cells |-> IF c \in gone THEN None ELSE @[c]]]
        /\ where' = [where EXCEPT ![i] = [p \in Programs |-> IF p \in r.out THEN None ELSE @[p]]]
    BY <1>2 DEF Forget
  <2> HIDE DEF gone
  <2>2. cache' \in [Islands -> [Cells -> Programs \union {None}]]
    BY <2>1 DEF Data
  <2>3. where' \in [Islands -> [Programs -> Cells \union {None}]]
    BY <2>1 DEF Data
  <2> QED
    BY <2>2, <2>3
<1> QED
  BY <1>1, <1>2

(* An eviction ends. *)
LEMMA EvictedInv == ASSUME IInv, NEW t \in Tasks, Evicted(t) PROVE IInv'
<1> USE IslandsAssumption
<1>0. task[t] \in Task /\ Knows(t, task[t]) /\ Data /\ TypeOK
  BY At, OldData DEF IInv
<1> DEFINE r == task[t]
<1>1. Target(r) \in Islands /\ r.on \in Islands /\ r.out \in SUBSET Programs
  BY <1>0 DEF Evicted, Knows, Task, Target
<1>2. t \in Helpers("enforce") \/ r.prog \in Programs
  BY <1>0 DEF Evicted, Knows, Task
<1>3. AfterLimit(t, r) \in Task /\ Knows(t, AfterLimit(t, r)) /\ AfterLimit(t, r).pc # "seen"
  BY <1>0, <1>1, <1>2, AfterLimitTask, AfterLimitKnows
<1>4. Go(t, AfterLimit(t, r)) /\ watching' = watching /\ hash' = hash /\ UNCHANGED counts
  BY DEF Evicted, redis
<1>5. Data'
  <2>1. Forget(r) /\ UNCHANGED <<hash, rev, watching, cell, beaten>>
    BY DEF Evicted, redis
  <2>2. state' \in [Programs -> {"NEW", "DONE", "DISCARDED"}]
        /\ home' \in [Programs -> Islands \union {None}]
    BY <1>0 DEF Evicted, Data
  <2> QED
    BY <1>0, <1>1, <2>1, <2>2, ForgetData DEF Data
<1> QED
  BY <1>3, <1>4, <1>5, GoInv

(* A migrant has left its source, or is taken back. *)
LEMMA MovedInv == ASSUME IInv, NEW t \in Tasks, Moved(t) PROVE IInv'
<1> USE IslandsAssumption
<1>0. task[t] \in Task /\ Knows(t, task[t]) /\ Data /\ TypeOK
  BY At, OldData DEF IInv
<1> DEFINE r == [task[t] EXCEPT !.at = Idle.at]
           q == [r EXCEPT !.pc = "look", !.why = "rollback"]
<1>1. Target(task[t]) \in Islands
  BY <1>0 DEF Moved, Knows, Task, Target
<1>2. r \in Task /\ r.on = task[t].on /\ r.prog = task[t].prog
  BY <1>0 DEF Task, Idle
<1>3. NextJob(r) \in Task /\ Knows(t, NextJob(r)) /\ NextJob(r).pc # "seen"
  BY <1>2, NextJobTask, NextJobKnows
<1>4. q \in Task /\ Knows(t, q) /\ q.pc # "seen"
  <2>1. q \in Task
    BY <1>2 DEF Task, Pcs
  <2> HIDE DEF r
  <2> QED
    BY <1>0, <1>2, <2>1 DEF Moved, Task, Knows
<1>5. Data' /\ watching' = watching /\ hash' = hash /\ UNCHANGED counts
  BY <1>0, <1>1, ForgetData DEF Moved, Data, redis, blobs
<1>6. Go(t, NextJob(r)) \/ Go(t, q)
  BY DEF Moved
<1> HIDE DEF q, r
<1> QED
  BY <1>3, <1>4, <1>5, <1>6, GoInv

(* It has been taken back. *)
LEMMA RolledBackInv == ASSUME IInv, NEW t \in Tasks, RolledBack(t) PROVE IInv'
<1> USE IslandsAssumption
<1>0. task[t] \in Task /\ Knows(t, task[t]) /\ Data /\ TypeOK
  BY At, OldData DEF IInv
<1>1. Target(task[t]) \in Islands
  BY <1>0 DEF RolledBack, Knows, Task, Target
<1>2. Data' /\ watching' = watching /\ hash' = hash /\ UNCHANGED counts
  BY <1>0, <1>1, ForgetData DEF RolledBack, Data, redis, blobs
<1> QED
  BY <1>0, <1>2, NextJobTask, NextJobKnows, GoInv DEF RolledBack

(* A cell is watched and read. *)
LEMMA WatchInv == ASSUME IInv, NEW t \in Tasks, Watch(t) PROVE IInv'
<1> USE IslandsAssumption
<1>0. task[t] \in Task /\ Knows(t, task[t]) /\ Data /\ TypeOK
  BY At, OldData DEF IInv
<1> DEFINE r == [task[t] EXCEPT !.pc = "seen", !.seen = hash[task[t].on][task[t].cell]]
<1>1. task[t].on \in Islands /\ task[t].cell \in Cells
  BY <1>0 DEF Watch, Knows, Task
<1>2. hash[task[t].on][task[t].cell] \in Programs \union {None}
  BY <1>0, <1>1 DEF Data
<1>3. r \in Task /\ r.on = task[t].on /\ r.cell = task[t].cell
      /\ r.seen = hash[task[t].on][task[t].cell]
  BY ZenonT(30), <1>0, <1>2 DEF Task, Pcs
<1>4. Knows(t, r)
  BY <1>0 DEF Watch, Task, Pcs, Knows
<1>5. task' = [task EXCEPT ![t] = r] /\ hash' = hash /\ UNCHANGED counts
      /\ watching' = [watching EXCEPT ![task[t].on] = @ \union {t}]
  BY DEF Watch, Go
<1>6. Data'
  BY <1>0, <1>1 DEF Watch, Data, memory, blobs
<1> HIDE DEF r
<1>7. TypeOK'
  BY <1>0, <1>3, <1>5, <1>6 DEF TypeOK, Data, counts
<1>8. Placed'
  BY <1>0, <1>4, <1>5 DEF IInv, TypeOK, Placed, Knows
<1>9. Watched'
  <2> SUFFICES ASSUME NEW u \in Tasks, task'[u].pc = "seen", u \in watching'[task'[u].on]
               PROVE  hash'[task'[u].on][task'[u].cell] = task'[u].seen
    BY DEF Watched
  <2>1. CASE u = t
    BY <1>0, <1>3, <1>5, <2>1 DEF TypeOK
  <2>2. CASE u # t
    <3>1. task'[u] = task[u] /\ task[u].on \in Islands
      BY <1>0, <1>5, <2>2 DEF IInv, TypeOK, Placed, Task
    <3>2. u \in watching[task[u].on]
      BY <1>0, <1>1, <1>5, <2>2, <3>1 DEF Data
    <3> QED
      BY <1>5, <3>1, <3>2 DEF IInv, Watched
  <2> QED
    BY <2>1, <2>2
<1> QED
  BY <1>7, <1>8, <1>9 DEF IInv

(* A task has nothing left to do. *)
LEMMA FinishInv == ASSUME IInv, NEW t \in Tasks, Finish(t) PROVE IInv'
<1> USE IslandsAssumption
<1>0. task[t] \in Task /\ Knows(t, task[t]) /\ Data /\ TypeOK
  BY At, OldData DEF IInv
<1>1. Data' /\ Counters' /\ overlap' \in BOOLEAN /\ watching' = watching /\ hash' = hash
  BY <1>0, OldData DEF Finish, Data, Counters, redis, memory, blobs, counts
<1>2. ASSUME NEW u \in Tasks
      PROVE  LET r == [Idle EXCEPT !.pc = "waiting"] IN
             r \in Task /\ Knows(u, r) /\ r.pc # "seen"
  BY DEF Idle, Task, Pcs, Knows
<1>7. ASSUME NEW u \in Tasks
      PROVE  LET r == [task[u] EXCEPT !.pc = "verdict"] IN
             r \in Task /\ Knows(u, r) /\ r.pc # "seen"
  <2>1. [task[u] EXCEPT !.pc = "verdict"] \in Task
    BY At DEF Task, Pcs
  <2> QED
    BY At, <2>1 DEF Task, Knows
<1>3. ASSUME NEW u \in Helpers("enforce")
      PROVE  LET r == [Idle EXCEPT !.pc = "limit", !.on = u[2]] IN
             r \in Task /\ Knows(u, r) /\ r.pc # "seen"
  <2>1. u[2] \in Islands
    BY DEF Helpers
  <2> QED
    BY <2>1 DEF Idle, Task, Pcs, Knows
<1>4. CASE t = Ingestor
  <2>1. task' = [task EXCEPT ![t].pc = "verdict"]
    BY <1>4 DEF Finish, Ingestor, Selector
  <2> QED
    BY <1>1, <1>7, <2>1, OldData, TasksInv
<1>5. CASE t = Selector
  <2>1. task' = [u \in Tasks |->
                   CASE u = t -> [Idle EXCEPT !.pc = "waiting"]
                     [] u \in Helpers("enforce") ->
                          [Idle EXCEPT !.pc = "limit", !.on = u[2]]
                     [] OTHER -> task[u]]
    BY <1>5 DEF Finish, Ingestor, Selector
  <2>2. t \notin Helpers("enforce")
    BY <1>5 DEF Selector, Helpers
  <2>3. \A u \in Tasks : /\ task'[u] \in Task
                         /\ \/ task'[u] = task[u]
                            \/ Knows(u, task'[u]) /\ task'[u].pc # "seen"
    <3> SUFFICES ASSUME NEW u \in Tasks
                 PROVE  /\ task'[u] \in Task
                        /\ \/ task'[u] = task[u]
                           \/ Knows(u, task'[u]) /\ task'[u].pc # "seen"
      OBVIOUS
    <3>1. CASE u = t
      BY <1>2, <2>1, <2>2, <3>1
    <3>2. CASE u \in Helpers("enforce")
      BY <1>3, <2>1, <2>2, <3>2
    <3>3. CASE u # t /\ u \notin Helpers("enforce")
      BY <2>1, <3>3, At
    <3> QED
      BY <3>1, <3>2, <3>3
  <2> QED
    BY <1>1, <2>1, <2>3, TasksInv
<1>6. CASE t \notin {Ingestor, Selector}
  <2>1. task' = [task EXCEPT ![t] = Idle]
    BY <1>6 DEF Finish
  <2> QED
    BY <1>1, <2>1, IdleTask, IdleKnows, OldData, TasksInv DEF Idle
<1> QED
  BY <1>4, <1>5, <1>6

(* An answer is lost and the operation repeated. *)
LEMMA LoseAnswerInv == ASSUME IInv, NEW t \in Tasks, LoseAnswer(t) PROVE IInv'
<1> USE IslandsAssumption
<1>0. task[t] \in Task /\ Knows(t, task[t]) /\ Data /\ TypeOK
  BY At, OldData DEF IInv
<1>1. Data' /\ Counters' /\ overlap' \in BOOLEAN /\ watching' = watching /\ hash' = hash
  BY <1>0, OldData DEF LoseAnswer, MoreEvents, Events, Data, Counters, redis, memory, blobs
<1> DEFINE r == [task[t] EXCEPT !.pc = "watch", !.seen = None]
           q == [task[t] EXCEPT !.pc = "look", !.at = Idle.at]
<1>2. CASE task[t].pc = "stored" /\ Go(t, r)
  <2>1. r \in Task /\ Knows(t, r) /\ r.pc # "seen"
    BY ZenonT(30), <1>0, <1>2 DEF Task, Pcs, Knows
  <2> QED
    BY <1>1, <1>2, <2>1, OldData, TasksInv DEF Go
<1>3. CASE task[t].pc = "wiped" /\ Go(t, q)
  <2>1. q \in Task /\ Knows(t, q) /\ q.pc # "seen"
    BY ZenonT(60), <1>0, <1>3 DEF Task, Pcs, Knows, Idle
  <2> QED
    BY <1>1, <1>3, <2>1, OldData, TasksInv DEF Go
<1> QED
  BY <1>2, <1>3 DEF LoseAnswer

(* An operation fails for good. *)
LEMMA FailInv == ASSUME IInv, NEW t \in Tasks, Fail(t) PROVE IInv'
<1> USE IslandsAssumption
<1>0. task[t] \in Task /\ Knows(t, task[t]) /\ Data /\ TypeOK
  BY At, OldData DEF IInv
<1>1. Data' /\ Counters' /\ overlap' \in BOOLEAN /\ hash' = hash
  BY <1>0, OldData DEF Fail, MoreEvents, Events, Data, Counters, memory, blobs
<1>2. \A i \in Islands : watching'[i] \subseteq watching[i]
  BY DEF Fail
<1>3. \A u \in Tasks : task'[u] \in {task[u], Idle, NextJob(task[u])}
  BY DEF Fail
<1>4. \A u \in Tasks : /\ task'[u] \in Task
                       /\ \/ task'[u] = task[u]
                          \/ Knows(u, task'[u]) /\ task'[u].pc # "seen"
  <2> SUFFICES ASSUME NEW u \in Tasks
               PROVE  /\ task'[u] \in Task
                      /\ \/ task'[u] = task[u]
                         \/ Knows(u, task'[u]) /\ task'[u].pc # "seen"
    OBVIOUS
  <2>1. Idle \in Task /\ Knows(u, Idle) /\ Idle.pc # "seen"
    BY IdleTask, IdleKnows DEF Idle
  <2>2. /\ task[u] \in Task /\ NextJob(task[u]) \in Task
        /\ Knows(u, NextJob(task[u])) /\ NextJob(task[u]).pc # "seen"
    BY At, NextJobTask, NextJobKnows
  <2> QED
    BY <1>3, <2>1, <2>2
<1>5. DOMAIN task' = Tasks /\ task' = [u \in Tasks |-> task'[u]]
  BY DEF Fail
<1>6. task' \in [Tasks -> Task]
  BY <1>4, <1>5
<1> QED
  BY <1>1, <1>2, <1>4, <1>6, TasksInv

(* The callers. *)
LEMMA IngestInv == ASSUME IInv, NEW B \in SUBSET Programs, Ingest(B) PROVE IInv'
<1> DEFINE jobs == {[prog |-> p, src |-> None, cell |-> cell[p]] : p \in B}
           before == IF engine = "generational" THEN Active ELSE {}
           r == [Idle EXCEPT !.pc = "next", !.batch = B, !.before = before, !.todo = jobs]
<1>1. Ingestor \in Tasks /\ Data /\ TypeOK
  BY OldData DEF Tasks, IInv
<1>2. jobs \in SUBSET Jobs
  BY <1>1 DEF Jobs, Data
<1>3. before \in SUBSET Programs
  BY <1>1, CachedPrograms DEF Active
<1>4. Go(Ingestor, r) /\ watching' = watching /\ hash' = hash
  BY DEF Ingest, redis
<1> HIDE DEF jobs, before
<1>5. r \in Task /\ Knows(Ingestor, r) /\ r.pc # "seen"
  BY <1>2, <1>3 DEF Idle, Task, Pcs, Knows
<1>6. Data'
  BY <1>1 DEF Ingest, Data, redis, memory
<1>7. Counters' /\ overlap' \in BOOLEAN
  BY OldData DEF Ingest, Counters
<1> QED
  BY <1>1, <1>4, <1>5, <1>6, <1>7, OldData, TasksInv DEF Go

LEMMA VerdictInv == ASSUME IInv, Verdict PROVE IInv'
<1>1. Ingestor \in Tasks
  BY DEF Tasks
<1>2. Go(Ingestor, Idle) /\ watching' = watching /\ hash' = hash /\ UNCHANGED counts
  BY DEF Verdict, redis
<1>3. Data'
  BY OldData DEF Verdict, Data, redis, memory
<1> QED
  BY <1>1, <1>2, <1>3, IdleTask, IdleKnows, GoInv DEF Idle

LEMMA StartMigrationInv == ASSUME IInv, StartMigration PROVE IInv'
<1>1. Selector \in Tasks /\ Data /\ TypeOK
  BY OldData DEF Tasks, IInv
<1>2. PICK M \in [Islands -> SUBSET Programs] :
        /\ \A i \in Islands : M[i] \in MigrantsOf(i)
        /\ Go(Selector, [Idle EXCEPT !.pc = "next",
             !.todo = {[prog |-> p, src |-> home[p], cell |-> cell[p]] :
                         p \in UNION {M[i] : i \in Islands}}])
  BY DEF StartMigration
<1> DEFINE chosen == UNION {M[i] : i \in Islands}
           jobs == {[prog |-> p, src |-> home[p], cell |-> cell[p]] : p \in chosen}
           r == [Idle EXCEPT !.pc = "next", !.todo = jobs]
<1>3. chosen \subseteq Programs
  BY <1>2
<1>4. jobs \in SUBSET Jobs
  <2> HIDE DEF chosen
  <2> QED
    BY <1>1, <1>3 DEF Jobs, Data
<1>5. Go(Selector, r)
  BY <1>2
<1> HIDE DEF jobs
<1>6. r \in Task /\ Knows(Selector, r) /\ r.pc # "seen"
  BY <1>4 DEF Idle, Task, Pcs, Knows
<1>7. Data' /\ watching' = watching /\ hash' = hash
  BY <1>1 DEF StartMigration, Data, redis, memory, blobs
<1>8. Counters' /\ overlap' \in BOOLEAN
  <2>1. overlap' \in BOOLEAN
    BY DEF StartMigration
  <2>2. Counters'
    BY OldData, IslandsAssumption DEF StartMigration, MoreEvents, Events, Counters
  <2> QED
    BY <2>1, <2>2
<1> QED
  BY <1>1, <1>5, <1>6, <1>7, <1>8, OldData, TasksInv DEF Go

LEMMA WaitEndsInv == ASSUME IInv, MigrationEnds \/ ReindexEnds PROVE IInv'
<1>1. Ingestor \in Tasks /\ Selector \in Tasks
  BY DEF Tasks
<1>2. Go(Ingestor, Idle) \/ Go(Selector, Idle)
  BY DEF MigrationEnds, ReindexEnds
<1>3. Data' /\ watching' = watching /\ hash' = hash /\ UNCHANGED counts
  BY OldData DEF MigrationEnds, ReindexEnds, Data, redis, memory, blobs
<1> QED
  BY <1>1, <1>2, <1>3, IdleTask, IdleKnows, GoInv DEF Idle

LEMMA StartReindexInv == ASSUME IInv, StartReindex PROVE IInv'
<1> USE IslandsAssumption
<1>1. Data'
  BY OldData DEF StartReindex, Data, redis, memory
<1>2. Counters' /\ overlap' \in BOOLEAN /\ watching' = watching /\ hash' = hash
  <2>1. overlap' \in BOOLEAN /\ watching' = watching /\ hash' = hash
    BY OldData DEF StartReindex, redis
  <2>2. /\ MoreEvents /\ reindexes' = reindexes + 1
        /\ UNCHANGED <<engine, migrations, faults, crashes>>
    BY DEF StartReindex
  <2>3. Counters'
    BY <2>2, OldData DEF MoreEvents, Events, Counters
  <2> QED
    BY <2>1, <2>3
<1>3. task' = [t \in Tasks |->
                 CASE t = Ingestor -> [Idle EXCEPT !.pc = "waiting"]
                   [] t \in Helpers("reindex") -> [Idle EXCEPT !.pc = "gather", !.on = t[2]]
                   [] OTHER -> task[t]]
  BY DEF StartReindex
<1>4. \A t \in Tasks : LET r == [Idle EXCEPT !.pc = "waiting"] IN
                       r \in Task /\ Knows(t, r) /\ r.pc # "seen"
  BY DEF Idle, Task, Pcs, Knows
<1>5. ASSUME NEW t \in Helpers("reindex")
      PROVE  LET r == [Idle EXCEPT !.pc = "gather", !.on = t[2]] IN
             r \in Task /\ Knows(t, r) /\ r.pc # "seen"
  <2>1. t[2] \in Islands
    BY DEF Helpers
  <2> QED
    BY <2>1 DEF Idle, Task, Pcs, Knows
<1>6. Ingestor \notin Helpers("reindex")
  BY DEF Ingestor, Helpers
<1>7. ASSUME NEW t \in Tasks
      PROVE  /\ task'[t] \in Task
             /\ task'[t] = task[t] \/ (Knows(t, task'[t]) /\ task'[t].pc # "seen")
  <2>1. CASE t = Ingestor
    BY <1>3, <1>4, <1>6, <2>1
  <2>2. CASE t \in Helpers("reindex")
    BY <1>3, <1>5, <1>6, <2>2
  <2>3. CASE t # Ingestor /\ t \notin Helpers("reindex")
    BY <1>3, <2>3, At
  <2> QED
    BY <2>1, <2>2, <2>3
<1>8. task' \in [Tasks -> Task]
  BY <1>3, <1>7
<1> QED
  BY <1>1, <1>2, <1>7, <1>8, TasksInv

LEMMA CrashInv == ASSUME IInv, Crash PROVE IInv'
<1>1. Data'
  BY OldData DEF Crash, Data, blobs
<1>2. Counters' /\ overlap' \in BOOLEAN
  <2>1. overlap' \in BOOLEAN
    BY OldData DEF Crash
  <2>2. Counters'
    BY OldData, IslandsAssumption DEF Crash, MoreEvents, Events, Counters
  <2> QED
    BY <2>1, <2>2
<1>3. /\ task' = [t \in Tasks |-> Idle]
      /\ \A i \in Islands : watching'[i] = {}
  BY DEF Crash
<1>4. \A t \in Tasks : Idle \in Task /\ Knows(t, Idle) /\ Idle.pc # "seen"
  BY IdleTask, IdleKnows DEF Idle
<1> QED
  BY <1>1, <1>2, <1>3, <1>4, TasksInv

LEMMA InitInv == Init => IInv
<1> SUFFICES ASSUME Init PROVE IInv
  OBVIOUS
<1>1. Data /\ Counters /\ overlap \in BOOLEAN
  <2>1. Data
    BY DEF Init, Data
  <2>2. Counters
    BY IslandsAssumption DEF Init, Counters
  <2>3. overlap \in BOOLEAN
    BY DEF Init
  <2> QED
    BY <2>1, <2>2, <2>3
<1>2. task = [t \in Tasks |-> Idle]
  BY DEF Init
<1>3. \A t \in Tasks : Idle \in Task /\ Knows(t, Idle) /\ Idle.pc # "seen"
  BY IdleTask, IdleKnows DEF Idle
<1>4. TypeOK
  BY <1>1, <1>2, <1>3 DEF TypeOK, Data, Counters
<1>5. Placed
  BY <1>2, <1>3 DEF Placed, Knows
<1>6. Watched
  BY <1>2, <1>3 DEF Watched
<1> QED
  BY <1>4, <1>5, <1>6 DEF IInv

LEMMA StepInv == ASSUME IInv, NEW t \in Tasks, Step(t) PROVE IInv'
  BY GatherInv, ClearInv, ClearedInv, AddInv, WatchInv, RefuseInv, ExecInv, RetryInv,
     StoredInv, FinishInv, LimitInv, LookInv, WipeInv, EvictedInv, MovedInv, RolledBackInv
     DEF Step

LEMMA NextInv == IInv /\ [Next]_vars => IInv'
<1> SUFFICES ASSUME IInv, [Next]_vars PROVE IInv'
  OBVIOUS
<1>1. CASE Next
  BY <1>1, IngestInv, VerdictInv, StartMigrationInv, WaitEndsInv, StartReindexInv,
     StepInv, LoseAnswerInv, FailInv, CrashInv DEF Next
<1>2. CASE UNCHANGED vars
  BY <1>2 DEF vars, redis, memory, blobs, counts, IInv, TypeOK, Placed, Watched
<1> QED
  BY <1>1, <1>2

(* The invariant of the archive holds in every reachable state: types, and *)
(* what every transaction of add_elite (archive_storage.py) rests on.      *)
THEOREM Inductive == Spec => []IInv
<1> QED
  BY InitInv, NextInv, PTL DEF Spec

(* In each step a cell keeps its program, loses it, or gets a better one,  *)
(* whoever else writes and whatever is lost (add_elite, archive_storage.py).*)
THEOREM NeverIsWorsened == Spec => NeverWorsened
<1> DEFINE Fair == \A i \in Islands, c \in Cells :
                      \/ hash[i][c] = None \/ hash'[i][c] \in {None, hash[i][c]}
                      \/ Better(hash'[i][c], hash[i][c])
<1>1. ASSUME IInv, NEW t \in Tasks, Exec(t) PROVE Fair
  <2> DEFINE r == task[t]
  <2>1. r \in Task /\ r.on \in Islands /\ r.cell \in Cells /\ Data
    BY <1>1, At, OldData, IslandsAssumption DEF Exec, Knows, Task
  <2>2. hash' = [hash EXCEPT ![r.on][r.cell] = r.prog] /\ hash[r.on][r.cell] = r.seen
    BY <1>1 DEF Exec, Commit, IInv, Watched
  <2>3. r.seen = None \/ Better(r.prog, r.seen)
    BY <1>1, At DEF Exec, Stale, Knows
  <2> SUFFICES ASSUME NEW i \in Islands, NEW c \in Cells, hash'[i][c] # hash[i][c]
               PROVE  hash[i][c] = None \/ Better(hash'[i][c], hash[i][c])
    OBVIOUS
  <2>4. i = r.on /\ c = r.cell /\ hash'[i][c] = r.prog
    BY <2>1, <2>2 DEF Data
  <2> QED
    BY <2>2, <2>3, <2>4
<1>2. ASSUME IInv, NEW t \in Tasks, Clear(t) PROVE Fair
  <2>1. \/ hash' = hash
        \/ hash' = [hash EXCEPT ![task[t].on] = [c \in Cells |-> None]]
    BY <1>2 DEF Clear, redis
  <2>2. task[t].on \in Islands
    BY <1>2, At, IslandsAssumption DEF Clear, Knows, Task
  <2>3. hash \in [Islands -> [Cells -> Programs \union {None}]]
    BY <1>2, OldData DEF Data
  <2>4. CASE hash' = hash
    BY <2>4
  <2>5. CASE hash' = [hash EXCEPT ![task[t].on] = [c \in Cells |-> None]]
    <3> SUFFICES ASSUME NEW i \in Islands, NEW c \in Cells
                 PROVE  hash'[i][c] \in {None, hash[i][c]}
      OBVIOUS
    <3>1. CASE i = task[t].on
      BY <2>2, <2>3, <2>5, <3>1
    <3>2. CASE i # task[t].on
      BY <2>2, <2>3, <2>5, <3>2
    <3> QED
      BY <3>1, <3>2
  <2> QED
    BY <2>1, <2>4, <2>5
<1>3. ASSUME IInv, NEW t \in Tasks, Wipe(t) PROVE Fair
  <2> DEFINE gone == {task[t].at[p] : p \in {p \in Programs : task[t].at[p] # None}}
  <2>1. hash' = [hash EXCEPT ![Target(task[t])] =
                   [c \in Cells |-> IF c \in gone THEN None ELSE @[c]]]
    BY <1>3 DEF Wipe
  <2> HIDE DEF gone
  <2> QED
    BY <1>3, <2>1, OldData DEF Data
<1>4. ASSUME IInv, NEW t \in Tasks, Step(t), ~Exec(t), ~Clear(t), ~Wipe(t) PROVE hash' = hash
  BY ZenonT(30), <1>4 DEF Step, Gather, Cleared, Add, Watch, Refuse, Retry, Stored, Finish, Limit,
              Look, Evicted, Moved, RolledBack, redis
<1>5. ASSUME IInv, Next, ~(\E t \in Tasks : Step(t)) PROVE hash' = hash
  BY <1>5 DEF Next, Ingest, Verdict, StartMigration, MigrationEnds, StartReindex,
              ReindexEnds, LoseAnswer, Fail, Crash, redis
<1>6. IInv /\ [Next]_vars => [Fair]_vars
  BY <1>1, <1>2, <1>3, <1>4, <1>5
<1> QED
  BY <1>6, Inductive, PTL DEF Spec, NeverWorsened

-----------------------------------------------------------------------------
(* The pcs of a task at work on an island, and of its parts.               *)
Adding == {"watch", "seen", "stored"}
Removing == {"look", "wipe", "wiped"}
Working == {"gather", "clear", "cleared", "limit"} \cup Adding \cup Removing
Lagging == {"stored", "cleared", "wiped"}

(* What a task may be about.                                               *)
Own(t, r) ==
  /\ t = Ingestor => r.pc \notin {"gather", "clear", "cleared"}
  /\ t = Selector => r.pc \notin {"gather", "clear", "cleared", "verdict"}
  /\ t \in Helpers("reindex") =>
       /\ r.pc \in {"idle", "gather", "clear", "cleared", "next"} \cup Adding
       /\ r.pc \in Working => r.on = t[2]
  /\ t \in Helpers("enforce") =>
       /\ r.pc \in {"idle", "limit"} \cup Removing /\ r.todo = {}
       /\ r.pc \in Working => r.on = t[2]
  /\ r.pc \in Removing => r.why # "none" /\ (t # Selector => r.why = "limit")
  /\ r.pc \in Removing /\ r.why # "limit" => r.out = {r.prog}
  /\ r.pc \in {"next"} \cup (Working \ Removing) => r.why = "none"
  /\ t # Selector => r.src = None /\ \A job \in r.todo : job.src = None
  /\ r.pc \in {"idle", "gather", "waiting"} => r.todo = {}
  /\ \A j, k \in r.todo : j.prog = k.prog => j = k
  /\ r.pc \in {"limit"} \cup Adding \cup Removing => \A job \in r.todo : job.prog # r.prog
  /\ t = Selector /\ r.pc \in Working => r.on # r.src

(* While it is calm, the coroutines take turns at the archive.             *)
Turns ==
  /\ task[Selector].pc # "idle" => task[Ingestor].pc = "idle"
  /\ \A t \in Helpers("reindex") : task[t].pc # "idle" => task[Ingestor].pc = "waiting"
  /\ \A t \in Helpers("enforce") : task[t].pc # "idle" => task[Selector].pc = "waiting"
  /\ \A t \in Tasks : Own(t, task[t])

(* A program is in the hash and in the reverse hash alike.                 *)
Inverse == \A i \in Islands, c \in Cells, p \in Programs : hash[i][c] = p <=> rev[i][p] = c
In(p, i) == rev[i][p] # None

(* Memory agrees with Redis, but for the task that waits for an answer.    *)
Mirrored(i) ==
  /\ \A c \in Cells : cache[i][c] = hash[i][c]
  /\ \A p \in Programs : where[i][p] = rev[i][p]
LagStored(r, i) ==
  /\ \A c \in Cells : hash[i][c] = IF c = r.cell THEN r.prog ELSE cache[i][c]
  /\ \A p \in Programs : rev[i][p] = IF p = r.prog THEN r.cell
                                     ELSE IF p = cache[i][r.cell] THEN None ELSE where[i][p]
LagCleared(i) ==
  /\ \A c \in Cells : hash[i][c] = None
  /\ \A p \in Programs : rev[i][p] = None
LagWiped(r, i) ==
  /\ \A p \in Programs : r.at[p] = IF p \in r.out THEN where[i][p] ELSE None
  /\ \A c \in Cells : hash[i][c] = IF \E p \in Programs : r.at[p] = c THEN None ELSE cache[i][c]
  /\ \A p \in Programs : rev[i][p] = IF p \in r.out THEN None ELSE where[i][p]
Lag(r) ==
  /\ r.pc = "stored" => LagStored(r, r.on)
  /\ r.pc = "cleared" => LagCleared(r.on)
  /\ r.pc = "wipe" =>
       \A p \in Programs : r.at[p] = IF p \in r.out THEN rev[Target(r)][p] ELSE None
  /\ r.pc = "wiped" => LagWiped(r, Target(r))
Mirror ==
  /\ \A i \in Islands :
       (\A t \in Tasks : task[t].pc \in Lagging => Target(task[t]) # i) => Mirrored(i)
  /\ \A t \in Tasks : Lag(task[t])

(* What a task has read of a cell is still so.                             *)
Current ==
  \A t \in Tasks :
    /\ task[t].pc \in {"watch", "seen"} => task[t].cur = cache[task[t].on][task[t].cell]
    /\ task[t].pc = "seen" => task[t].seen = task[t].cur /\ t \in watching[task[t].on]

(* What a task has to add is evaluated and goes to the cell of its metrics. *)
Fed(r) ==
  /\ \A job \in r.todo : job.cell = cell[job.prog] /\ state[job.prog] # "NEW"
  /\ r.pc \in Adding => r.cell = cell[r.prog] /\ state[r.prog] # "NEW"
Jobbed == \A t \in Tasks : Fed(task[t])

(* A program that is not evaluated, or not yet added, is nowhere.          *)
New ==
  /\ \A p \in Programs, i \in Islands : state[p] = "NEW" => ~In(p, i)
  /\ \A job \in task[Ingestor].todo : \A i \in Islands : ~In(job.prog, i)
  /\ task[Ingestor].pc \in {"watch", "seen"} => \A i \in Islands : ~In(task[Ingestor].prog, i)
  /\ task[Ingestor].pc = "stored" =>
       \A i \in Islands : In(task[Ingestor].prog, i) => i = task[Ingestor].on

(* Elites are in the cell of their metrics, but for islands that a         *)
(* re-indexing has not yet cleared.                                        *)
InCells(i) == \A p \in Programs : In(p, i) => rev[i][p] = cell[p]
Recelled ==
  \A t \in Helpers("reindex") :
    task[t].pc \in {"cleared", "next"} \cup Adding => InCells(t[2])
Celled ==
  \A i \in Islands : InCells(i) \/ task[<<"reindex", i>>].pc \in {"gather", "clear"}

(* Elites are at home, but for one that is being added or migrated.        *)
AwayBy(r, p, i) ==
  /\ r.prog = p
  /\ \/ r.pc = "stored" /\ r.on = i
     \/ /\ r.src = i
        /\ \/ r.pc = "limit"
           \/ r.pc \in Removing /\ r.why = "limit"
           \/ r.pc \in {"look", "wipe"} /\ r.why = "source"
Away(p, i) == \E t \in {Ingestor, Selector} : AwayBy(task[t], p, i)
Sourced(r) ==
  /\ \A job \in r.todo : job.src # None /\ \A i \in Islands : In(job.prog, i) => i = job.src
  /\ r.pc \in {"watch", "seen"} => \A i \in Islands : In(r.prog, i) => i = r.src
  /\ r.pc \in Working => r.src # None /\ \A i \in Islands : In(r.prog, i) => i \in {r.src, r.on}
Housed == \A i \in Islands, p \in Programs : In(p, i) => home[p] = i \/ Away(p, i)
Readding ==
  \A t \in Helpers("reindex") :
    /\ \A job \in task[t].todo : home[job.prog] = t[2]
    /\ task[t].pc \in Adding => home[task[t].prog] = t[2]
Evicting ==
  \A t \in Tasks : task[t].pc \in Removing /\ task[t].why = "limit" =>
                   \A p \in task[t].out : home[p] = task[t].on
Homed == Housed /\ Readding /\ Evicting /\ Sourced(task[Selector])

Once == Calm /\ crashes <= 1
Basis == Turns /\ Inverse /\ Mirror /\ Current /\ Jobbed /\ New /\ Recelled
QInv ==
  Once =>
    /\ Basis
    /\ Celled \/ Homed
    /\ crashes = 0 => Celled /\ Homed


-----------------------------------------------------------------------------
(* Who is who among the tasks.                                             *)
LEMMA Kinds ==
  /\ Ingestor \in Tasks /\ Selector \in Tasks /\ Ingestor # Selector
  /\ \A k \in {"reindex", "enforce"} : \A t \in Helpers(k) :
       t \in Tasks /\ t # Ingestor /\ t # Selector /\ t[2] \in Islands
  /\ \A k \in {"reindex", "enforce"} : \A t, u \in Helpers(k) : t[2] = u[2] => t = u
  /\ \A t \in Helpers("reindex") : t \notin Helpers("enforce")
  /\ \A t \in Tasks : t \in {Ingestor, Selector} \/ t \in Helpers("reindex")
                                                 \/ t \in Helpers("enforce")
  /\ \A i \in Islands : /\ <<"reindex", i>> \in Helpers("reindex") /\ <<"reindex", i>>[2] = i
  /\ \A t \in Helpers("reindex") : t = <<"reindex", t[2]>>
  BY DEF Ingestor, Selector, Helpers, Tasks

(* What the parts of a task become.                                        *)
Others(t) == \A u \in Tasks : u # t => task'[u] = task[u]
SameJob(s, r) ==
  /\ s.todo = r.todo /\ s.prog = r.prog /\ s.src = r.src /\ s.cell = r.cell /\ s.on = r.on
  /\ s.batch = r.batch /\ s.good = r.good
SameOut(s, r) == s.out = r.out /\ s.at = r.at /\ s.why = r.why
Freed(s, r, jobs) ==
  /\ s.pc = "next" /\ s.todo = jobs /\ s.batch = r.batch
  /\ s.prog = None /\ s.src = None /\ s.on = None /\ s.out = {} /\ s.why = "none"
Idled(s) ==
  /\ s.pc = "idle" /\ s.todo = {} /\ s.batch = {} /\ s.good = {}
  /\ s.prog = None /\ s.src = None /\ s.on = None /\ s.out = {} /\ s.why = "none"

LEMMA Idles == Idled(Idle)
  BY DEF Idled, Idle

LEMMA Frees ==
  ASSUME NEW r \in Task
  PROVE  Freed(NextJob(r), r, r.todo) /\ NextJob(r).good = r.good
  BY DEF Freed, NextJob, Idle

(* What add_elite leads to: the removal of a migrant from its source, or   *)
(* the next job.                                                           *)
Onward(t, s, r, ok) ==
  \/ /\ t = Selector /\ ok /\ r.src # None
     /\ s.pc = "look" /\ SameJob(s, r) /\ s.out = {r.prog} /\ s.why = "source"
  \/ /\ ~(t = Selector /\ ok /\ r.src # None)
     /\ Freed(s, r, r.todo)
     /\ s.good = IF t = Ingestor /\ engine = "steady" /\ ok THEN r.good \cup {r.prog} ELSE r.good

LEMMA AfterAddGoes ==
  ASSUME NEW t \in Tasks, NEW r \in Task, NEW ok \in BOOLEAN
  PROVE  Onward(t, AfterAdd(t, r, ok), r, ok)
<1>1. CASE t = Selector /\ ok /\ r.src # None
  <2> DEFINE s == [r EXCEPT !.pc = "look", !.cur = None, !.seen = None,
                   !.out = {r.prog}, !.why = "source"]
  <2>1. AfterAdd(t, r, ok) = s
    BY <1>1 DEF AfterAdd
  <2>2. s.pc = "look" /\ SameJob(s, r) /\ s.out = {r.prog} /\ s.why = "source"
    BY DEF Task, SameJob
  <2> QED BY <1>1, <2>1, <2>2 DEF Onward
<1>2. CASE ~(t = Selector /\ ok /\ r.src # None)
  <2> DEFINE n == NextJob(r)
  <2>1. n \in Task /\ Freed(n, r, r.todo) /\ n.good = r.good
    BY NextJobTask, Frees
  <2> HIDE DEF n
  <2> DEFINE s == [n EXCEPT !.good = IF t = Ingestor /\ engine = "steady" /\ ok
                                     THEN @ \cup {r.prog} ELSE @]
  <2>2. AfterAdd(t, r, ok) = s
    BY <1>2 DEF AfterAdd, n
  <2>3. /\ Freed(s, r, r.todo)
        /\ s.good = IF t = Ingestor /\ engine = "steady" /\ ok
                    THEN r.good \cup {r.prog} ELSE r.good
    BY <2>1 DEF Task, Freed
  <2> QED BY <1>2, <2>2, <2>3 DEF Onward
<1> QED BY <1>1, <1>2

(* What a size limit leads to.                                             *)
Limited(t, s, r) ==
  \/ t \in Helpers("enforce") /\ Idled(s)
  \/ t \notin Helpers("enforce") /\ Onward(t, s, r, TRUE)

LEMMA AfterLimitGoes ==
  ASSUME NEW t \in Tasks, NEW r \in Task
  PROVE  Limited(t, AfterLimit(t, r), r)
<1> DEFINE q == [r EXCEPT !.out = {}, !.why = "none", !.at = Idle.at]
<1>1. q \in Task /\ SameJob(q, r)
  BY DEF Task, Idle, SameJob
<1>2. AfterLimit(t, r) = IF t \in Helpers("enforce") THEN Idle ELSE AfterAdd(t, q, TRUE)
  BY DEF AfterLimit
<1> HIDE DEF q
<1>3. Onward(t, AfterAdd(t, q, TRUE), q, TRUE)
  BY <1>1, AfterAddGoes
<1>4. Onward(t, AfterAdd(t, q, TRUE), r, TRUE)
  BY <1>1, <1>3 DEF Onward, SameJob, Freed
<1> QED BY <1>2, <1>4, Idles DEF Limited


-----------------------------------------------------------------------------
(* What each step makes of its task, field by field.                       *)
LEMMA Goes ==
  ASSUME TypeOK, NEW t \in Tasks, NEW r, Go(t, r)
  PROVE  task'[t] = r /\ Others(t)
  BY DEF TypeOK, Go, Others

LEMMA GatherGoes ==
  ASSUME IInv, NEW t \in Tasks, Gather(t)
  PROVE  LET r == task[t]  s == task'[t] IN
         /\ r.pc = "gather" /\ Others(t) /\ UNCHANGED <<redis, memory, blobs, counts, beaten>>
         /\ \/ Cached(r.on) = {} /\ Idled(s)
            \/ /\ s.pc = "clear" /\ s.on = r.on /\ s.src = r.src /\ s.prog = r.prog
               /\ s.batch = r.batch /\ s.good = r.good /\ SameOut(s, r)
               /\ s.todo = {[prog |-> p, src |-> None, cell |-> cell[p]] : p \in Cached(r.on)}
<1> DEFINE r == task[t]
           jobs == {[prog |-> p, src |-> None, cell |-> cell[p]] : p \in Cached(r.on)}
<1>1. r \in Task /\ TypeOK
  BY At DEF IInv
<1>2. r.pc = "gather" /\ Go(t, IF Cached(r.on) = {} THEN Idle ELSE [r EXCEPT !.pc = "clear", !.todo = jobs])
  BY DEF Gather
<1> HIDE DEF jobs
<1>3. LET s == [r EXCEPT !.pc = "clear", !.todo = jobs] IN
      /\ s.pc = "clear" /\ s.on = r.on /\ s.src = r.src /\ s.prog = r.prog
      /\ s.batch = r.batch /\ s.good = r.good /\ SameOut(s, r) /\ s.todo = jobs
  BY <1>1 DEF Task, SameOut
<1>4. UNCHANGED <<redis, memory, blobs, counts, beaten>>
  BY DEF Gather
<1> QED BY <1>1, <1>2, <1>3, <1>4, Goes, Idles DEF jobs

LEMMA ClearGoes ==
  ASSUME IInv, NEW t \in Tasks, Clear(t)
  PROVE  LET r == task[t]  s == task'[t] IN
         /\ r.pc = "clear" /\ Others(t) /\ UNCHANGED <<memory, blobs, counts, beaten>>
         /\ \/ Cached(r.on) = {} /\ Freed(s, r, r.todo) /\ s.good = r.good /\ UNCHANGED redis
            \/ /\ Cached(r.on) # {} /\ s.pc = "cleared" /\ SameJob(s, r) /\ SameOut(s, r)
               /\ hash' = [hash EXCEPT ![r.on] = [c \in Cells |-> None]]
               /\ rev' = [rev EXCEPT ![r.on] = [p \in Programs |-> None]]
               /\ watching' = [watching EXCEPT ![r.on] = {}]
<1> DEFINE r == task[t]
<1>1. r \in Task /\ TypeOK
  BY At DEF IInv
<1>2. LET s == [r EXCEPT !.pc = "cleared"] IN
      s.pc = "cleared" /\ SameJob(s, r) /\ SameOut(s, r)
  BY <1>1 DEF Task, SameJob, SameOut
<1>3. r.pc = "clear" /\ UNCHANGED <<memory, blobs, counts, beaten>>
  BY DEF Clear
<1>4. CASE Cached(r.on) = {}
  <2>1. Go(t, NextJob(r)) /\ UNCHANGED redis
    BY <1>4 DEF Clear
  <2> QED BY <1>1, <1>3, <1>4, <2>1, Goes, Frees
<1>5. CASE Cached(r.on) # {}
  <2>1. /\ hash' = [hash EXCEPT ![r.on] = [c \in Cells |-> None]]
        /\ rev' = [rev EXCEPT ![r.on] = [p \in Programs |-> None]]
        /\ watching' = [watching EXCEPT ![r.on] = {}]
        /\ Go(t, [r EXCEPT !.pc = "cleared"])
    BY <1>5 DEF Clear
  <2> QED BY <1>1, <1>2, <1>3, <1>5, <2>1, Goes
<1> QED BY <1>4, <1>5

LEMMA ClearedGoes ==
  ASSUME IInv, NEW t \in Tasks, Cleared(t)
  PROVE  LET r == task[t]  s == task'[t] IN
         /\ r.pc = "cleared" /\ Others(t) /\ UNCHANGED <<redis, blobs, counts, beaten>>
         /\ Freed(s, r, r.todo) /\ s.good = r.good
         /\ cache' = [cache EXCEPT ![r.on] = [c \in Cells |-> None]]
         /\ where' = [where EXCEPT ![r.on] = [p \in Programs |-> None]]
<1>1. task[t] \in Task /\ TypeOK
  BY At DEF IInv
<1> QED BY <1>1, Goes, Frees DEF Cleared

LEMMA AddGoes ==
  ASSUME IInv, NEW t \in Tasks, Add(t)
  PROVE  LET r == task[t]  s == task'[t] IN
         /\ r.pc = "next" /\ Others(t) /\ UNCHANGED <<redis, memory, blobs, counts>>
         /\ \E job \in r.todo : \E i \in Route(t, job) :
              \/ /\ cache[i][job.cell] # None /\ ~Better(job.prog, cache[i][job.cell])
                 /\ Beats(t, job.prog)
                 /\ Freed(s, r, r.todo \ {job}) /\ s.good = r.good
              \/ /\ s.pc = "watch" /\ s.todo = r.todo \ {job} /\ s.prog = job.prog
                 /\ s.src = job.src /\ s.cell = job.cell /\ s.on = i
                 /\ s.cur = cache[i][job.cell]
                 /\ s.batch = r.batch /\ s.good = r.good /\ SameOut(s, r) /\ UNCHANGED beaten
<1> DEFINE r == task[t]
<1>1. r \in Task /\ TypeOK
  BY At DEF IInv
<1>2. r.pc = "next" /\ UNCHANGED <<redis, memory, blobs, counts>>
  BY DEF Add
<1>3. PICK job \in r.todo : \E i \in Route(t, job) :
        LET cur == cache[i][job.cell]
            q == [r EXCEPT !.todo = @ \ {job}, !.prog = job.prog, !.src = job.src,
                           !.cell = job.cell, !.on = i, !.cur = cur] IN
        IF cur # None /\ ~Better(job.prog, cur)
        THEN Go(t, AfterAdd(t, q, FALSE)) /\ Beats(t, job.prog)
        ELSE Go(t, [q EXCEPT !.pc = "watch"]) /\ UNCHANGED beaten
  BY DEF Add
<1> DEFINE Q(i) == [r EXCEPT !.todo = @ \ {job}, !.prog = job.prog, !.src = job.src,
                           !.cell = job.cell, !.on = i, !.cur = cache[i][job.cell]]
<1>4. PICK i \in Route(t, job) :
        IF cache[i][job.cell] # None /\ ~Better(job.prog, cache[i][job.cell])
        THEN Go(t, AfterAdd(t, Q(i), FALSE)) /\ Beats(t, job.prog)
        ELSE Go(t, [Q(i) EXCEPT !.pc = "watch"]) /\ UNCHANGED beaten
  BY <1>3
<1> DEFINE q == Q(i)
<1>5. /\ job \in Jobs /\ i \in Islands
  BY <1>1, Kinds DEF Task, Route
<1>6. job.cell \in Cells /\ job.prog \in Programs /\ job.src \in Islands \cup {None}
      /\ cache[i][job.cell] \in Programs \cup {None}
  BY <1>1, <1>5 DEF TypeOK, Jobs
<1>7. /\ q \in Task
      /\ q.todo = r.todo \ {job} /\ q.prog = job.prog /\ q.src = job.src
      /\ q.cell = job.cell /\ q.on = i /\ q.cur = cache[i][job.cell]
      /\ q.batch = r.batch /\ q.good = r.good /\ SameOut(q, r)
  BY <1>1, <1>5, <1>6 DEF Task, SameOut
<1>8. CASE cache[i][job.cell] # None /\ ~Better(job.prog, cache[i][job.cell])
  <2>1. Go(t, AfterAdd(t, q, FALSE)) /\ Beats(t, job.prog)
    BY <1>4, <1>8
  <2> HIDE DEF Q
  <2>2. Onward(t, AfterAdd(t, q, FALSE), q, FALSE)
    BY <1>7, AfterAddGoes
  <2>3. task'[t] = AfterAdd(t, q, FALSE) /\ Others(t)
    BY <1>1, <2>1, Goes
  <2>4. Freed(task'[t], r, r.todo \ {job}) /\ task'[t].good = r.good
    BY <1>7, <2>2, <2>3 DEF Onward, Freed
  <2> QED BY <1>2, <1>8, <2>1, <2>3, <2>4
<1>9. CASE ~(cache[i][job.cell] # None /\ ~Better(job.prog, cache[i][job.cell]))
  <2>1. Go(t, [q EXCEPT !.pc = "watch"]) /\ UNCHANGED beaten
    BY <1>4, <1>9
  <2> HIDE DEF Q
  <2>2. LET s == [q EXCEPT !.pc = "watch"] IN
        s.pc = "watch" /\ SameJob(s, q) /\ SameOut(s, q) /\ s.cur = q.cur
    BY <1>7 DEF Task, SameJob, SameOut
  <2>3. task'[t] = [q EXCEPT !.pc = "watch"] /\ Others(t)
    BY <1>1, <2>1, Goes
  <2>4. LET s == task'[t] IN
        /\ s.pc = "watch" /\ s.todo = r.todo \ {job} /\ s.prog = job.prog
        /\ s.src = job.src /\ s.cell = job.cell /\ s.on = i
        /\ s.cur = cache[i][job.cell]
        /\ s.batch = r.batch /\ s.good = r.good /\ SameOut(s, r)
    BY <1>7, <2>2, <2>3 DEF SameJob, SameOut
  <2> QED BY <1>2, <2>1, <2>3, <2>4
<1> QED BY <1>8, <1>9


LEMMA WatchGoes ==
  ASSUME IInv, NEW t \in Tasks, Watch(t)
  PROVE  LET r == task[t]  s == task'[t] IN
         /\ r.pc = "watch" /\ Others(t) /\ UNCHANGED <<hash, rev, memory, blobs, counts, beaten>>
         /\ watching' = [watching EXCEPT ![r.on] = @ \cup {t}]
         /\ s.pc = "seen" /\ SameJob(s, r) /\ SameOut(s, r) /\ s.cur = r.cur
         /\ s.seen = hash[r.on][r.cell]
<1> DEFINE r == task[t]
<1>1. r \in Task /\ TypeOK
  BY At DEF IInv
<1>2. \A x : LET s == [r EXCEPT !.pc = "seen", !.seen = x] IN
             s.pc = "seen" /\ SameJob(s, r) /\ SameOut(s, r) /\ s.cur = r.cur /\ s.seen = x
  BY <1>1 DEF Task, SameJob, SameOut
<1>3. Go(t, [r EXCEPT !.pc = "seen", !.seen = hash[r.on][r.cell]])
  BY DEF Watch
<1>4. task'[t] = [r EXCEPT !.pc = "seen", !.seen = hash[r.on][r.cell]] /\ Others(t)
  BY <1>1, <1>3, Goes
<1>5. /\ r.pc = "watch" /\ UNCHANGED <<hash, rev, memory, blobs, counts, beaten>>
      /\ watching' = [watching EXCEPT ![r.on] = @ \cup {t}]
  BY DEF Watch
<1> QED BY ZenonT(30), <1>2, <1>4, <1>5

LEMMA ExecGoes ==
  ASSUME IInv, NEW t \in Tasks, Exec(t)
  PROVE  LET r == task[t]  s == task'[t] IN
         /\ r.pc = "seen" /\ ~Stale(r) /\ t \in watching[r.on]
         /\ Others(t) /\ UNCHANGED <<memory, blobs, counts>>
         /\ s.pc = "stored" /\ SameJob(s, r) /\ SameOut(s, r)
         /\ hash' = [hash EXCEPT ![r.on][r.cell] = r.prog]
         /\ rev' = [rev EXCEPT ![r.on] = Reversed(r)]
         /\ watching' = [watching EXCEPT ![r.on] = {}]
         /\ beaten' = beaten \cup ({r.seen} \ {None, r.prog})
<1> DEFINE r == task[t]
<1>1. r \in Task /\ TypeOK
  BY At DEF IInv
<1>2. LET s == [r EXCEPT !.pc = "stored"] IN
      s.pc = "stored" /\ SameJob(s, r) /\ SameOut(s, r)
  BY <1>1 DEF Task, SameJob, SameOut
<1>3. Go(t, [r EXCEPT !.pc = "stored"])
  BY DEF Exec, Commit
<1>4. task'[t] = [r EXCEPT !.pc = "stored"] /\ Others(t)
  BY <1>1, <1>3, Goes
<1>5. /\ r.pc = "seen" /\ ~Stale(r) /\ t \in watching[r.on]
      /\ UNCHANGED <<memory, blobs, counts>>
      /\ hash' = [hash EXCEPT ![r.on][r.cell] = r.prog]
      /\ rev' = [rev EXCEPT ![r.on] = Reversed(r)]
      /\ watching' = [watching EXCEPT ![r.on] = {}]
      /\ beaten' = beaten \cup ({r.seen} \ {None, r.prog})
  BY DEF Exec, Commit
<1> QED BY <1>2, <1>4, <1>5

LEMMA StoredGoes ==
  ASSUME IInv, NEW t \in Tasks, Stored(t)
  PROVE  LET r == task[t]  s == task'[t] IN
         /\ r.pc = "stored" /\ Others(t) /\ UNCHANGED <<redis, cell, state, counts, beaten>>
         /\ CacheSet(r.on, r.cell, r.prog)
         /\ \/ /\ t \in Helpers("reindex") /\ Freed(s, r, r.todo) /\ s.good = r.good
               /\ UNCHANGED home
            \/ /\ t \notin Helpers("reindex") /\ s.pc = "limit" /\ SameJob(s, r) /\ SameOut(s, r)
               /\ home' = [home EXCEPT ![r.prog] = r.on]
<1> DEFINE r == task[t]
<1>1. r \in Task /\ TypeOK
  BY At DEF IInv
<1>2. r.pc = "stored" /\ UNCHANGED <<redis, cell, state, counts, beaten>>
      /\ CacheSet(r.on, r.cell, r.prog)
  BY DEF Stored
<1>3. CASE t \in Helpers("reindex")
  <2>1. Go(t, AfterAdd(t, r, TRUE)) /\ UNCHANGED home
    BY <1>3 DEF Stored
  <2>2. t # Selector /\ t # Ingestor
    BY <1>3, Kinds
  <2>3. task'[t] = AfterAdd(t, r, TRUE) /\ Others(t)
    BY <1>1, <2>1, Goes
  <2>4. Onward(t, AfterAdd(t, r, TRUE), r, TRUE)
    BY <1>1, AfterAddGoes
  <2>5. Freed(task'[t], r, r.todo) /\ task'[t].good = r.good
    BY <2>2, <2>3, <2>4 DEF Onward
  <2> QED BY <1>2, <1>3, <2>1, <2>3, <2>5
<1>4. CASE t \notin Helpers("reindex")
  <2> DEFINE s == [r EXCEPT !.pc = "limit", !.cur = None, !.seen = None]
  <2>1. Go(t, s) /\ home' = [home EXCEPT ![r.prog] = r.on]
    BY <1>4 DEF Stored
  <2>2. s.pc = "limit" /\ SameJob(s, r) /\ SameOut(s, r)
    BY <1>1 DEF Task, SameJob, SameOut
  <2>3. task'[t] = s /\ Others(t)
    BY <1>1, <2>1, Goes
  <2> QED BY <1>2, <1>4, <2>1, <2>2, <2>3
<1> QED BY <1>3, <1>4

LEMMA LimitGoes ==
  ASSUME IInv, NEW t \in Tasks, Limit(t)
  PROVE  LET r == task[t]  s == task'[t] IN
         /\ r.pc = "limit" /\ Others(t) /\ UNCHANGED <<redis, memory, blobs, counts, beaten>>
         /\ \/ Limited(t, s, r)
            \/ /\ s.pc = "look" /\ SameJob(s, r) /\ s.why = "limit"
               /\ s.out \subseteq Cached(r.on)
<1> DEFINE r == task[t]
<1>1. r \in Task /\ TypeOK
  BY At DEF IInv
<1>2. r.pc = "limit" /\ UNCHANGED <<redis, memory, blobs, counts, beaten>>
  BY DEF Limit
<1>3. \/ Go(t, AfterLimit(t, r))
      \/ \E V \in SUBSET Cached(r.on) : Go(t, [r EXCEPT !.pc = "look", !.out = V, !.why = "limit"])
  BY DEF Limit
<1>4. CASE Go(t, AfterLimit(t, r))
  BY <1>1, <1>2, <1>4, Goes, AfterLimitGoes
<1>5. CASE \E V \in SUBSET Cached(r.on) : Go(t, [r EXCEPT !.pc = "look", !.out = V, !.why = "limit"])
  <2>1. PICK V \in SUBSET Cached(r.on) : Go(t, [r EXCEPT !.pc = "look", !.out = V, !.why = "limit"])
    BY <1>5
  <2>2. LET s == [r EXCEPT !.pc = "look", !.out = V, !.why = "limit"] IN
        s.pc = "look" /\ SameJob(s, r) /\ s.why = "limit" /\ s.out = V
    BY <1>1 DEF Task, SameJob
  <2>3. task'[t] = [r EXCEPT !.pc = "look", !.out = V, !.why = "limit"] /\ Others(t)
    BY <1>1, <2>1, Goes
  <2> QED BY <1>2, <2>2, <2>3
<1> QED BY <1>3, <1>4, <1>5

LEMMA LookGoes ==
  ASSUME IInv, NEW t \in Tasks, Look(t)
  PROVE  LET r == task[t]  s == task'[t] IN
         /\ r.pc = "look" /\ Others(t) /\ UNCHANGED <<redis, memory, blobs, counts, beaten>>
         /\ s.at = [p \in Programs |-> IF p \in r.out THEN rev[Target(r)][p] ELSE None]
         /\ s.pc = IF s.at = Idle.at THEN "wiped" ELSE "wipe"
         /\ SameJob(s, r) /\ s.out = r.out /\ s.why = r.why
<1> DEFINE r == task[t]
           at == [p \in Programs |-> IF p \in r.out THEN rev[Target(r)][p] ELSE None]
<1>1. r \in Task /\ TypeOK
  BY At DEF IInv
<1>2. r.pc = "look" /\ UNCHANGED <<redis, memory, blobs, counts, beaten>>
  BY DEF Look
<1>3. Go(t, [r EXCEPT !.pc = IF at = Idle.at THEN "wiped" ELSE "wipe", !.at = at])
  BY DEF Look
<1> HIDE DEF at
<1>4. LET s == [r EXCEPT !.pc = IF at = Idle.at THEN "wiped" ELSE "wipe", !.at = at] IN
      /\ s.pc = IF at = Idle.at THEN "wiped" ELSE "wipe"
      /\ s.at = at /\ SameJob(s, r) /\ s.out = r.out /\ s.why = r.why
  BY <1>1 DEF Task, SameJob
<1>5. /\ task'[t] = [r EXCEPT !.pc = IF at = Idle.at THEN "wiped" ELSE "wipe", !.at = at]
      /\ Others(t)
  BY <1>1, <1>3, Goes
<1>6. /\ task'[t].pc = IF at = Idle.at THEN "wiped" ELSE "wipe"
      /\ task'[t].at = at /\ SameJob(task'[t], r)
      /\ task'[t].out = r.out /\ task'[t].why = r.why
  BY <1>4, <1>5
<1> QED BY <1>2, <1>5, <1>6 DEF at

LEMMA WipeGoes ==
  ASSUME IInv, NEW t \in Tasks, Wipe(t)
  PROVE  LET r == task[t]  s == task'[t]
             found == {p \in Programs : r.at[p] # None}
             gone == {r.at[p] : p \in found} IN
         /\ r.pc = "wipe" /\ Others(t) /\ UNCHANGED <<memory, blobs, counts, beaten>>
         /\ s.pc = "wiped" /\ SameJob(s, r) /\ SameOut(s, r)
         /\ hash' = [hash EXCEPT ![Target(r)] = [c \in Cells |-> IF c \in gone THEN None ELSE @[c]]]
         /\ rev' = [rev EXCEPT ![Target(r)] =
                      [p \in Programs |-> IF p \in found THEN None ELSE @[p]]]
         /\ watching' = [watching EXCEPT ![Target(r)] = IF hash' = hash THEN @ ELSE {}]
<1> DEFINE r == task[t]
<1>1. r \in Task /\ TypeOK
  BY At DEF IInv
<1>2. LET s == [r EXCEPT !.pc = "wiped"] IN
      s.pc = "wiped" /\ SameJob(s, r) /\ SameOut(s, r)
  BY <1>1 DEF Task, SameJob, SameOut
<1>3. Go(t, [r EXCEPT !.pc = "wiped"])
  BY DEF Wipe
<1>4. task'[t] = [r EXCEPT !.pc = "wiped"] /\ Others(t)
  BY <1>1, <1>3, Goes
<1> QED BY <1>2, <1>4 DEF Wipe

LEMMA EvictedGoes ==
  ASSUME IInv, NEW t \in Tasks, Evicted(t)
  PROVE  LET r == task[t]  s == task'[t] IN
         /\ r.pc = "wiped" /\ r.why = "limit" /\ Forget(r)
         /\ Others(t) /\ UNCHANGED <<redis, cell, counts, beaten>>
         /\ state' = [p \in Programs |-> IF p \in r.out THEN "DISCARDED" ELSE state[p]]
         /\ home' = [p \in Programs |-> IF p \in r.out THEN None ELSE home[p]]
         /\ Limited(t, s, r)
<1> DEFINE r == task[t]
<1>1. r \in Task /\ TypeOK
  BY At DEF IInv
<1>2. Go(t, AfterLimit(t, r))
  BY DEF Evicted
<1>3. task'[t] = AfterLimit(t, r) /\ Others(t)
  BY <1>1, <1>2, Goes
<1> QED BY <1>1, <1>3, AfterLimitGoes DEF Evicted

LEMMA MovedGoes ==
  ASSUME IInv, NEW t \in Tasks, Moved(t)
  PROVE  LET r == task[t]  s == task'[t] IN
         /\ r.pc = "wiped" /\ r.why = "source" /\ Forget(r)
         /\ Others(t) /\ UNCHANGED <<redis, blobs, counts, beaten>>
         /\ \/ r.at # Idle.at /\ Freed(s, r, r.todo) /\ s.good = r.good
            \/ /\ r.at = Idle.at /\ s.pc = "look" /\ s.why = "rollback"
               /\ SameJob(s, r) /\ s.out = r.out
<1> DEFINE r == task[t]
           q == [r EXCEPT !.at = Idle.at]
<1>1. r \in Task /\ TypeOK
  BY At DEF IInv
<1>2. /\ r.pc = "wiped" /\ r.why = "source" /\ Forget(r)
      /\ UNCHANGED <<redis, blobs, counts, beaten>>
      /\ Go(t, IF r.at # Idle.at THEN NextJob(q) ELSE [q EXCEPT !.pc = "look", !.why = "rollback"])
  BY DEF Moved
<1>3. q \in Task /\ SameJob(q, r) /\ q.out = r.out
  BY <1>1 DEF Task, SameJob, Idle
<1> HIDE DEF q
<1>4. Freed(NextJob(q), r, r.todo) /\ NextJob(q).good = r.good
  BY <1>3, Frees DEF SameJob, Freed
<1>5. LET s == [q EXCEPT !.pc = "look", !.why = "rollback"] IN
      s.pc = "look" /\ s.why = "rollback" /\ SameJob(s, r) /\ s.out = r.out
  BY <1>3 DEF Task, SameJob
<1>6. /\ task'[t] = IF r.at # Idle.at THEN NextJob(q) ELSE [q EXCEPT !.pc = "look", !.why = "rollback"]
      /\ Others(t)
  BY <1>1, <1>2, Goes
<1> QED BY <1>2, <1>4, <1>5, <1>6

LEMMA RolledBackGoes ==
  ASSUME IInv, NEW t \in Tasks, RolledBack(t)
  PROVE  LET r == task[t]  s == task'[t] IN
         /\ r.pc = "wiped" /\ r.why = "rollback" /\ Forget(r)
         /\ Others(t) /\ UNCHANGED <<redis, blobs, counts, beaten>>
         /\ Freed(s, r, r.todo) /\ s.good = r.good
<1>1. task[t] \in Task /\ TypeOK
  BY At DEF IInv
<1> QED BY <1>1, Goes, Frees DEF RolledBack

(* A step concerns the task that takes it; Finish may wake others.         *)
LEMMA OthersRest ==
  ASSUME IInv, NEW t \in Tasks,
         \/ Gather(t) \/ Clear(t) \/ Cleared(t) \/ Add(t) \/ Watch(t) \/ Exec(t) \/ Stored(t)
         \/ Limit(t) \/ Look(t) \/ Wipe(t) \/ Evicted(t) \/ Moved(t) \/ RolledBack(t)
  PROVE  Others(t)
<1>1. CASE Gather(t) \/ Clear(t) \/ Cleared(t)
  BY <1>1, GatherGoes, ClearGoes, ClearedGoes
<1>2. CASE Add(t) \/ Watch(t) \/ Exec(t) \/ Stored(t)
  BY <1>2, AddGoes, WatchGoes, ExecGoes, StoredGoes
<1>3. CASE Limit(t) \/ Look(t) \/ Wipe(t)
  BY <1>3, LimitGoes, LookGoes, WipeGoes
<1>4. CASE Evicted(t) \/ Moved(t) \/ RolledBack(t)
  BY <1>4, EvictedGoes, MovedGoes, RolledBackGoes
<1> QED BY <1>1, <1>2, <1>3, <1>4

LEMMA FinishGoes ==
  ASSUME IInv, NEW t \in Tasks, Finish(t)
  PROVE  LET r == task[t]  s == task'[t] IN
         /\ r.pc = "next" /\ r.todo = {} /\ UNCHANGED <<redis, memory, blobs, counts, beaten>>
         /\ \/ /\ t = Ingestor /\ Others(t) /\ s.pc = "verdict" /\ SameJob(s, r) /\ SameOut(s, r)
            \/ /\ t = Selector /\ s = [Idle EXCEPT !.pc = "waiting"]
               /\ \A u \in Tasks \ {t} :
                    task'[u] = IF u \in Helpers("enforce")
                               THEN [Idle EXCEPT !.pc = "limit", !.on = u[2]] ELSE task[u]
            \/ t \notin {Ingestor, Selector} /\ Others(t) /\ Idled(s)
<1> DEFINE r == task[t]
<1>1. r \in Task /\ TypeOK
  BY At DEF IInv
<1>2. r.pc = "next" /\ r.todo = {} /\ UNCHANGED <<redis, memory, blobs, counts, beaten>>
  BY DEF Finish
<1>3. CASE t = Ingestor
  <2>1. Go(t, [r EXCEPT !.pc = "verdict"])
    <3>1. task' = [task EXCEPT ![t].pc = "verdict"]
      BY <1>3, Kinds DEF Finish, Ingestor, Selector
    <3> QED BY <1>1, <3>1 DEF Go, TypeOK
  <2>2. task'[t] = [r EXCEPT !.pc = "verdict"] /\ Others(t)
    BY <1>1, <2>1, Goes
  <2>3. LET s == [r EXCEPT !.pc = "verdict"] IN
        s.pc = "verdict" /\ SameJob(s, r) /\ SameOut(s, r)
    BY <1>1 DEF Task, SameJob, SameOut
  <2> QED BY <1>2, <1>3, <2>2, <2>3
<1>4. CASE t = Selector
  <2>1. t # Ingestor
    BY <1>4, Kinds
  <2>2. task' = [u \in Tasks |->
                   CASE u = t -> [Idle EXCEPT !.pc = "waiting"]
                     [] u \in Helpers("enforce") -> [Idle EXCEPT !.pc = "limit", !.on = u[2]]
                     [] OTHER -> task[u]]
    BY <1>4, <2>1, Zenon DEF Finish
  <2>3. task'[t] = [Idle EXCEPT !.pc = "waiting"]
    <3>1. t \notin Helpers("enforce")
      BY <1>4 DEF Selector, Helpers
    <3> QED BY <2>2, <3>1
  <2>4. ASSUME NEW u \in Tasks \ {t}
        PROVE  task'[u] = IF u \in Helpers("enforce")
                          THEN [Idle EXCEPT !.pc = "limit", !.on = u[2]] ELSE task[u]
    BY <2>2, <2>4, Zenon
  <2> QED BY <1>2, <1>4, <2>3, <2>4
<1>5. CASE t \notin {Ingestor, Selector}
  <2>1. Go(t, Idle)
    BY <1>5, Zenon DEF Finish, Go
  <2> QED BY <1>1, <1>2, <1>5, <2>1, Goes, Idles
<1> QED BY <1>3, <1>4, <1>5


LEMMA IngestGoes ==
  ASSUME IInv, NEW B \in SUBSET Programs, Ingest(B)
  PROVE  LET s == task'[Ingestor] IN
         /\ task[Ingestor].pc = "idle" /\ Others(Ingestor) /\ B # {}
         /\ UNCHANGED <<redis, memory, cell, home, beaten, faults, crashes, engine>>
         /\ \A p \in B : state[p] = "NEW"
         /\ state' = [p \in Programs |-> IF p \in B THEN "DONE" ELSE state[p]]
         /\ overlap' = (overlap \/ task[Selector].pc # "idle")
         /\ s.pc = "next" /\ s.batch = B /\ s.good = {} /\ s.prog = None /\ s.src = None
         /\ s.why = "none" /\ s.out = {}
         /\ s.todo = {[prog |-> p, src |-> None, cell |-> cell[p]] : p \in B}
<1> DEFINE jobs == {[prog |-> p, src |-> None, cell |-> cell[p]] : p \in B}
           before == IF engine = "generational" THEN Active ELSE {}
           r == [Idle EXCEPT !.pc = "next", !.batch = B, !.before = before, !.todo = jobs]
<1>1. Ingestor \in Tasks /\ TypeOK
  BY Kinds DEF IInv
<1>2. Go(Ingestor, r)
  BY DEF Ingest
<1> HIDE DEF jobs, before
<1>3. task'[Ingestor] = r /\ Others(Ingestor)
  BY <1>1, <1>2, Goes
<1>4. r.pc = "next" /\ r.batch = B /\ r.good = {} /\ r.prog = None /\ r.src = None
      /\ r.why = "none" /\ r.out = {} /\ r.todo = jobs
  BY DEF Idle
<1> QED BY <1>3, <1>4 DEF Ingest, jobs

LEMMA VerdictGoes ==
  ASSUME IInv, Verdict
  PROVE  /\ task[Ingestor].pc = "verdict" /\ Others(Ingestor) /\ Idled(task'[Ingestor])
         /\ state' = [p \in Programs |-> IF p \in Rejected /\ state[p] = "DONE"
                                         THEN "DISCARDED" ELSE state[p]]
         /\ UNCHANGED <<redis, memory, cell, home, counts, beaten>>
<1>1. Ingestor \in Tasks /\ TypeOK
  BY Kinds DEF IInv
<1>2. Go(Ingestor, Idle)
  BY DEF Verdict
<1>3. task'[Ingestor] = Idle /\ Others(Ingestor)
  BY <1>1, <1>2, Goes
<1> QED BY <1>3, Idles DEF Verdict

LEMMA StartMigrationGoes ==
  ASSUME IInv, StartMigration
  PROVE  LET s == task'[Selector] IN
         /\ task[Selector].pc = "idle" /\ task[Ingestor].pc # "waiting"
         /\ Resting(Helpers("reindex")) /\ Others(Selector)
         /\ UNCHANGED <<redis, memory, blobs, beaten, faults, crashes, engine>>
         /\ overlap' = (overlap \/ task[Ingestor].pc # "idle")
         /\ s.pc = "next" /\ s.batch = {} /\ s.good = {} /\ s.prog = None /\ s.src = None
         /\ s.why = "none" /\ s.out = {}
         /\ \E C \in SUBSET Active :
              s.todo = {[prog |-> p, src |-> home[p], cell |-> cell[p]] : p \in C}
<1>1. Selector \in Tasks /\ TypeOK
  BY Kinds DEF IInv
<1>2. PICK M \in [Islands -> SUBSET Programs] :
        /\ \A i \in Islands : M[i] \in MigrantsOf(i)
        /\ Go(Selector, [Idle EXCEPT !.pc = "next",
             !.todo = {[prog |-> p, src |-> home[p], cell |-> cell[p]] :
                         p \in UNION {M[i] : i \in Islands}}])
  BY DEF StartMigration
<1> DEFINE chosen == UNION {M[i] : i \in Islands}
           jobs == {[prog |-> p, src |-> home[p], cell |-> cell[p]] : p \in chosen}
           r == [Idle EXCEPT !.pc = "next", !.todo = jobs]
<1>3. chosen \subseteq Active
  BY <1>2 DEF MigrantsOf, Active
<1>4. Go(Selector, r)
  BY <1>2
<1> HIDE DEF jobs
<1>5. task'[Selector] = r /\ Others(Selector)
  BY <1>1, <1>4, Goes
<1>6. r.pc = "next" /\ r.batch = {} /\ r.good = {} /\ r.prog = None /\ r.src = None
      /\ r.why = "none" /\ r.out = {} /\ r.todo = jobs
  BY DEF Idle
<1>7. \E C \in SUBSET Active :
        jobs = {[prog |-> p, src |-> home[p], cell |-> cell[p]] : p \in C}
  BY <1>3, Zenon DEF jobs
<1>8. /\ task[Selector].pc = "idle" /\ task[Ingestor].pc # "waiting"
      /\ Resting(Helpers("reindex"))
      /\ UNCHANGED <<redis, memory, blobs, beaten, faults, crashes, engine>>
      /\ overlap' = (overlap \/ task[Ingestor].pc # "idle")
  BY DEF StartMigration
<1> QED BY <1>5, <1>6, <1>7, <1>8

LEMMA MigrationEndsGoes ==
  ASSUME IInv, MigrationEnds
  PROVE  /\ task[Selector].pc = "waiting" /\ Resting(Helpers("enforce"))
         /\ Others(Selector) /\ Idled(task'[Selector])
         /\ UNCHANGED <<redis, memory, blobs, counts, beaten>>
<1>1. Selector \in Tasks /\ TypeOK /\ Go(Selector, Idle)
  BY Kinds DEF IInv, MigrationEnds
<1> QED BY <1>1, Goes, Idles DEF MigrationEnds

LEMMA ReindexEndsGoes ==
  ASSUME IInv, ReindexEnds
  PROVE  /\ task[Ingestor].pc = "waiting" /\ Resting(Helpers("reindex"))
         /\ Others(Ingestor) /\ Idled(task'[Ingestor])
         /\ UNCHANGED <<redis, memory, blobs, counts, beaten>>
<1>1. Ingestor \in Tasks /\ TypeOK /\ Go(Ingestor, Idle)
  BY Kinds DEF IInv, ReindexEnds
<1> QED BY <1>1, Goes, Idles DEF ReindexEnds

LEMMA StartReindexGoes ==
  ASSUME IInv, StartReindex
  PROVE  /\ \A t \in Tasks : task[t].pc = "idle"
         /\ UNCHANGED <<redis, memory, state, home, beaten, faults, crashes, overlap, engine>>
         /\ task'[Ingestor] = [Idle EXCEPT !.pc = "waiting"]
         /\ \A t \in Helpers("reindex") : task'[t] = [Idle EXCEPT !.pc = "gather", !.on = t[2]]
         /\ task'[Selector] = task[Selector]
         /\ \A t \in Helpers("enforce") : task'[t] = task[t]
<1>1. task' = [t \in Tasks |->
                 CASE t = Ingestor -> [Idle EXCEPT !.pc = "waiting"]
                   [] t \in Helpers("reindex") -> [Idle EXCEPT !.pc = "gather", !.on = t[2]]
                   [] OTHER -> task[t]]
  BY DEF StartReindex
<1>2. /\ Ingestor \notin Helpers("reindex") /\ Selector \notin Helpers("reindex")
      /\ \A t \in Helpers("enforce") : t # Ingestor /\ t \notin Helpers("reindex")
  BY Kinds
<1>3. task'[Ingestor] = [Idle EXCEPT !.pc = "waiting"]
  BY <1>1, <1>2, Kinds
<1>4. \A t \in Helpers("reindex") : task'[t] = [Idle EXCEPT !.pc = "gather", !.on = t[2]]
  BY <1>1, <1>2, Kinds
<1>5. task'[Selector] = task[Selector]
  BY <1>1, <1>2, Kinds
<1>6. \A t \in Helpers("enforce") : task'[t] = task[t]
  BY <1>1, <1>2, Kinds
<1>7. \A t \in Tasks : task[t].pc = "idle"
  BY DEF StartReindex, Resting, Tasks
<1>8. UNCHANGED <<redis, memory, state, home, beaten, faults, crashes, overlap, engine>>
  BY DEF StartReindex
<1> QED BY <1>3, <1>4, <1>5, <1>6, <1>7, <1>8

LEMMA CrashGoes ==
  ASSUME IInv, Crash
  PROVE  /\ \A t \in Tasks : task'[t] = Idle
         /\ cache' = hash /\ where' \in [Islands -> [Programs -> Cells \union {None}]]
         /\ \A i \in Islands, p \in Programs :
              LET cs == {c \in Cells : hash[i][c] = p} IN
              where'[i][p] \in (IF cs = {} THEN {None} ELSE cs)
         /\ crashes' = crashes + 1
         /\ UNCHANGED <<hash, rev, blobs, beaten, engine, faults, overlap>>
  BY DEF Crash


-----------------------------------------------------------------------------
(* The turns that the tasks take.                                          *)
LEMMA TurnStep ==
  ASSUME Turns, NEW t \in Tasks, Others(t), task[t].pc \notin {"idle", "waiting"},
         Own(t, task'[t])
  PROVE  Turns'
<1>1. \A u \in Tasks : Own(u, task'[u])
  BY DEF Turns, Others
<1>2. task'[Selector].pc # "idle" => task'[Ingestor].pc = "idle"
  BY Kinds DEF Turns, Others
<1>3. \A u \in Helpers("reindex") : task'[u].pc # "idle" => task'[Ingestor].pc = "waiting"
  BY Kinds DEF Turns, Others
<1>4. \A u \in Helpers("enforce") : task'[u].pc # "idle" => task'[Selector].pc = "waiting"
  BY Kinds DEF Turns, Others
<1> QED BY <1>1, <1>2, <1>3, <1>4 DEF Turns

LEMMA OwnIdled == ASSUME NEW t \in Tasks, NEW s, Idled(s) PROVE Own(t, s)
  BY DEF Idled, Own, Working, Adding, Removing

LEMMA OwnFreed ==
  ASSUME NEW t \in Tasks, NEW r, NEW s, NEW T \in SUBSET r.todo, Own(t, r), Freed(s, r, T),
         t \notin Helpers("enforce")
  PROVE  Own(t, s)
  BY DEF Freed, Own, Working, Adding, Removing

LEMMA OwnOnward ==
  ASSUME NEW t \in Tasks, NEW r, NEW s, NEW ok \in BOOLEAN, Own(t, r), Onward(t, s, r, ok),
         r.pc \in Working, r.pc \in Adding \cup {"limit"} \cup Removing,
         t \notin Helpers("enforce")
  PROVE  Own(t, s)
<1>1. CASE t = Selector /\ s.pc = "look" /\ SameJob(s, r) /\ s.out = {r.prog} /\ s.why = "source"
  BY <1>1, Kinds DEF SameJob, Own, Working, Adding, Removing
<1>2. CASE Freed(s, r, r.todo)
  BY <1>2, OwnFreed
<1> QED BY <1>1, <1>2 DEF Onward

LEMMA OwnLimited ==
  ASSUME NEW t \in Tasks, NEW r, NEW s, Own(t, r), Limited(t, s, r),
         r.pc \in {"limit"} \cup Removing
  PROVE  Own(t, s)
  BY OwnIdled, OwnOnward DEF Limited, Working

LEMMA GatherTurns == ASSUME IInv, Turns, NEW t \in Tasks, Gather(t) PROVE Turns'
<1> DEFINE r == task[t]  s == task'[t]
<1>1. r.pc = "gather" /\ Others(t) /\ Own(t, r)
  BY GatherGoes DEF Turns
<1>2. CASE Idled(s)
  BY <1>1, <1>2, OwnIdled, TurnStep
<1>3. CASE ~Idled(s)
  <2>1. /\ s.pc = "clear" /\ s.on = r.on /\ s.src = r.src /\ SameOut(s, r)
        /\ s.todo = {[prog |-> p, src |-> None, cell |-> cell[p]] : p \in Cached(r.on)}
    BY <1>3, GatherGoes
  <2>2. \A job \in s.todo : job.src = None
    BY <2>1
  <2>3. \A j, k \in s.todo : j.prog = k.prog => j = k
    BY <2>1
  <2>4. Own(t, s)
    BY <1>1, <2>1, <2>2, <2>3, Kinds DEF Own, SameOut, Working, Adding, Removing
  <2> QED BY <1>1, <2>4, TurnStep
<1> QED BY <1>2, <1>3

LEMMA ClearTurns == ASSUME IInv, Turns, NEW t \in Tasks, Clear(t) PROVE Turns'
<1> DEFINE r == task[t]  s == task'[t]
<1>1. r.pc = "clear" /\ Others(t) /\ Own(t, r)
  BY ClearGoes DEF Turns
<1>2. t \notin Helpers("enforce")
  BY <1>1 DEF Own, Removing
<1>3. \/ Freed(s, r, r.todo)
      \/ s.pc = "cleared" /\ SameJob(s, r) /\ SameOut(s, r)
  BY ClearGoes
<1>4. Own(t, s)
  <2>1. CASE Freed(s, r, r.todo)
    BY <1>1, <1>2, <2>1, OwnFreed
  <2>2. CASE s.pc = "cleared" /\ SameJob(s, r) /\ SameOut(s, r)
    BY <1>1, <1>2, <2>2 DEF Own, SameJob, SameOut, Working, Adding, Removing
  <2> QED BY <1>3, <2>1, <2>2
<1> QED BY <1>1, <1>4, TurnStep

LEMMA ClearedTurns == ASSUME IInv, Turns, NEW t \in Tasks, Cleared(t) PROVE Turns'
<1> DEFINE r == task[t]  s == task'[t]
<1>1. r.pc = "cleared" /\ Others(t) /\ Own(t, r) /\ Freed(s, r, r.todo)
  BY ClearedGoes DEF Turns
<1>2. t \notin Helpers("enforce")
  BY <1>1 DEF Own, Removing
<1> QED BY <1>1, <1>2, OwnFreed, TurnStep

LEMMA AddTurns == ASSUME IInv, Turns, NEW t \in Tasks, Add(t) PROVE Turns'
<1> DEFINE r == task[t]  s == task'[t]
<1>1. r.pc = "next" /\ Others(t) /\ Own(t, r) /\ r \in Task
  BY AddGoes, At DEF Turns
<1>2. t \notin Helpers("enforce")
  BY <1>1 DEF Own, Removing
<1>3. PICK job \in r.todo : \E i \in Route(t, job) :
        \/ Freed(s, r, r.todo \ {job})
        \/ /\ s.pc = "watch" /\ s.todo = r.todo \ {job} /\ s.prog = job.prog
           /\ s.src = job.src /\ s.on = i /\ SameOut(s, r)
  BY AddGoes
<1>4. CASE Freed(s, r, r.todo \ {job})
  <2>1. r.todo \ {job} \in SUBSET r.todo
    OBVIOUS
  <2> HIDE DEF r, s
  <2>2. Own(t, s)
    BY <1>1, <1>2, <1>4, <2>1, OwnFreed
  <2> QED BY <1>1, <2>2, TurnStep DEF r, s
<1>5. ASSUME NEW i \in Route(t, job),
             s.pc = "watch" /\ s.todo = r.todo \ {job} /\ s.prog = job.prog
             /\ s.src = job.src /\ s.on = i /\ SameOut(s, r)
      PROVE  Turns'
  <2>1. t \in Helpers("reindex") => s.on = t[2]
    BY <1>5 DEF Route
  <2>2. t = Selector => s.on # s.src
    BY <1>5, Kinds DEF Route
  <2>3. Own(t, s)
    BY <1>1, <1>2, <1>5, <2>1, <2>2 DEF Own, SameOut, Working, Adding, Removing
  <2> QED BY <1>1, <2>3, TurnStep
<1> QED BY <1>3, <1>4, <1>5

LEMMA WatchTurns == ASSUME IInv, Turns, NEW t \in Tasks, Watch(t) PROVE Turns'
<1> DEFINE r == task[t]  s == task'[t]
<1>1. /\ r.pc = "watch" /\ Others(t) /\ Own(t, r)
      /\ s.pc = "seen" /\ SameJob(s, r) /\ SameOut(s, r)
  BY WatchGoes DEF Turns
<1>2. Own(t, s)
  BY <1>1 DEF Own, SameJob, SameOut, Working, Adding, Removing
<1> QED BY <1>1, <1>2, TurnStep

LEMMA ExecTurns == ASSUME IInv, Turns, NEW t \in Tasks, Exec(t) PROVE Turns'
<1> DEFINE r == task[t]  s == task'[t]
<1>1. /\ r.pc = "seen" /\ Others(t) /\ Own(t, r)
      /\ s.pc = "stored" /\ SameJob(s, r) /\ SameOut(s, r)
  BY ExecGoes DEF Turns
<1>2. Own(t, s)
  BY <1>1 DEF Own, SameJob, SameOut, Working, Adding, Removing
<1> QED BY <1>1, <1>2, TurnStep

LEMMA StoredTurns == ASSUME IInv, Turns, NEW t \in Tasks, Stored(t) PROVE Turns'
<1> DEFINE r == task[t]  s == task'[t]
<1>1. /\ r.pc = "stored" /\ Others(t) /\ Own(t, r)
      /\ \/ t \in Helpers("reindex") /\ Freed(s, r, r.todo)
         \/ t \notin Helpers("reindex") /\ s.pc = "limit" /\ SameJob(s, r) /\ SameOut(s, r)
  BY StoredGoes DEF Turns
<1>2. Own(t, s)
  <2>1. CASE t \in Helpers("reindex") /\ Freed(s, r, r.todo)
    BY <1>1, <2>1, OwnFreed, Kinds
  <2>2. CASE t \notin Helpers("reindex") /\ s.pc = "limit" /\ SameJob(s, r) /\ SameOut(s, r)
    BY <1>1, <2>2 DEF Own, SameJob, SameOut, Working, Adding, Removing
  <2> QED BY <1>1, <2>1, <2>2
<1> QED BY <1>1, <1>2, TurnStep

LEMMA FinishTurns == ASSUME IInv, Turns, NEW t \in Tasks, Finish(t) PROVE Turns'
<1> DEFINE r == task[t]  s == task'[t]
<1>1. r.pc = "next" /\ r.todo = {} /\ Own(t, r)
  BY FinishGoes DEF Turns
<1>2. CASE t = Ingestor /\ Others(t) /\ s.pc = "verdict" /\ SameJob(s, r) /\ SameOut(s, r)
  <2>1. Own(t, s)
    BY <1>1, <1>2, Kinds DEF Own, SameJob, SameOut, Working, Adding, Removing
  <2> QED BY <1>1, <1>2, <2>1, TurnStep
<1>3. CASE t \notin {Ingestor, Selector} /\ Others(t) /\ Idled(s)
  BY <1>1, <1>3, OwnIdled, TurnStep
<1>4. ASSUME t = Selector, s = [Idle EXCEPT !.pc = "waiting"],
             \A u \in Tasks \ {t} :
                    task'[u] = IF u \in Helpers("enforce")
                               THEN [Idle EXCEPT !.pc = "limit", !.on = u[2]] ELSE task[u]
      PROVE  Turns'
  <2>1. Own(t, s)
    BY ZenonT(30), <1>4, Kinds DEF Own, Idle, Working, Adding, Removing
  <2>2. \A u \in Helpers("enforce") : Own(u, [Idle EXCEPT !.pc = "limit", !.on = u[2]])
    BY Kinds DEF Own, Idle, Working, Adding, Removing
  <2>3. ASSUME NEW u \in Tasks PROVE Own(u, task'[u])
    <3>1. CASE u = t
      BY <2>1, <3>1
    <3>2. CASE u # t /\ u \in Helpers("enforce")
      <4>1. task'[u] = [Idle EXCEPT !.pc = "limit", !.on = u[2]]
        BY <1>4, <3>2
      <4> QED BY <2>2, <3>2, <4>1
    <3>3. CASE u # t /\ u \notin Helpers("enforce")
      <4>1. task'[u] = task[u]
        BY <1>4, <3>3
      <4> QED BY <4>1 DEF Turns
    <3> QED BY <3>1, <3>2, <3>3
  <2>4. s.pc = "waiting" /\ task'[Ingestor] = task[Ingestor]
    BY <1>4, Kinds DEF Idle
  <2>5. \A u \in Helpers("reindex") : task'[u] = task[u]
    BY <1>4, Kinds
  <2>6. task[Selector].pc = "next"
    BY <1>1, <1>4
  <2> QED BY <1>4, <2>3, <2>4, <2>5, <2>6, Kinds DEF Turns
<1> QED BY <1>2, <1>3, <1>4, FinishGoes

LEMMA LimitTurns == ASSUME IInv, Turns, NEW t \in Tasks, Limit(t) PROVE Turns'
<1> DEFINE r == task[t]  s == task'[t]
<1>1. /\ r.pc = "limit" /\ Others(t) /\ Own(t, r)
      /\ \/ Limited(t, s, r)
         \/ s.pc = "look" /\ SameJob(s, r) /\ s.why = "limit"
  BY LimitGoes DEF Turns
<1>2. Own(t, s)
  <2>1. CASE Limited(t, s, r)
    BY <1>1, <2>1, OwnLimited
  <2>2. CASE s.pc = "look" /\ SameJob(s, r) /\ s.why = "limit"
    BY <1>1, <2>2 DEF Own, SameJob, Working, Adding, Removing
  <2> QED BY <1>1, <2>1, <2>2
<1> QED BY <1>1, <1>2, TurnStep

LEMMA LookTurns == ASSUME IInv, Turns, NEW t \in Tasks, Look(t) PROVE Turns'
<1> DEFINE r == task[t]  s == task'[t]
<1>1. /\ r.pc = "look" /\ Others(t) /\ Own(t, r)
      /\ s.pc \in {"wipe", "wiped"} /\ SameJob(s, r) /\ s.why = r.why /\ s.out = r.out
  BY LookGoes DEF Turns
<1>2. Own(t, s)
  BY <1>1 DEF Own, SameJob, Working, Adding, Removing
<1> QED BY <1>1, <1>2, TurnStep

LEMMA WipeTurns == ASSUME IInv, Turns, NEW t \in Tasks, Wipe(t) PROVE Turns'
<1> DEFINE r == task[t]  s == task'[t]
<1>1. /\ r.pc = "wipe" /\ Others(t) /\ Own(t, r)
      /\ s.pc = "wiped" /\ SameJob(s, r) /\ SameOut(s, r)
  BY WipeGoes DEF Turns
<1>2. Own(t, s)
  BY <1>1 DEF Own, SameJob, SameOut, Working, Adding, Removing
<1> QED BY <1>1, <1>2, TurnStep

LEMMA EvictedTurns == ASSUME IInv, Turns, NEW t \in Tasks, Evicted(t) PROVE Turns'
<1> DEFINE r == task[t]  s == task'[t]
<1>1. r.pc = "wiped" /\ Others(t) /\ Own(t, r) /\ Limited(t, s, r)
  BY EvictedGoes DEF Turns
<1>2. Own(t, s)
  BY <1>1, OwnLimited DEF Removing
<1> QED BY <1>1, <1>2, TurnStep

(* Only a migrant is removed from its source or rolled back.               *)
LEMMA Migrants ==
  ASSUME Turns, NEW t \in Tasks, task[t].pc \in Removing, task[t].why # "limit"
  PROVE  t = Selector
  BY DEF Turns, Own

LEMMA MovedTurns == ASSUME IInv, Turns, NEW t \in Tasks, Moved(t) PROVE Turns'
<1> DEFINE r == task[t]  s == task'[t]
<1>1. /\ r.pc = "wiped" /\ r.why = "source" /\ Others(t) /\ Own(t, r)
      /\ \/ Freed(s, r, r.todo)
         \/ s.pc = "look" /\ s.why = "rollback" /\ SameJob(s, r) /\ s.out = r.out
  BY MovedGoes DEF Turns
<1>2. t = Selector /\ t \notin Helpers("enforce")
  BY <1>1, Migrants, Kinds DEF Removing
<1>3. Own(t, s)
  <2>1. CASE Freed(s, r, r.todo)
    BY <1>1, <1>2, <2>1, OwnFreed
  <2>2. CASE s.pc = "look" /\ s.why = "rollback" /\ SameJob(s, r) /\ s.out = r.out
    BY <1>1, <1>2, <2>2 DEF Own, SameJob, Working, Adding, Removing
  <2> QED BY <1>1, <2>1, <2>2
<1> QED BY <1>1, <1>3, TurnStep

LEMMA RolledBackTurns == ASSUME IInv, Turns, NEW t \in Tasks, RolledBack(t) PROVE Turns'
<1> DEFINE r == task[t]  s == task'[t]
<1>1. /\ r.pc = "wiped" /\ r.why = "rollback" /\ Others(t) /\ Own(t, r) /\ Freed(s, r, r.todo)
  BY RolledBackGoes DEF Turns
<1>2. t \notin Helpers("enforce")
  BY <1>1, Migrants, Kinds DEF Removing
<1> QED BY <1>1, <1>2, OwnFreed, TurnStep


LEMMA IngestTurns ==
  ASSUME IInv, Turns, NEW B \in SUBSET Programs, Ingest(B), ~overlap'
  PROVE  Turns'
<1> DEFINE r == task[Ingestor]  s == task'[Ingestor]
<1>1. /\ r.pc = "idle" /\ Others(Ingestor) /\ task[Selector].pc = "idle"
      /\ s.pc = "next" /\ s.src = None /\ s.why = "none"
      /\ s.todo = {[prog |-> p, src |-> None, cell |-> cell[p]] : p \in B}
  BY IngestGoes
<1>2. \A job \in s.todo : job.src = None
  BY <1>1
<1>3. \A j, k \in s.todo : j.prog = k.prog => j = k
  BY <1>1
<1>4. Own(Ingestor, s)
  BY <1>1, <1>2, <1>3, Kinds DEF Own, Working, Adding, Removing
<1>5. \A u \in Tasks : Own(u, task'[u])
  BY <1>1, <1>4 DEF Turns, Others
<1> QED BY <1>1, <1>5, Kinds DEF Turns, Others

LEMMA VerdictTurns == ASSUME IInv, Turns, Verdict PROVE Turns'
  BY VerdictGoes, OwnIdled, TurnStep, Kinds

LEMMA StartMigrationTurns == ASSUME IInv, Turns, StartMigration, ~overlap' PROVE Turns'
<1> DEFINE r == task[Selector]  s == task'[Selector]
<1>1. /\ r.pc = "idle" /\ Others(Selector) /\ task[Ingestor].pc = "idle"
      /\ s.pc = "next" /\ s.src = None /\ s.why = "none"
  BY StartMigrationGoes
<1>2. PICK C \in SUBSET Active :
        s.todo = {[prog |-> p, src |-> home[p], cell |-> cell[p]] : p \in C}
  BY StartMigrationGoes
<1>3. \A j, k \in s.todo : j.prog = k.prog => j = k
  BY <1>2
<1>4. Own(Selector, s)
  BY <1>1, <1>3, Kinds DEF Own, Working, Adding, Removing
<1>5. \A u \in Tasks : Own(u, task'[u])
  BY <1>1, <1>4 DEF Turns, Others
<1> QED BY <1>1, <1>5, Kinds DEF Turns, Others

LEMMA MigrationEndsTurns == ASSUME IInv, Turns, MigrationEnds PROVE Turns'
<1>1. /\ Own(Selector, task'[Selector]) /\ task'[Selector].pc = "idle" /\ Others(Selector)
      /\ \A u \in Helpers("enforce") : task[u].pc = "idle"
  BY MigrationEndsGoes, OwnIdled, Kinds DEF Idled, Resting
<1>2. \A u \in Tasks : Own(u, task'[u])
  BY <1>1 DEF Turns, Others
<1> QED BY <1>1, <1>2, Kinds DEF Turns, Others

LEMMA ReindexEndsTurns == ASSUME IInv, Turns, ReindexEnds PROVE Turns'
<1>1. /\ Own(Ingestor, task'[Ingestor]) /\ task'[Ingestor].pc = "idle" /\ Others(Ingestor)
      /\ \A u \in Helpers("reindex") : task[u].pc = "idle"
  BY ReindexEndsGoes, OwnIdled, Kinds DEF Idled, Resting
<1>2. \A u \in Tasks : Own(u, task'[u])
  BY <1>1 DEF Turns, Others
<1> QED BY <1>1, <1>2, Kinds DEF Turns, Others

LEMMA StartReindexTurns == ASSUME IInv, Turns, StartReindex PROVE Turns'
<1>1. Own(Ingestor, [Idle EXCEPT !.pc = "waiting"]) /\ [Idle EXCEPT !.pc = "waiting"].pc = "waiting"
  BY Kinds DEF Own, Idle, Working, Adding, Removing
<1>2. \A u \in Helpers("reindex") : Own(u, [Idle EXCEPT !.pc = "gather", !.on = u[2]])
  BY Kinds DEF Own, Idle, Working, Adding, Removing
<1>3. ASSUME NEW u \in Tasks PROVE Own(u, task'[u])
  <2>1. CASE u = Ingestor
    BY <1>1, <2>1, StartReindexGoes
  <2>2. CASE u \in Helpers("reindex")
    BY <1>2, <2>2, StartReindexGoes
  <2>3. CASE u = Selector \/ u \in Helpers("enforce")
    BY <2>3, StartReindexGoes DEF Turns
  <2> QED BY <2>1, <2>2, <2>3, Kinds
<1> QED BY <1>1, <1>3, StartReindexGoes, Kinds DEF Turns

LEMMA CrashTurns == ASSUME IInv, Crash PROVE Turns'
<1>1. \A u \in Tasks : Idled(task'[u])
  BY CrashGoes, Idles
<1>2. \A u \in Tasks : Own(u, task'[u]) /\ task'[u].pc = "idle"
  BY <1>1, OwnIdled DEF Idled
<1> QED BY <1>2, Kinds DEF Turns

-----------------------------------------------------------------------------
(* Two coroutines at work are at work on different islands.                *)
LEMMA Alone ==
  ASSUME Turns, NEW t \in Tasks, NEW u \in Tasks, t # u,
         task[t].pc \in Working, task[u].pc \in Working
  PROVE  Target(task[t]) # Target(task[u])
<1>1. Own(t, task[t]) /\ Own(u, task[u])
  BY DEF Turns
<1>2. \/ t \in Helpers("reindex") /\ u \in Helpers("reindex")
      \/ t \in Helpers("enforce") /\ u \in Helpers("enforce")
  <2>1. task[t].pc \notin {"idle", "waiting"} /\ task[u].pc \notin {"idle", "waiting"}
    BY DEF Working, Removing, Adding
  <2>2. t # Ingestor /\ u # Ingestor
    BY <2>1, Kinds DEF Turns
  <2>3. t # Selector /\ u # Selector
    BY <2>1, <2>2, Kinds DEF Turns
  <2>4. /\ t \in Helpers("reindex") \/ t \in Helpers("enforce")
        /\ u \in Helpers("reindex") \/ u \in Helpers("enforce")
    BY <2>2, <2>3, Kinds
  <2>5. \A v \in Helpers("reindex") : task[v].pc # "idle" => task[Ingestor].pc = "waiting"
    BY Zenon DEF Turns
  <2>6. \A v \in Helpers("enforce") : task[v].pc # "idle" => task[Ingestor].pc = "idle"
    BY DEF Turns
  <2>7. ~(t \in Helpers("reindex") /\ u \in Helpers("enforce"))
    BY <2>1, <2>5, <2>6
  <2>8. ~(u \in Helpers("reindex") /\ t \in Helpers("enforce"))
    BY <2>1, <2>5, <2>6
  <2> QED BY <2>4, <2>7, <2>8
<1>3. task[t].on = t[2] /\ task[u].on = u[2]
  BY <1>1, <1>2 DEF Own
<1>4. Target(task[t]) = t[2] /\ Target(task[u]) = u[2]
  BY <1>1, <1>2, <1>3, Kinds DEF Own, Target, Working
<1> QED BY <1>2, <1>4, Kinds

(* What a task at work is at work on.                                      *)
LEMMA Targets ==
  ASSUME IInv, Turns, NEW t \in Tasks, task[t].pc \in Working
  PROVE  /\ Target(task[t]) \in Islands /\ task[t].on \in Islands
         /\ task[t].pc \notin Removing => Target(task[t]) = task[t].on
         /\ task[t].pc \in Adding => task[t].prog \in Programs /\ task[t].cell \in Cells
         /\ task[t].pc \in Removing =>
              Target(task[t]) = task[t].on \/ (t = Selector /\ task[t].why = "source")
<1>1. Own(t, task[t]) /\ task[t] \in Task /\ Knows(t, task[t])
  BY At DEF Turns
<1>2. task[t].on \in Islands
  BY <1>1 DEF Knows, Working, Adding, Removing, Task
<1>3. Target(task[t]) \in Islands
  BY <1>1, <1>2 DEF Knows, Own, Target, Working, Adding, Removing, Task
<1>4. task[t].pc \in Adding => task[t].prog \in Programs /\ task[t].cell \in Cells
  BY <1>1 DEF Knows, Adding, Task
<1> QED BY <1>1, <1>2, <1>3, <1>4 DEF Own, Target, Working

(* While no answer is outstanding at an island, memory agrees with Redis.  *)
LEMMA NotLagging ==
  ASSUME Turns, Mirror, NEW t \in Tasks, task[t].pc \in Working, task[t].pc \notin Lagging,
         NEW i \in Islands, i = Target(task[t])
  PROVE  Mirrored(i)
  BY Alone DEF Mirror, Lagging, Working, Adding, Removing

LEMMA CachedIn ==
  ASSUME IInv, Inverse, NEW i \in Islands, Mirrored(i)
  PROVE  \A p \in Programs : p \in Cached(i) <=> In(p, i)
<1> SUFFICES ASSUME NEW p \in Programs PROVE p \in Cached(i) <=> In(p, i)
  OBVIOUS
<1>1. p # None /\ rev[i][p] \in Cells \cup {None} /\ (\A c \in Cells : c # None)
  BY IslandsAssumption DEF IInv, TypeOK
<1>2. \A c \in Cells : cache[i][c] = p <=> rev[i][p] = c
  BY DEF Inverse, Mirrored
<1> QED BY <1>1, <1>2 DEF Cached, Occupants, In


-----------------------------------------------------------------------------
(* The hash and the reverse hash.  A program that is added is nowhere else *)
(* on the island.                                                          *)
LEMMA NowhereElse ==
  ASSUME IInv, Turns, Jobbed, New, Recelled, Celled \/ Homed,
         NEW t \in Tasks, task[t].pc = "seen"
  PROVE  rev[task[t].on][task[t].prog] \in {None, task[t].cell}
<1> DEFINE r == task[t]
<1>1. /\ r.on \in Islands /\ r.prog \in Programs /\ r.cell \in Cells /\ Own(t, r)
      /\ r.cell = cell[r.prog] /\ r.pc \in Working /\ r.pc \in Adding
  BY Targets DEF Turns, Jobbed, Fed, Working, Adding
<1>2. CASE t = Ingestor
  BY <1>1, <1>2 DEF New, In
<1>3. CASE t \in Helpers("reindex")
  <2>1. InCells(r.on)
    BY <1>1, <1>3 DEF Recelled, Own
  <2> QED BY <1>1, <2>1 DEF InCells, In
<1>4. CASE t = Selector
  <2>1. CASE Celled
    <3>1. task[<<"reindex", r.on>>].pc = "idle"
      BY <1>1, <1>4, Kinds DEF Turns
    <3>2. InCells(r.on)
      BY <1>1, <2>1, <3>1 DEF Celled
    <3> QED BY <1>1, <3>2 DEF InCells, In
  <2>2. CASE Homed
    <3>1. r.on # r.src /\ \A i \in Islands : In(r.prog, i) => i = r.src
      BY <1>1, <1>4, <2>2 DEF Homed, Sourced, Own
    <3> QED BY <1>1, <3>1 DEF In
  <2> QED BY <2>1, <2>2
<1>5. t \notin Helpers("enforce")
  BY <1>1 DEF Own, Removing
<1> QED BY <1>2, <1>3, <1>4, <1>5, Kinds

(* What is executed, seen from both sides.                                 *)
LEMMA ExecEffect ==
  ASSUME IInv, Turns, NEW t \in Tasks, Exec(t)
  PROVE  LET r == task[t] IN
         /\ r.seen = hash[r.on][r.cell]
         /\ \A i \in Islands, c \in Cells :
              hash'[i][c] = IF i = r.on /\ c = r.cell THEN r.prog ELSE hash[i][c]
         /\ \A i \in Islands, p \in Programs :
              rev'[i][p] = IF i # r.on THEN rev[i][p]
                           ELSE IF p = r.prog THEN r.cell
                           ELSE IF p = hash[r.on][r.cell] THEN None ELSE rev[i][p]
<1> DEFINE r == task[t]
<1>1. r.pc = "seen" /\ t \in watching[r.on]
  BY ExecGoes
<1>2. r.seen = hash[r.on][r.cell]
  BY <1>1 DEF IInv, Watched
<1>3. r.on \in Islands /\ r.cell \in Cells /\ r.prog \in Programs
  BY <1>1, Targets DEF Working, Adding
<1>4. hash' = [hash EXCEPT ![r.on][r.cell] = r.prog] /\ rev' = [rev EXCEPT ![r.on] = Reversed(r)]
  BY ExecGoes
<1>5. \A i \in Islands, c \in Cells :
              hash'[i][c] = IF i = r.on /\ c = r.cell THEN r.prog ELSE hash[i][c]
  BY <1>3, <1>4 DEF IInv, TypeOK
<1>6. \A i \in Islands : rev'[i] = IF i = r.on THEN Reversed(r) ELSE rev[i]
  BY <1>3, <1>4 DEF IInv, TypeOK
<1>7. \A p \in Programs : Reversed(r)[p] = IF p = r.prog THEN r.cell
                           ELSE IF p = hash[r.on][r.cell] THEN None ELSE rev[r.on][p]
  BY <1>2 DEF Reversed
<1> QED BY <1>2, <1>5, <1>6, <1>7

LEMMA ClearEffect ==
  ASSUME IInv, Turns, NEW t \in Tasks, Clear(t), task'[t].pc = "cleared"
  PROVE  LET r == task[t] IN
         /\ \A i \in Islands, c \in Cells : hash'[i][c] = IF i = r.on THEN None ELSE hash[i][c]
         /\ \A i \in Islands, p \in Programs : rev'[i][p] = IF i = r.on THEN None ELSE rev[i][p]
<1> DEFINE r == task[t]
<1>1. r.on \in Islands
  BY ClearGoes, Targets DEF Working
<1>2. /\ hash' = [hash EXCEPT ![r.on] = [c \in Cells |-> None]]
      /\ rev' = [rev EXCEPT ![r.on] = [p \in Programs |-> None]]
  BY ClearGoes DEF Freed
<1> QED BY <1>1, <1>2 DEF IInv, TypeOK

LEMMA WipeEffect ==
  ASSUME IInv, Turns, Mirror, NEW t \in Tasks, Wipe(t)
  PROVE  LET r == task[t]  k == Target(r) IN
         /\ \A i \in Islands, c \in Cells :
              hash'[i][c] = IF i = k /\ \E p \in Programs : r.at[p] = c THEN None ELSE hash[i][c]
         /\ \A i \in Islands, p \in Programs :
              rev'[i][p] = IF i = k /\ p \in r.out THEN None ELSE rev[i][p]
         /\ \A p \in Programs : r.at[p] = IF p \in r.out THEN rev[k][p] ELSE None
<1> DEFINE r == task[t]  k == Target(r)
           found == {p \in Programs : r.at[p] # None}
           gone == {r.at[p] : p \in found}
<1>1. r.pc = "wipe" /\ k \in Islands /\ \A c \in Cells : c # None
  BY WipeGoes, Targets, IslandsAssumption DEF Working, Removing
<1>2. /\ hash' = [hash EXCEPT ![k] = [c \in Cells |-> IF c \in gone THEN None ELSE @[c]]]
      /\ rev' = [rev EXCEPT ![k] = [p \in Programs |-> IF p \in found THEN None ELSE @[p]]]
  BY WipeGoes
<1>3. \A p \in Programs : r.at[p] = IF p \in r.out THEN rev[k][p] ELSE None
  BY <1>1 DEF Mirror, Lag
<1>4. \A c \in Cells : c \in gone <=> \E p \in Programs : r.at[p] = c
  BY <1>1
<1>5. \A i \in Islands, c \in Cells :
        hash'[i][c] = IF i = k /\ c \in gone THEN None ELSE hash[i][c]
  <2> HIDE DEF gone
  <2> QED BY <1>1, <1>2 DEF IInv, TypeOK
<1>6. \A i \in Islands, p \in Programs :
        rev'[i][p] = IF i = k /\ p \in found THEN None ELSE rev[i][p]
  <2> HIDE DEF found
  <2> QED BY <1>1, <1>2 DEF IInv, TypeOK
<1>7. \A i \in Islands, p \in Programs :
        rev'[i][p] = IF i = k /\ p \in r.out THEN None ELSE rev[i][p]
  BY <1>3, <1>6
<1> QED BY <1>3, <1>4, <1>5, <1>7

LEMMA ExecInverse ==
  ASSUME IInv, Turns, Inverse, NEW t \in Tasks, Exec(t),
         rev[task[t].on][task[t].prog] \in {None, task[t].cell}
  PROVE  Inverse'
<1> DEFINE r == task[t]
<1>1. r.on \in Islands /\ r.cell \in Cells /\ r.prog \in Programs
      /\ \A c \in Cells : c # None
  BY ExecGoes, Targets, IslandsAssumption DEF Working, Adding
<1> SUFFICES ASSUME NEW i \in Islands, NEW c \in Cells, NEW p \in Programs
             PROVE  hash'[i][c] = p <=> rev'[i][p] = c
  BY DEF Inverse
<1>2. hash[i][c] = p <=> rev[i][p] = c
  BY DEF Inverse
<1>3. hash[r.on][r.cell] = p <=> rev[r.on][p] = r.cell
  BY <1>1 DEF Inverse
<1>4. hash[i][c] = r.prog <=> rev[i][r.prog] = c
  BY <1>1 DEF Inverse
<1> QED BY <1>1, <1>2, <1>3, <1>4, ExecEffect

LEMMA ClearInverse ==
  ASSUME IInv, Turns, Inverse, NEW t \in Tasks, Clear(t)
  PROVE  Inverse'
<1>1. CASE task'[t].pc = "cleared"
  BY <1>1, ClearEffect, IslandsAssumption DEF Inverse
<1>2. CASE task'[t].pc # "cleared"
  BY <1>2, ClearGoes DEF Inverse, redis
<1> QED BY <1>1, <1>2

LEMMA WipeInverse ==
  ASSUME IInv, Turns, Inverse, Mirror, NEW t \in Tasks, Wipe(t)
  PROVE  Inverse'
<1> DEFINE r == task[t]  k == Target(r)
<1> SUFFICES ASSUME NEW i \in Islands, NEW c \in Cells, NEW p \in Programs
             PROVE  hash'[i][c] = p <=> rev'[i][p] = c
  BY DEF Inverse
<1>1. hash[i][c] = p <=> rev[i][p] = c
  BY DEF Inverse
<1>2. c # None /\ p # None
  BY IslandsAssumption
<1>3. CASE i # k
  BY <1>1, <1>3, WipeEffect
<1>4. CASE i = k
  <2>1. rev[i][p] = c => ((\E q \in Programs : r.at[q] = c) <=> p \in r.out)
    <3> SUFFICES ASSUME rev[i][p] = c PROVE (\E q \in Programs : r.at[q] = c) <=> p \in r.out
      OBVIOUS
    <3>1. ASSUME NEW q \in Programs, r.at[q] = c PROVE p \in r.out
      <4>1. q \in r.out /\ rev[i][q] = c
        BY <1>2, <1>4, <3>1, WipeEffect
      <4>2. hash[i][c] = q
        BY <4>1 DEF Inverse
      <4> QED BY <1>1, <4>1, <4>2
    <3>2. ASSUME p \in r.out PROVE r.at[p] = c
      BY <1>4, <3>2, WipeEffect
    <3> QED BY <3>1, <3>2
  <2>2. hash'[i][c] = IF \E q \in Programs : r.at[q] = c THEN None ELSE hash[i][c]
    BY <1>4, WipeEffect
  <2>3. rev'[i][p] = IF p \in r.out THEN None ELSE rev[i][p]
    BY <1>4, WipeEffect
  <2> QED BY <1>1, <1>2, <2>1, <2>2, <2>3
<1> QED BY <1>3, <1>4


-----------------------------------------------------------------------------
(* Memory and Redis.                                                       *)

(* A step of t at its island: of the others, none is concerned.            *)
LEMMA MirrorStep ==
  ASSUME IInv, Turns, Mirror, NEW t \in Tasks, Others(t), NEW i \in Islands,
         task[t].pc \in Working, Target(task[t]) = i,
         \A j \in Islands : j # i =>
           /\ \A c \in Cells : hash'[j][c] = hash[j][c] /\ cache'[j][c] = cache[j][c]
           /\ \A p \in Programs : rev'[j][p] = rev[j][p] /\ where'[j][p] = where[j][p],
         Lag(task[t])',
         Mirrored(i)' \/ (task'[t].pc \in Lagging /\ Target(task[t])' = i)
  PROVE  Mirror'
<1>1. ASSUME NEW j \in Islands, \A u \in Tasks : task'[u].pc \in Lagging => Target(task[u])' # j
      PROVE  Mirrored(j)'
  <2>1. CASE j = i
    BY <1>1, <2>1
  <2>2. CASE j # i
    <3>1. \A u \in Tasks : task[u].pc \in Lagging => Target(task[u]) # j
      BY <1>1, <2>2 DEF Others, Target
    <3>2. Mirrored(j)
      BY <3>1 DEF Mirror
    <3> QED BY <2>2, <3>2 DEF Mirrored
  <2> QED BY <2>1, <2>2
<1>2. ASSUME NEW u \in Tasks, u # t PROVE Lag(task[u])'
  <2>1. task'[u] = task[u] /\ Lag(task[u])
    BY <1>2 DEF Others, Mirror
  <2>2. CASE task[u].pc \in Working
    <3> DEFINE k == Target(task[u])
    <3>1. k # i /\ k \in Islands
      BY <1>2, <2>2, Alone, Targets
    <3>2. /\ \A c \in Cells : hash'[k][c] = hash[k][c] /\ cache'[k][c] = cache[k][c]
          /\ \A p \in Programs : rev'[k][p] = rev[k][p] /\ where'[k][p] = where[k][p]
      BY <3>1
    <3>3. task[u].pc \notin Removing => k = task[u].on
      BY <2>2, Targets
    <3>4. task[u].pc \in Adding => task[u].prog \in Programs /\ task[u].cell \in Cells
      BY <2>2, Targets
    <3>5. Target(task[u])' = k
      BY <2>1 DEF Target
    <3>6. CASE task[u].pc = "stored"
      <4>1. k = task[u].on /\ task[u].cell \in Cells
        BY <3>3, <3>4, <3>6 DEF Removing, Adding
      <4>2. LagStored(task[u], k)
        BY <2>1, <3>6, <4>1 DEF Lag
      <4>3. LagStored(task[u], k)'
        BY <2>1, <3>2, <4>1, <4>2 DEF LagStored
      <4> QED BY <2>1, <3>6, <4>1, <4>3 DEF Lag, LagStored
    <3>7. CASE task[u].pc = "cleared"
      BY <2>1, <3>2, <3>3, <3>7 DEF Lag, LagCleared, Removing
    <3>8. CASE task[u].pc = "wipe"
      BY <2>1, <3>2, <3>5, <3>8 DEF Lag
    <3>9. CASE task[u].pc = "wiped"
      BY <2>1, <3>2, <3>5, <3>9 DEF Lag, LagWiped
    <3> QED BY <2>1, <3>6, <3>7, <3>8, <3>9 DEF Lag
  <2>3. CASE task[u].pc \notin Working
    BY <2>1, <2>3 DEF Lag, Working, Adding, Removing
  <2> QED BY <2>2, <2>3
<1> QED BY <1>1, <1>2 DEF Mirror

(* A step that changes no archive and no memory, of tasks that owe nothing. *)
LEMMA MirrorIdle ==
  ASSUME Mirror, UNCHANGED <<hash, rev, cache, where>>,
         \A u \in Tasks : task'[u] = task[u] \/ (/\ task[u].pc \notin Lagging
                                                /\ task'[u].pc \notin Lagging \cup {"wipe"})
  PROVE  Mirror'
<1>1. \A i \in Islands : Mirrored(i)' <=> Mirrored(i)
  BY DEF Mirrored
<1>2. \A u \in Tasks : task'[u] = task[u] => Target(task[u])' = Target(task[u])
  BY DEF Target
<1>3. \A u \in Tasks : Lag(task[u])'
  <2> SUFFICES ASSUME NEW u \in Tasks PROVE Lag(task[u])'
    OBVIOUS
  <2>1. CASE task'[u] = task[u]
    BY <1>2, <2>1 DEF Mirror, Lag, LagStored, LagCleared, LagWiped
  <2>2. CASE task'[u].pc \notin Lagging \cup {"wipe"}
    BY <2>2 DEF Lag, Lagging
  <2> QED BY <2>1, <2>2
<1> QED BY <1>1, <1>2, <1>3 DEF Mirror

LEMMA GatherMirror == ASSUME IInv, Turns, Mirror, NEW t \in Tasks, Gather(t) PROVE Mirror'
<1>1. /\ task[t].pc = "gather" /\ task'[t].pc \in {"idle", "clear"} /\ Others(t)
      /\ UNCHANGED <<hash, rev, cache, where>>
  BY GatherGoes DEF Idled, redis, memory
<1> QED BY <1>1, MirrorIdle DEF Others, Lagging

LEMMA ClearMirror == ASSUME IInv, Turns, Mirror, NEW t \in Tasks, Clear(t) PROVE Mirror'
<1>1. task[t].pc = "clear" /\ Others(t) /\ UNCHANGED <<cache, where>>
  BY ClearGoes DEF memory
<1>2. PICK i \in Islands : i = task[t].on /\ Target(task[t]) = i
  BY <1>1, Targets DEF Working, Removing
<1>3. CASE task'[t].pc = "cleared"
  <2>1. task'[t].why = task[t].why /\ task'[t].on = i /\ task'[t].src = task[t].src
    BY <1>2, <1>3, ClearGoes DEF Freed, SameJob, SameOut
  <2>2. Target(task[t])' = i
    BY <1>1, <1>2, <2>1 DEF Target
  <2>3. LagCleared(i)'
    BY <1>2, <1>3, ClearEffect DEF LagCleared
  <2>4. Lag(task[t])'
    BY <1>3, <2>1, <2>3 DEF Lag, LagCleared
  <2> QED BY <1>1, <1>2, <1>3, <2>2, <2>4, ClearEffect, MirrorStep DEF Working, Lagging
<1>4. CASE task'[t].pc # "cleared"
  <2>1. task'[t].pc = "next" /\ UNCHANGED <<hash, rev>>
    BY <1>4, ClearGoes DEF Freed, redis
  <2> QED BY <1>1, <2>1, MirrorIdle DEF Others, Lagging
<1> QED BY <1>3, <1>4

LEMMA ClearedMirror == ASSUME IInv, Turns, Mirror, NEW t \in Tasks, Cleared(t) PROVE Mirror'
<1>1. task[t].pc = "cleared" /\ Others(t) /\ UNCHANGED <<hash, rev>> /\ task'[t].pc = "next"
  BY ClearedGoes DEF redis, Freed
<1>2. PICK i \in Islands : i = task[t].on /\ Target(task[t]) = i
  BY <1>1, Targets DEF Working, Removing
<1>3. /\ \A j \in Islands, c \in Cells : cache'[j][c] = IF j = i THEN None ELSE cache[j][c]
      /\ \A j \in Islands, p \in Programs : where'[j][p] = IF j = i THEN None ELSE where[j][p]
  BY <1>2, ClearedGoes DEF IInv, TypeOK
<1>4. LagCleared(i)
  BY <1>1, <1>2 DEF Mirror, Lag
<1>5. Mirrored(i)'
  BY <1>1, <1>2, <1>3, <1>4 DEF Mirrored, LagCleared
<1>6. Lag(task[t])'
  BY <1>1 DEF Lag
<1> QED BY <1>1, <1>2, <1>3, <1>5, <1>6, MirrorStep DEF Working

LEMMA AddMirror == ASSUME IInv, Turns, Mirror, NEW t \in Tasks, Add(t) PROVE Mirror'
<1>1. /\ task[t].pc = "next" /\ task'[t].pc \in {"next", "watch"} /\ Others(t)
      /\ UNCHANGED <<hash, rev, cache, where>>
  BY AddGoes DEF Freed, redis, memory
<1> QED BY <1>1, MirrorIdle DEF Others, Lagging

LEMMA WatchMirror == ASSUME IInv, Turns, Mirror, NEW t \in Tasks, Watch(t) PROVE Mirror'
<1>1. /\ task[t].pc = "watch" /\ task'[t].pc = "seen" /\ Others(t)
      /\ UNCHANGED <<hash, rev, cache, where>>
  BY WatchGoes DEF memory
<1> QED BY <1>1, MirrorIdle DEF Others, Lagging

LEMMA ExecMirror ==
  ASSUME IInv, Turns, Inverse, Mirror, NEW t \in Tasks, Exec(t)
  PROVE  Mirror'
<1> DEFINE r == task[t]  i == task[t].on
<1>1. /\ r.pc = "seen" /\ Others(t) /\ UNCHANGED <<cache, where>>
      /\ task'[t].pc = "stored" /\ SameJob(task'[t], r) /\ SameOut(task'[t], r)
  BY ExecGoes DEF memory
<1>2. i \in Islands /\ Target(r) = i /\ r.cell \in Cells /\ r.prog \in Programs
  BY <1>1, Targets DEF Working, Removing, Adding
<1>3. Mirrored(i)
  BY <1>1, <1>2, NotLagging DEF Working, Adding, Lagging
<1>4. LagStored(task[t], i)'
  BY <1>1, <1>2, <1>3, ExecEffect DEF LagStored, Mirrored, SameJob
<1>5. Lag(task[t])' /\ Target(task[t])' = i
  BY <1>1, <1>2, <1>4 DEF Lag, LagStored, SameJob, SameOut, Target
<1>6. \A j \in Islands : j # i =>
           /\ \A c \in Cells : hash'[j][c] = hash[j][c] /\ cache'[j][c] = cache[j][c]
           /\ \A p \in Programs : rev'[j][p] = rev[j][p] /\ where'[j][p] = where[j][p]
  BY <1>1, ExecEffect
<1> QED BY <1>1, <1>2, <1>5, <1>6, MirrorStep DEF Working, Adding, Lagging

LEMMA StoredMirror == ASSUME IInv, Turns, Mirror, NEW t \in Tasks, Stored(t) PROVE Mirror'
<1> DEFINE r == task[t]
<1>1. /\ r.pc = "stored" /\ Others(t) /\ UNCHANGED <<hash, rev>> /\ CacheSet(r.on, r.cell, r.prog)
      /\ task'[t].pc \in {"next", "limit"}
  BY StoredGoes DEF redis, Freed
<1>2. PICK i \in Islands : i = r.on /\ Target(r) = i /\ r.cell \in Cells /\ r.prog \in Programs
  BY <1>1, Targets DEF Working, Removing, Adding
<1>3. /\ \A j \in Islands, c \in Cells :
           cache'[j][c] = IF j = i /\ c = r.cell THEN r.prog ELSE cache[j][c]
      /\ \A j \in Islands, p \in Programs :
           where'[j][p] = IF j # i THEN where[j][p] ELSE IF p = r.prog THEN r.cell
                          ELSE IF p = cache[i][r.cell] THEN None ELSE where[i][p]
  BY <1>1, <1>2 DEF IInv, TypeOK, CacheSet
<1>4. LagStored(r, i)
  BY <1>1, <1>2 DEF Mirror, Lag
<1>5. Mirrored(i)'
  BY <1>1, <1>2, <1>3, <1>4 DEF Mirrored, LagStored
<1>6. Lag(task[t])'
  BY <1>1 DEF Lag
<1> QED BY <1>1, <1>2, <1>3, <1>5, <1>6, MirrorStep DEF Working, Adding

LEMMA FinishMirror == ASSUME IInv, Turns, Mirror, NEW t \in Tasks, Finish(t) PROVE Mirror'
<1>1. /\ task[t].pc = "next" /\ UNCHANGED <<hash, rev, cache, where>>
  BY FinishGoes DEF redis, memory
<1>2. ASSUME NEW u \in Tasks, task'[u] # task[u]
      PROVE  task[u].pc \notin Lagging /\ task'[u].pc \notin Lagging \cup {"wipe"}
  <2>1. CASE t = Ingestor
    BY <1>1, <1>2, <2>1, FinishGoes, Kinds DEF Others, Lagging
  <2>2. CASE t = Selector
    <3>1. /\ task'[t] = [Idle EXCEPT !.pc = "waiting"]
          /\ \A v \in Tasks \ {t} :
                    task'[v] = IF v \in Helpers("enforce")
                               THEN [Idle EXCEPT !.pc = "limit", !.on = v[2]] ELSE task[v]
      BY <2>2, FinishGoes, Kinds
    <3>3. /\ task'[t].pc = "waiting"
          /\ u # t => u \in Helpers("enforce") /\ task'[u].pc = "limit"
      BY ZenonT(60), <1>2, <3>1 DEF Idle
    <3>2. u # t => task[u].pc = "idle"
      BY <1>1, <2>2, <3>3 DEF Turns
    <3> QED BY <1>1, <3>3, <3>2 DEF Lagging
  <2>3. CASE t \notin {Ingestor, Selector}
    BY <1>1, <1>2, <2>3, FinishGoes DEF Others, Lagging, Idled
  <2> QED BY <2>1, <2>2, <2>3
<1> QED BY <1>1, <1>2, MirrorIdle

LEMMA LimitMirror == ASSUME IInv, Turns, Mirror, NEW t \in Tasks, Limit(t) PROVE Mirror'
<1>1. /\ task[t].pc = "limit" /\ task'[t].pc \in {"idle", "next", "look"} /\ Others(t)
      /\ UNCHANGED <<hash, rev, cache, where>>
  BY LimitGoes DEF Limited, Idled, Onward, Freed, redis, memory
<1> QED BY <1>1, MirrorIdle DEF Others, Lagging


LEMMA LookMirror == ASSUME IInv, Turns, Mirror, NEW t \in Tasks, Look(t) PROVE Mirror'
<1> DEFINE r == task[t]
<1>1. /\ r.pc = "look" /\ Others(t) /\ UNCHANGED <<hash, rev, cache, where>>
      /\ SameJob(task'[t], r) /\ task'[t].out = r.out /\ task'[t].why = r.why
  BY LookGoes DEF redis, memory
<1>2. PICK i \in Islands : i = Target(r)
  BY <1>1, Targets DEF Working, Removing
<1>3. Target(task[t])' = i
  BY <1>1, <1>2 DEF Target, SameJob
<1>4. Mirrored(i)
  BY <1>1, <1>2, NotLagging DEF Working, Removing, Lagging
<1>5. Mirrored(i)'
  BY <1>1, <1>4 DEF Mirrored
<1>6. \A p \in Programs : task'[t].at[p] = IF p \in r.out THEN rev[i][p] ELSE None
  BY <1>2, LookGoes
<1>7. task'[t].pc = IF task'[t].at = Idle.at THEN "wiped" ELSE "wipe"
  BY LookGoes
<1>8. CASE task'[t].pc = "wipe"
  <2>1. Lag(task[t])'
    BY <1>1, <1>3, <1>6, <1>8 DEF Lag
  <2> QED BY <1>1, <1>2, <1>5, <2>1, MirrorStep DEF Working, Removing
<1>9. CASE task'[t].pc = "wiped"
  <2>1. \A p \in Programs : task'[t].at[p] = None
    BY <1>7, <1>9 DEF Idle
  <2>2. LagWiped(task[t], i)'
    BY <1>1, <1>4, <1>6, <2>1, IslandsAssumption DEF LagWiped, Mirrored
  <2>3. Lag(task[t])'
    BY <1>3, <1>9, <2>2 DEF Lag, LagWiped
  <2> QED BY <1>1, <1>2, <1>5, <2>3, MirrorStep DEF Working, Removing
<1> QED BY <1>7, <1>8, <1>9

LEMMA WipeMirror == ASSUME IInv, Turns, Mirror, NEW t \in Tasks, Wipe(t) PROVE Mirror'
<1> DEFINE r == task[t]
<1>1. /\ r.pc = "wipe" /\ Others(t) /\ UNCHANGED <<cache, where>>
      /\ task'[t].pc = "wiped" /\ SameJob(task'[t], r) /\ SameOut(task'[t], r)
  BY WipeGoes DEF memory
<1>2. PICK i \in Islands : i = Target(r)
  BY <1>1, Targets DEF Working, Removing
<1>3. Target(task[t])' = i
  BY <1>1, <1>2 DEF Target, SameJob, SameOut
<1>4. Mirrored(i)
  BY <1>1, <1>2, NotLagging DEF Working, Removing, Lagging
<1>5. LagWiped(task[t], i)'
  BY <1>1, <1>2, <1>4, WipeEffect DEF LagWiped, Mirrored, SameOut
<1>6. Lag(task[t])'
  BY <1>1, <1>3, <1>5 DEF Lag, LagWiped
<1>7. \A j \in Islands : j # i =>
           /\ \A c \in Cells : hash'[j][c] = hash[j][c] /\ cache'[j][c] = cache[j][c]
           /\ \A p \in Programs : rev'[j][p] = rev[j][p] /\ where'[j][p] = where[j][p]
  BY <1>1, <1>2, WipeEffect
<1> QED BY <1>1, <1>2, <1>3, <1>6, <1>7, MirrorStep DEF Working, Removing, Lagging

(* The answer to a removal: memory follows. *)
LEMMA ForgetMirrored ==
  ASSUME IInv, Turns, Mirror, NEW t \in Tasks, task[t].pc = "wiped", Forget(task[t]),
         NEW i \in Islands, i = Target(task[t]), UNCHANGED <<hash, rev>>
  PROVE  /\ Mirrored(i)'
         /\ \A j \in Islands : j # i =>
              /\ \A c \in Cells : cache'[j][c] = cache[j][c]
              /\ \A p \in Programs : where'[j][p] = where[j][p]
<1> DEFINE r == task[t]
           gone == {where[i][p] : p \in r.out}
<1>1. LagWiped(r, i)
  BY DEF Mirror, Lag
<1>2. r.out \subseteq Programs /\ \A c \in Cells : c # None
  BY At, IslandsAssumption DEF Task
<1>3. CASE r.at = Idle.at
  <2>1. UNCHANGED <<cache, where>>
    BY <1>3 DEF Forget, memory
  <2>2. \A p \in Programs : r.at[p] = None
    BY <1>3 DEF Idle
  <2> QED BY <1>1, <1>2, <2>1, <2>2 DEF LagWiped, Mirrored
<1>4. CASE r.at # Idle.at
  <2>1. /\ cache' = [cache EXCEPT ![i] = [c \in Cells |-> IF c \in gone THEN None ELSE @[c]]]
        /\ where' = [where EXCEPT ![i] = [p \in Programs |-> IF p \in r.out THEN None ELSE @[p]]]
    BY <1>4 DEF Forget
  <2>2. \A c \in Cells : c \in gone <=> \E p \in Programs : r.at[p] = c
    BY <1>1, <1>2 DEF LagWiped
  <2>3. \A j \in Islands, c \in Cells :
          cache'[j][c] = IF j = i /\ c \in gone THEN None ELSE cache[j][c]
    <3> HIDE DEF gone
    <3> QED BY <2>1 DEF IInv, TypeOK
  <2>4. \A j \in Islands, p \in Programs :
          where'[j][p] = IF j = i /\ p \in r.out THEN None ELSE where[j][p]
    BY <2>1 DEF IInv, TypeOK
  <2> HIDE DEF gone
  <2> QED BY <1>1, <2>2, <2>3, <2>4 DEF LagWiped, Mirrored
<1> QED BY <1>3, <1>4

LEMMA ForgetMirror ==
  ASSUME IInv, Turns, Mirror, NEW t \in Tasks, task[t].pc = "wiped", Forget(task[t]),
         UNCHANGED <<hash, rev>>, Others(t), task'[t].pc \in {"idle", "next", "look"}
  PROVE  Mirror'
<1>1. PICK i \in Islands : i = Target(task[t])
  BY Targets DEF Working, Removing
<1>2. Lag(task[t])'
  BY DEF Lag
<1> QED BY <1>1, <1>2, ForgetMirrored, MirrorStep DEF Working, Removing

LEMMA EvictedMirror == ASSUME IInv, Turns, Mirror, NEW t \in Tasks, Evicted(t) PROVE Mirror'
<1>1. /\ task[t].pc = "wiped" /\ task'[t].pc \in {"idle", "next", "look"} /\ Others(t)
      /\ UNCHANGED <<hash, rev>> /\ Forget(task[t])
  BY EvictedGoes DEF Limited, Idled, Onward, Freed, redis
<1> QED BY <1>1, ForgetMirror

LEMMA MovedMirror == ASSUME IInv, Turns, Mirror, NEW t \in Tasks, Moved(t) PROVE Mirror'
<1>1. /\ task[t].pc = "wiped" /\ task'[t].pc \in {"next", "look"} /\ Others(t)
      /\ UNCHANGED <<hash, rev>> /\ Forget(task[t])
  BY MovedGoes DEF Freed, redis
<1> QED BY <1>1, ForgetMirror

LEMMA RolledBackMirror ==
  ASSUME IInv, Turns, Mirror, NEW t \in Tasks, RolledBack(t) PROVE Mirror'
<1>1. /\ task[t].pc = "wiped" /\ task'[t].pc = "next" /\ Others(t)
      /\ UNCHANGED <<hash, rev>> /\ Forget(task[t])
  BY RolledBackGoes DEF Freed, redis
<1> QED BY <1>1, ForgetMirror

LEMMA IngestMirror ==
  ASSUME IInv, Mirror, NEW B \in SUBSET Programs, Ingest(B)
  PROVE  Mirror'
<1>1. /\ task[Ingestor].pc = "idle" /\ task'[Ingestor].pc = "next" /\ Others(Ingestor)
      /\ UNCHANGED <<hash, rev, cache, where>>
  BY IngestGoes DEF redis, memory
<1> QED BY <1>1, MirrorIdle DEF Others, Lagging

LEMMA CallersMirror ==
  ASSUME IInv, Mirror, Verdict \/ StartMigration \/ MigrationEnds \/ ReindexEnds
  PROVE  Mirror'
<1>1. UNCHANGED <<hash, rev, cache, where>>
  BY VerdictGoes, StartMigrationGoes, MigrationEndsGoes, ReindexEndsGoes DEF redis, memory
<1>2. CASE Verdict
  BY <1>1, <1>2, VerdictGoes, MirrorIdle DEF Others, Lagging, Idled
<1>3. CASE StartMigration
  BY <1>1, <1>3, StartMigrationGoes, MirrorIdle DEF Others, Lagging
<1>4. CASE MigrationEnds
  BY <1>1, <1>4, MigrationEndsGoes, MirrorIdle DEF Others, Lagging, Idled
<1>5. CASE ReindexEnds
  BY <1>1, <1>5, ReindexEndsGoes, MirrorIdle DEF Others, Lagging, Idled
<1> QED BY <1>2, <1>3, <1>4, <1>5

LEMMA StartReindexMirror == ASSUME IInv, Mirror, StartReindex PROVE Mirror'
<1>1. UNCHANGED <<hash, rev, cache, where>> /\ \A u \in Tasks : task[u].pc = "idle"
  BY StartReindexGoes DEF redis, memory
<1>2. [Idle EXCEPT !.pc = "waiting"].pc = "waiting"
  BY DEF Idle
<1>3. \A u \in Helpers("reindex") : [Idle EXCEPT !.pc = "gather", !.on = u[2]].pc = "gather"
  BY DEF Idle
<1>4. ASSUME NEW u \in Tasks PROVE task'[u] = task[u] \/ task'[u].pc \in {"waiting", "gather"}
  <2>1. CASE u = Ingestor
    BY <1>2, <2>1, StartReindexGoes
  <2>2. CASE u \in Helpers("reindex")
    BY <1>3, <2>2, StartReindexGoes
  <2>3. CASE u = Selector \/ u \in Helpers("enforce")
    BY <2>3, StartReindexGoes
  <2> QED BY <2>1, <2>2, <2>3, Kinds
<1> QED BY <1>1, <1>4, MirrorIdle DEF Lagging

(* After a restart memory is what Redis holds. *)
LEMMA CrashMirror == ASSUME IInv, Inverse, Crash PROVE Mirror'
<1>1. ASSUME NEW i \in Islands PROVE Mirrored(i)'
  <2>1. ASSUME NEW p \in Programs PROVE where'[i][p] = rev[i][p]
    <3>1. rev[i][p] \in Cells \cup {None} /\ \A c \in Cells : hash[i][c] = p <=> rev[i][p] = c
      BY DEF IInv, TypeOK, Inverse
    <3>2. where'[i][p] \in (IF {c \in Cells : hash[i][c] = p} = {} THEN {None}
                            ELSE {c \in Cells : hash[i][c] = p})
      BY CrashGoes
    <3> QED BY <3>1, <3>2
  <2> QED BY <2>1, CrashGoes DEF Mirrored
<1>2. \A t \in Tasks : task'[t].pc = "idle"
  BY CrashGoes DEF Idle
<1> QED BY <1>1, <1>2 DEF Mirror, Lag


-----------------------------------------------------------------------------
(* What a task has read is still so.                                       *)
Reading == {"watch", "seen"}

LEMMA CurrentStep ==
  ASSUME IInv, Turns, Current, NEW t \in Tasks, Others(t),
         task[t].pc \in Working, NEW i \in Islands, i = Target(task[t]),
         \A j \in Islands : j # i => /\ \A c \in Cells : cache'[j][c] = cache[j][c]
                                     /\ watching'[j] = watching[j],
         task'[t].pc \notin Reading
  PROVE  Current'
<1> SUFFICES ASSUME NEW u \in Tasks, task'[u].pc \in Reading
             PROVE  /\ task'[u].cur = cache'[task'[u].on][task'[u].cell]
                    /\ task'[u].pc = "seen" =>
                         task'[u].seen = task'[u].cur /\ u \in watching'[task'[u].on]
  BY DEF Current, Reading
<1>1. u # t /\ task'[u] = task[u]
  BY DEF Others
<1>2. task[u].pc \in Working /\ task[u].pc \notin Removing /\ task[u].pc \in Adding
  BY <1>1 DEF Reading, Working, Adding, Removing
<1>3. /\ task[u].on \in Islands /\ task[u].on # i /\ task[u].cell \in Cells
  BY <1>1, <1>2, Alone, Targets
<1> QED BY <1>1, <1>3 DEF Current, Reading

LEMMA CurrentIdle ==
  ASSUME Current, UNCHANGED <<cache, watching>>,
         \A u \in Tasks : task'[u] = task[u] \/ task'[u].pc \notin Reading
  PROVE  Current'
  BY DEF Current, Reading

LEMMA ClearCurrent == ASSUME IInv, Turns, Current, NEW t \in Tasks, Clear(t) PROVE Current'
<1>1. task[t].pc = "clear" /\ Others(t) /\ UNCHANGED cache /\ task'[t].pc \in {"next", "cleared"}
  BY ClearGoes DEF memory, Freed
<1>2. PICK i \in Islands : i = task[t].on /\ Target(task[t]) = i
  BY <1>1, Targets DEF Working, Removing
<1>3. \A j \in Islands : j # i => watching'[j] = watching[j]
  BY <1>2, ClearGoes DEF IInv, TypeOK, redis
<1> QED BY <1>1, <1>2, <1>3, CurrentStep DEF Working, Reading

LEMMA ClearedCurrent == ASSUME IInv, Turns, Current, NEW t \in Tasks, Cleared(t) PROVE Current'
<1>1. task[t].pc = "cleared" /\ Others(t) /\ UNCHANGED watching /\ task'[t].pc = "next"
  BY ClearedGoes DEF redis, Freed
<1>2. PICK i \in Islands : i = task[t].on /\ Target(task[t]) = i
  BY <1>1, Targets DEF Working, Removing
<1>3. \A j \in Islands : j # i => cache'[j] = cache[j]
  BY <1>2, ClearedGoes DEF IInv, TypeOK
<1> QED BY <1>1, <1>2, <1>3, CurrentStep DEF Working, Reading

LEMMA AddCurrent == ASSUME IInv, Turns, Current, NEW t \in Tasks, Add(t) PROVE Current'
<1>1. Others(t) /\ UNCHANGED <<cache, watching>>
  BY AddGoes DEF redis, memory
<1>2. \/ task'[t].pc = "next"
      \/ task'[t].pc = "watch" /\ task'[t].cur = cache[task'[t].on][task'[t].cell]
  BY AddGoes DEF Freed
<1> QED BY <1>1, <1>2 DEF Current, Others

LEMMA WatchCurrent == ASSUME IInv, Turns, Mirror, Current, NEW t \in Tasks, Watch(t) PROVE Current'
<1> DEFINE r == task[t]
<1>1. /\ r.pc = "watch" /\ Others(t) /\ UNCHANGED cache
      /\ watching' = [watching EXCEPT ![r.on] = @ \cup {t}]
      /\ task'[t].pc = "seen" /\ SameJob(task'[t], r) /\ task'[t].cur = r.cur
      /\ task'[t].seen = hash[r.on][r.cell]
  BY WatchGoes DEF memory
<1>2. PICK i \in Islands : i = task[t].on /\ Target(task[t]) = i
  BY <1>1, Targets DEF Working, Removing, Adding
<1>3. Mirrored(i)
  BY <1>1, <1>2, NotLagging DEF Working, Adding, Lagging
<1>4. r.cell \in Cells
  BY <1>1, Targets DEF Working, Adding
<1>5. r.cur = cache[i][r.cell] /\ task'[t].seen = r.cur
  BY <1>1, <1>2, <1>3, <1>4 DEF Current, Mirrored
<1>6. \A j \in Islands : watching[j] \subseteq watching'[j]
  BY <1>1, <1>2 DEF IInv, TypeOK
<1>7. t \in watching'[i]
  BY <1>1, <1>2 DEF IInv, TypeOK
<1> SUFFICES ASSUME NEW u \in Tasks, task'[u].pc \in Reading
             PROVE  /\ task'[u].cur = cache'[task'[u].on][task'[u].cell]
                    /\ task'[u].pc = "seen" =>
                         task'[u].seen = task'[u].cur /\ u \in watching'[task'[u].on]
  BY DEF Current, Reading
<1>8. CASE u = t
  BY <1>1, <1>2, <1>5, <1>7, <1>8 DEF SameJob
<1>9. CASE u # t
  <2>1. task'[u] = task[u] /\ task[u].on \in Islands
    BY <1>1, <1>9, Targets DEF Others, Reading, Working, Adding
  <2> QED BY <1>1, <1>6, <2>1 DEF Current, Reading
<1> QED BY <1>8, <1>9

LEMMA ExecCurrent == ASSUME IInv, Turns, Current, NEW t \in Tasks, Exec(t) PROVE Current'
<1>1. task[t].pc = "seen" /\ Others(t) /\ UNCHANGED cache /\ task'[t].pc = "stored"
  BY ExecGoes DEF memory
<1>2. PICK i \in Islands : i = task[t].on /\ Target(task[t]) = i
  BY <1>1, Targets DEF Working, Adding, Removing
<1>3. \A j \in Islands : j # i => watching'[j] = watching[j]
  BY <1>2, ExecGoes DEF IInv, TypeOK
<1> QED BY <1>1, <1>2, <1>3, CurrentStep DEF Working, Adding, Reading

LEMMA StoredCurrent == ASSUME IInv, Turns, Current, NEW t \in Tasks, Stored(t) PROVE Current'
<1>1. /\ task[t].pc = "stored" /\ Others(t) /\ UNCHANGED watching
      /\ task'[t].pc \in {"next", "limit"} /\ CacheSet(task[t].on, task[t].cell, task[t].prog)
  BY StoredGoes DEF redis, Freed
<1>2. PICK i \in Islands : i = task[t].on /\ Target(task[t]) = i
  BY <1>1, Targets DEF Working, Adding, Removing
<1>3. \A j \in Islands : j # i => cache'[j] = cache[j]
  BY <1>1, <1>2 DEF IInv, TypeOK, CacheSet
<1> QED BY <1>1, <1>2, <1>3, CurrentStep DEF Working, Adding, Reading

LEMMA WipeCurrent == ASSUME IInv, Turns, Current, NEW t \in Tasks, Wipe(t) PROVE Current'
<1>1. task[t].pc = "wipe" /\ Others(t) /\ UNCHANGED cache /\ task'[t].pc = "wiped"
  BY WipeGoes DEF memory
<1>2. PICK i \in Islands : Target(task[t]) = i
  BY <1>1, Targets DEF Working, Adding, Removing
<1>3. \A j \in Islands : j # i => watching'[j] = watching[j]
  BY <1>2, WipeGoes DEF IInv, TypeOK
<1> QED BY <1>1, <1>2, <1>3, CurrentStep DEF Working, Removing, Reading

LEMMA ForgetCurrent ==
  ASSUME IInv, Turns, Mirror, Current, NEW t \in Tasks, Evicted(t) \/ Moved(t) \/ RolledBack(t)
  PROVE  Current'
<1>1. /\ task[t].pc = "wiped" /\ Forget(task[t]) /\ Others(t) /\ UNCHANGED <<hash, rev, watching>>
      /\ task'[t].pc \in {"idle", "next", "look"}
  BY EvictedGoes, MovedGoes, RolledBackGoes DEF redis, Limited, Idled, Onward, Freed
<1>2. PICK i \in Islands : Target(task[t]) = i
  BY <1>1, Targets DEF Working, Adding, Removing
<1>3. \A j \in Islands : j # i => \A c \in Cells : cache'[j][c] = cache[j][c]
  BY <1>1, <1>2, ForgetMirrored
<1> QED BY <1>1, <1>2, <1>3, CurrentStep DEF Working, Removing, Reading

LEMMA TasksCurrent ==
  ASSUME IInv, Current, NEW t \in Tasks, Gather(t) \/ Limit(t) \/ Look(t)
  PROVE  Current'
<1>1. Others(t) /\ UNCHANGED <<cache, watching>>
  BY GatherGoes, LimitGoes, LookGoes DEF redis, memory
<1>2. task'[t].pc \notin Reading
  <2>1. CASE Gather(t)
    BY <2>1, GatherGoes DEF Idled, Reading
  <2>2. CASE Limit(t)
    BY <2>2, LimitGoes DEF Limited, Onward, Freed, Idled, Reading
  <2>3. CASE Look(t)
    BY <2>3, LookGoes DEF Reading
  <2> QED BY <2>1, <2>2, <2>3
<1> QED BY <1>1, <1>2, CurrentIdle DEF Others

LEMMA FinishCurrent == ASSUME IInv, Current, NEW t \in Tasks, Finish(t) PROVE Current'
<1>1. UNCHANGED <<cache, watching>>
  BY FinishGoes DEF redis, memory
<1>2. ASSUME NEW u \in Tasks PROVE task'[u] = task[u] \/ task'[u].pc \notin Reading
  <2>1. CASE t = Ingestor
    BY <2>1, FinishGoes, Kinds DEF Others, Reading
  <2>2. CASE t = Selector
    <3>1. /\ task'[t] = [Idle EXCEPT !.pc = "waiting"]
          /\ \A v \in Tasks \ {t} :
                    task'[v] = IF v \in Helpers("enforce")
                               THEN [Idle EXCEPT !.pc = "limit", !.on = v[2]] ELSE task[v]
      BY <2>2, FinishGoes, Kinds
    <3> QED BY ZenonT(60), <3>1 DEF Idle, Reading
  <2>3. CASE t \notin {Ingestor, Selector}
    BY <2>3, FinishGoes DEF Others, Reading, Idled
  <2> QED BY <2>1, <2>2, <2>3
<1> QED BY <1>1, <1>2, CurrentIdle

LEMMA IngestCurrent ==
  ASSUME IInv, Current, NEW B \in SUBSET Programs, Ingest(B)
  PROVE  Current'
  BY IngestGoes, CurrentIdle DEF Others, Reading, redis, memory

LEMMA CallersCurrent ==
  ASSUME IInv, Current, Verdict \/ StartMigration \/ MigrationEnds \/ ReindexEnds
  PROVE  Current'
<1>1. CASE Verdict
  BY <1>1, VerdictGoes, CurrentIdle DEF Others, Reading, Idled, redis, memory
<1>2. CASE StartMigration
  BY <1>2, StartMigrationGoes, CurrentIdle DEF Others, Reading, redis, memory
<1>3. CASE MigrationEnds
  BY <1>3, MigrationEndsGoes, CurrentIdle DEF Others, Reading, Idled, redis, memory
<1>4. CASE ReindexEnds
  BY <1>4, ReindexEndsGoes, CurrentIdle DEF Others, Reading, Idled, redis, memory
<1> QED BY <1>1, <1>2, <1>3, <1>4

(* What a re-indexing makes of the tasks. *)
LEMMA ReindexTasks ==
  ASSUME IInv, StartReindex
  PROVE  \A u \in Tasks :
           \/ u = Ingestor /\ task'[u] = [Idle EXCEPT !.pc = "waiting"]
                           /\ task'[u].pc = "waiting" /\ task'[u].todo = {}
           \/ u \in Helpers("reindex") /\ task'[u].pc = "gather" /\ task'[u].todo = {}
           \/ u \notin Helpers("reindex") /\ u # Ingestor /\ task'[u] = task[u]
<1>1. [Idle EXCEPT !.pc = "waiting"].pc = "waiting" /\ [Idle EXCEPT !.pc = "waiting"].todo = {}
  BY DEF Idle
<1>2. ASSUME NEW u \in Helpers("reindex")
      PROVE  LET g == [Idle EXCEPT !.pc = "gather", !.on = u[2]] IN g.pc = "gather" /\ g.todo = {}
  BY DEF Idle
<1>3. \A u \in Helpers("reindex") : task'[u].pc = "gather" /\ task'[u].todo = {}
  BY <1>2, StartReindexGoes
<1> QED BY <1>1, <1>3, StartReindexGoes, Kinds

LEMMA StartReindexCurrent == ASSUME IInv, Current, StartReindex PROVE Current'
<1>1. UNCHANGED <<cache, watching>>
  BY StartReindexGoes DEF redis, memory
<1> QED BY <1>1, ReindexTasks, CurrentIdle DEF Reading

LEMMA CrashCurrent == ASSUME IInv, Crash PROVE Current'
<1>1. \A t \in Tasks : task'[t].pc = "idle"
  BY CrashGoes DEF Idle
<1> QED BY <1>1 DEF Current

(* So nothing is refused by Redis, and nothing is tried again.             *)
LEMMA NeverRefused ==
  ASSUME Current, NEW t \in Tasks
  PROVE  ~Refuse(t) /\ ~Retry(t)
  BY DEF Current, Refuse, Retry, Stale


-----------------------------------------------------------------------------
(* The steps that give no task anything to add, and no island a program.   *)
Tame(t) ==
  \/ Clear(t) \/ Cleared(t) \/ Watch(t) \/ Stored(t) \/ Finish(t) \/ Limit(t)
  \/ Look(t) \/ Wipe(t) \/ Evicted(t) \/ Moved(t) \/ RolledBack(t)
Calling == Verdict \/ MigrationEnds \/ ReindexEnds

Narrowed(s, r) ==
  /\ s.todo \subseteq r.todo
  /\ s.pc \in Adding => /\ r.pc \in Adding /\ s.cell = r.cell /\ s.prog = r.prog /\ s.on = r.on
                        /\ s.pc = "stored" <=> r.pc = "stored"

LEMMA NarrowIdled == ASSUME NEW r, NEW s, Idled(s) PROVE Narrowed(s, r)
  BY DEF Idled, Narrowed, Adding

LEMMA NarrowFreed == ASSUME NEW r, NEW s, Freed(s, r, r.todo) PROVE Narrowed(s, r)
  BY DEF Freed, Narrowed, Adding

LEMMA NarrowJob ==
  ASSUME NEW r, NEW s, SameJob(s, r),
         s.pc \notin Adding \/ (r.pc \in Adding /\ (s.pc = "stored" <=> r.pc = "stored"))
  PROVE  Narrowed(s, r)
  BY DEF SameJob, Narrowed

LEMMA NarrowLimited == ASSUME NEW t, NEW r, NEW s, Limited(t, s, r) PROVE Narrowed(s, r)
  BY NarrowIdled, NarrowFreed, NarrowJob DEF Limited, Onward, Adding

LEMMA NarrowSame == \A r : Narrowed(r, r)
  BY DEF Narrowed

LEMMA TameNarrow ==
  ASSUME IInv, NEW t \in Tasks, Tame(t), NEW u \in Tasks
  PROVE  Narrowed(task'[u], task[u])
<1>1. CASE Others(t) /\ u # t
  BY <1>1, NarrowSame DEF Others
<1>2. CASE Clear(t)
  <2>1. Narrowed(task'[t], task[t])
    BY <1>2, ClearGoes, NarrowFreed, NarrowJob DEF Adding
  <2> QED BY <1>1, <1>2, <2>1, ClearGoes
<1>3. CASE Cleared(t)
  <2>1. Narrowed(task'[t], task[t])
    BY <1>3, ClearedGoes, NarrowFreed
  <2> QED BY <1>1, <1>3, <2>1, ClearedGoes
<1>4. CASE Watch(t)
  <2>1. Narrowed(task'[t], task[t])
    BY <1>4, WatchGoes, NarrowJob DEF Adding
  <2> QED BY <1>1, <1>4, <2>1, WatchGoes
<1>5. CASE Stored(t)
  <2>1. Narrowed(task'[t], task[t])
    BY <1>5, StoredGoes, NarrowFreed, NarrowJob DEF Adding
  <2> QED BY <1>1, <1>5, <2>1, StoredGoes
<1>6. CASE Finish(t)
  <2>1. CASE t = Ingestor
    <3>1. Narrowed(task'[t], task[t]) /\ Others(t)
      BY <1>6, <2>1, FinishGoes, NarrowJob, Kinds DEF Adding
    <3> QED BY <1>1, <3>1
  <2>2. CASE t = Selector
    <3>1. /\ task'[t] = [Idle EXCEPT !.pc = "waiting"]
          /\ \A v \in Tasks \ {t} :
                    task'[v] = IF v \in Helpers("enforce")
                               THEN [Idle EXCEPT !.pc = "limit", !.on = v[2]] ELSE task[v]
      BY <1>6, <2>2, FinishGoes, Kinds
    <3>2. Narrowed([Idle EXCEPT !.pc = "waiting"], task[u])
      BY DEF Idle, Narrowed, Adding
    <3>3. Narrowed([Idle EXCEPT !.pc = "limit", !.on = u[2]], task[u])
      BY DEF Idle, Narrowed, Adding
    <3> QED BY <3>1, <3>2, <3>3, NarrowSame
  <2>3. CASE t \notin {Ingestor, Selector}
    <3>1. Narrowed(task'[t], task[t]) /\ Others(t)
      BY <1>6, <2>3, FinishGoes, NarrowIdled
    <3> QED BY <1>1, <3>1
  <2> QED BY <2>1, <2>2, <2>3
<1>7. CASE Limit(t)
  <2>1. Narrowed(task'[t], task[t])
    BY <1>7, LimitGoes, NarrowLimited, NarrowJob DEF Adding
  <2> QED BY <1>1, <1>7, <2>1, LimitGoes
<1>8. CASE Look(t)
  <2>1. Narrowed(task'[t], task[t])
    BY <1>8, LookGoes, NarrowJob DEF Adding
  <2> QED BY <1>1, <1>8, <2>1, LookGoes
<1>9. CASE Wipe(t)
  <2>1. Narrowed(task'[t], task[t])
    BY <1>9, WipeGoes, NarrowJob DEF Adding
  <2> QED BY <1>1, <1>9, <2>1, WipeGoes
<1>10. CASE Evicted(t)
  <2>1. Narrowed(task'[t], task[t])
    BY <1>10, EvictedGoes, NarrowLimited
  <2> QED BY <1>1, <1>10, <2>1, EvictedGoes
<1>11. CASE Moved(t)
  <2>1. Narrowed(task'[t], task[t])
    BY <1>11, MovedGoes, NarrowFreed, NarrowJob DEF Adding
  <2> QED BY <1>1, <1>11, <2>1, MovedGoes
<1>12. CASE RolledBack(t)
  <2>1. Narrowed(task'[t], task[t])
    BY <1>12, RolledBackGoes, NarrowFreed
  <2> QED BY <1>1, <1>12, <2>1, RolledBackGoes
<1> QED BY <1>2, <1>3, <1>4, <1>5, <1>6, <1>7, <1>8, <1>9, <1>10, <1>11, <1>12 DEF Tame

LEMMA CallingNarrow ==
  ASSUME IInv, Calling, NEW u \in Tasks
  PROVE  Narrowed(task'[u], task[u])
  BY VerdictGoes, MigrationEndsGoes, ReindexEndsGoes, NarrowIdled, NarrowSame, Kinds
     DEF Calling, Others

(* Such steps change no program's cell, make none new, and archive none.   *)
Calmer ==
  /\ UNCHANGED cell
  /\ \A p \in Programs : state'[p] = "NEW" => state[p] = "NEW"
  /\ \A p \in Programs, i \in Islands : rev'[i][p] \in {None, rev[i][p]}

LEMMA TameCalmer ==
  ASSUME IInv, Turns, Mirror, NEW t \in Tasks, Tame(t)
  PROVE  Calmer
<1>1. CASE Clear(t)
  <2>1. task'[t].pc \in {"cleared", "next"} /\ UNCHANGED <<cell, state>>
    BY <1>1, ClearGoes DEF Freed, blobs
  <2>2. task'[t].pc = "next" => UNCHANGED rev
    BY <1>1, ClearGoes DEF redis
  <2> QED BY <1>1, <2>1, <2>2, ClearEffect DEF Calmer
<1>2. CASE Wipe(t)
  <2>1. UNCHANGED <<cell, state>>
    BY <1>2, WipeGoes DEF blobs
  <2>2. \A i \in Islands, p \in Programs :
          rev'[i][p] = IF i = Target(task[t]) /\ p \in task[t].out THEN None ELSE rev[i][p]
    BY <1>2, WipeEffect
  <2> QED BY <2>1, <2>2 DEF Calmer
<1>3. CASE Evicted(t)
  <2>1. /\ UNCHANGED <<cell, rev>>
        /\ \A p \in Programs : state'[p] \in {"DISCARDED", state[p]}
    BY <1>3, EvictedGoes DEF redis
  <2> QED BY <2>1 DEF Calmer
<1>4. CASE Cleared(t)
  BY <1>4, ClearedGoes DEF Calmer, redis, blobs
<1>5. CASE Watch(t)
  BY <1>5, WatchGoes DEF Calmer, redis, blobs
<1>6. CASE Stored(t)
  BY <1>6, StoredGoes DEF Calmer, redis, blobs
<1>7. CASE Finish(t)
  BY <1>7, FinishGoes DEF Calmer, redis, blobs
<1>8. CASE Limit(t)
  BY <1>8, LimitGoes DEF Calmer, redis, blobs
<1>9. CASE Look(t)
  BY <1>9, LookGoes DEF Calmer, redis, blobs
<1>10. CASE Moved(t)
  BY <1>10, MovedGoes DEF Calmer, redis, blobs
<1>11. CASE RolledBack(t)
  BY <1>11, RolledBackGoes DEF Calmer, redis, blobs
<1> QED BY <1>1, <1>2, <1>3, <1>4, <1>5, <1>6, <1>7, <1>8, <1>9, <1>10, <1>11 DEF Tame

LEMMA CallingCalmer == ASSUME IInv, Calling PROVE Calmer
<1>1. CASE Verdict
  <2>1. /\ UNCHANGED <<cell, rev>>
        /\ \A p \in Programs : state'[p] \in {"DISCARDED", state[p]}
    BY <1>1, VerdictGoes DEF redis
  <2> QED BY <2>1 DEF Calmer
<1>2. CASE MigrationEnds
  BY <1>2, MigrationEndsGoes DEF Calmer, redis, blobs
<1>3. CASE ReindexEnds
  BY <1>3, ReindexEndsGoes DEF Calmer, redis, blobs
<1> QED BY <1>1, <1>2, <1>3 DEF Calling

-----------------------------------------------------------------------------
(* What is to be added.                                                    *)
LEMMA Job ==
  ASSUME IInv, NEW t \in Tasks, NEW job \in task[t].todo
  PROVE  job \in Jobs /\ job.prog \in Programs /\ job.cell \in Cells
         /\ job.src \in Islands \cup {None}
<1>1. job \in Jobs
  BY At DEF Task
<1> QED BY <1>1 DEF Jobs

LEMMA NarrowJobbed ==
  ASSUME IInv, Jobbed, Calmer, \A u \in Tasks : Narrowed(task'[u], task[u])
  PROVE  Jobbed'
<1> SUFFICES ASSUME NEW u \in Tasks PROVE Fed(task[u])'
  BY DEF Jobbed
<1>1. task[u].pc \in Adding => task[u].prog \in Programs
  BY At DEF Knows, Adding, Task
<1>2. \A job \in task[u].todo : job.prog \in Programs
  BY Job
<1> QED BY <1>1, <1>2 DEF Jobbed, Fed, Narrowed, Calmer

LEMMA JobbedStep ==
  ASSUME Jobbed, NEW t \in Tasks, Others(t), UNCHANGED <<cell, state>>, Fed(task[t])'
  PROVE  Jobbed'
  BY DEF Jobbed, Fed, Others

LEMMA GatherJobbed ==
  ASSUME IInv, Turns, Inverse, Mirror, Jobbed, New, NEW t \in Tasks, Gather(t)
  PROVE  Jobbed'
<1>1. task[t].pc = "gather" /\ Others(t) /\ UNCHANGED <<cell, state>>
  BY GatherGoes DEF blobs
<1>2. CASE Idled(task'[t])
  BY <1>1, <1>2, JobbedStep DEF Idled, Fed, Adding
<1>3. CASE ~Idled(task'[t])
  <2>1. PICK i \in Islands : i = task[t].on /\ Mirrored(i)
    BY <1>1, Targets, NotLagging DEF Working, Removing, Lagging
  <2>2. /\ task'[t].pc = "clear"
        /\ task'[t].todo = {[prog |-> p, src |-> None, cell |-> cell[p]] : p \in Cached(i)}
    BY <1>3, <2>1, GatherGoes
  <2>3. \A p \in Cached(i) : state[p] # "NEW"
    BY <2>1, CachedIn, CachedPrograms DEF New, IInv
  <2>4. \A job \in task'[t].todo : job.cell = cell[job.prog] /\ state[job.prog] # "NEW"
    BY <2>2, <2>3
  <2> QED BY <1>1, <2>2, <2>4, JobbedStep DEF Fed, Adding
<1> QED BY <1>2, <1>3

LEMMA AddJobbed == ASSUME IInv, Jobbed, NEW t \in Tasks, Add(t) PROVE Jobbed'
<1>1. task[t].pc = "next" /\ Others(t) /\ UNCHANGED <<cell, state>>
  BY AddGoes DEF blobs
<1>2. PICK job \in task[t].todo :
        /\ task'[t].todo = task[t].todo \ {job}
        /\ \/ task'[t].pc = "next"
           \/ task'[t].pc = "watch" /\ task'[t].prog = job.prog /\ task'[t].cell = job.cell
  BY AddGoes DEF Freed
<1>3. Fed(task[t])'
  BY <1>1, <1>2 DEF Jobbed, Fed, Adding
<1> QED BY <1>1, <1>3, JobbedStep

LEMMA ExecJobbed == ASSUME IInv, Jobbed, NEW t \in Tasks, Exec(t) PROVE Jobbed'
<1>1. /\ task[t].pc = "seen" /\ Others(t) /\ UNCHANGED <<cell, state>>
      /\ task'[t].pc = "stored" /\ SameJob(task'[t], task[t])
  BY ExecGoes DEF blobs
<1>2. Fed(task[t])'
  BY <1>1 DEF Jobbed, Fed, Adding, SameJob
<1> QED BY <1>1, <1>2, JobbedStep

LEMMA IngestJobbed ==
  ASSUME IInv, Jobbed, NEW B \in SUBSET Programs, Ingest(B)
  PROVE  Jobbed'
<1>1. /\ Others(Ingestor) /\ UNCHANGED cell
      /\ \A p \in Programs : state'[p] = IF p \in B THEN "DONE" ELSE state[p]
      /\ task'[Ingestor].pc = "next"
      /\ task'[Ingestor].todo = {[prog |-> p, src |-> None, cell |-> cell[p]] : p \in B}
  BY IngestGoes
<1>2. Fed(task[Ingestor])'
  <2>1. \A job \in task'[Ingestor].todo : job.cell = cell'[job.prog] /\ state'[job.prog] # "NEW"
    BY <1>1
  <2> QED BY <1>1, <2>1 DEF Fed, Adding
<1>3. ASSUME NEW u \in Tasks, u # Ingestor PROVE Fed(task[u])'
  <2>1. task'[u] = task[u]
    BY <1>1, <1>3 DEF Others
  <2>2. task[u].pc \in Adding => task[u].prog \in Programs
    BY At DEF Knows, Adding, Task
  <2>3. \A job \in task[u].todo : job.prog \in Programs
    BY Job
  <2> QED BY <1>1, <2>1, <2>2, <2>3 DEF Jobbed, Fed
<1> QED BY <1>2, <1>3 DEF Jobbed

(* When nothing is under way memory is what Redis holds.                   *)
LEMMA AtRest ==
  ASSUME Mirror, \A u \in Tasks : task[u].pc \notin Lagging, NEW i \in Islands
  PROVE  Mirrored(i)
  BY DEF Mirror

LEMMA Elites ==
  ASSUME IInv, Inverse, Mirror, \A u \in Tasks : task[u].pc \notin Lagging, NEW p \in Active
  PROVE  p \in Programs /\ \E i \in Islands : In(p, i)
<1>1. PICK i \in Islands : p \in Cached(i)
  BY DEF Active
<1>2. p \in Programs
  BY <1>1, CachedPrograms DEF IInv
<1> QED BY <1>1, <1>2, AtRest, CachedIn

LEMMA MigrationRests ==
  ASSUME IInv, Turns, StartMigration, ~overlap', NEW u \in Tasks
  PROVE  task[u].pc = "idle"
<1>1. /\ task[Selector].pc = "idle" /\ task[Ingestor].pc = "idle"
      /\ \A v \in Helpers("reindex") : task[v].pc = "idle"
  BY StartMigrationGoes DEF Resting
<1> QED BY <1>1, Kinds DEF Turns

LEMMA StartMigrationJobbed ==
  ASSUME IInv, Turns, Inverse, Mirror, Jobbed, New, StartMigration, ~overlap'
  PROVE  Jobbed'
<1>1. Others(Selector) /\ UNCHANGED <<cell, state>> /\ task'[Selector].pc = "next"
  BY StartMigrationGoes DEF blobs
<1>2. PICK C \in SUBSET Active :
        task'[Selector].todo = {[prog |-> p, src |-> home[p], cell |-> cell[p]] : p \in C}
  BY StartMigrationGoes
<1>3. \A u \in Tasks : task[u].pc \notin Lagging
  BY MigrationRests DEF Lagging
<1>4. \A p \in C : state[p] # "NEW"
  BY <1>3, Elites DEF New
<1>5. \A job \in task'[Selector].todo : job.cell = cell[job.prog] /\ state[job.prog] # "NEW"
  BY <1>2, <1>4
<1>6. Fed(task[Selector])'
  BY <1>1, <1>5 DEF Fed, Adding
<1> QED BY <1>1, <1>6, JobbedStep, Kinds

LEMMA StartReindexJobbed == ASSUME IInv, Turns, StartReindex PROVE Jobbed'
<1>1. \A u \in Tasks : task'[u].todo = {} /\ task'[u].pc \notin Adding
  BY ReindexTasks, StartReindexGoes DEF Turns, Own, Adding
<1> QED BY <1>1 DEF Jobbed, Fed

LEMMA CrashJobbed == ASSUME IInv, Crash PROVE Jobbed'
  BY CrashGoes DEF Jobbed, Fed, Idle, Adding


-----------------------------------------------------------------------------
(* What is not yet added is nowhere.                                       *)
LEMMA InTypes ==
  ASSUME IInv, NEW i \in Islands, NEW p \in Programs
  PROVE  rev[i][p] \in Cells \cup {None}
  BY DEF IInv, TypeOK

LEMMA NarrowNew ==
  ASSUME IInv, New, Calmer, Narrowed(task'[Ingestor], task[Ingestor]),
         task'[Ingestor].pc \in {"watch", "seen"} => task[Ingestor].pc \in {"watch", "seen"}
  PROVE  New'
<1>1. task[Ingestor].pc \in Adding => task[Ingestor].prog \in Programs
  BY At, Kinds DEF Knows, Adding, Task
<1>2. \A job \in task[Ingestor].todo : job.prog \in Programs
  BY Job, Kinds
<1>3. \A p \in Programs, i \in Islands : In(p, i)' => In(p, i)
  BY DEF Calmer, In
<1>4. \A p \in Programs, i \in Islands : state'[p] = "NEW" => ~In(p, i)'
  BY <1>3 DEF New, Calmer
<1>5. \A job \in task'[Ingestor].todo : \A i \in Islands : ~In(job.prog, i)'
  BY <1>2, <1>3 DEF New, Narrowed
<1>6. task'[Ingestor].pc \in {"watch", "seen"} => \A i \in Islands : rev'[i][task'[Ingestor].prog] = None
  BY <1>1, <1>3 DEF New, Narrowed, Adding, In
<1>7. task'[Ingestor].pc = "stored" =>
        \A i \in Islands : rev'[i][task'[Ingestor].prog] # None => i = task'[Ingestor].on
  BY <1>1, <1>3 DEF New, Narrowed, Adding, In
<1> QED BY <1>4, <1>5, <1>6, <1>7 DEF New, In

LEMMA TameNew ==
  ASSUME IInv, Turns, Mirror, New, NEW t \in Tasks, Tame(t)
  PROVE  New'
<1>1. Calmer
  BY TameCalmer
<1>2. Narrowed(task'[Ingestor], task[Ingestor])
  BY TameNarrow, Kinds
<1> QED BY <1>1, <1>2, NarrowNew DEF Narrowed, Adding

LEMMA CallingNew == ASSUME IInv, New, Calling PROVE New'
<1>1. Calmer
  BY CallingCalmer
<1>2. Narrowed(task'[Ingestor], task[Ingestor])
  BY CallingNarrow, Kinds
<1> QED BY <1>1, <1>2, NarrowNew DEF Narrowed, Adding

(* Steps that change neither an archive nor the states.                    *)
LEMMA NewStep ==
  ASSUME New, UNCHANGED <<rev, state>>, task'[Ingestor] = task[Ingestor]
  PROVE  New'
  BY DEF New, In

LEMMA GatherNew == ASSUME IInv, Turns, New, NEW t \in Tasks, Gather(t) PROVE New'
<1>1. t # Ingestor
  BY GatherGoes DEF Turns, Own
<1> QED BY <1>1, GatherGoes, NewStep, Kinds DEF redis, blobs, Others

LEMMA AddNew == ASSUME IInv, New, NEW t \in Tasks, Add(t) PROVE New'
<1>1. UNCHANGED <<rev, state>> /\ Others(t)
  BY AddGoes DEF redis, blobs
<1>2. CASE t # Ingestor
  BY <1>1, <1>2, NewStep, Kinds DEF Others
<1>3. CASE t = Ingestor
  <2>1. PICK job \in task[t].todo :
          /\ task'[t].todo = task[t].todo \ {job}
          /\ \/ task'[t].pc = "next"
             \/ task'[t].pc = "watch" /\ task'[t].prog = job.prog
    BY AddGoes DEF Freed
  <2> QED BY <1>1, <1>3, <2>1 DEF New, In
<1> QED BY <1>2, <1>3

LEMMA ExecNew ==
  ASSUME IInv, Turns, Jobbed, New, NEW t \in Tasks, Exec(t)
  PROVE  New'
<1> DEFINE r == task[t]
<1>1. /\ r.pc = "seen" /\ Others(t) /\ UNCHANGED <<cell, state>>
      /\ task'[t].pc = "stored" /\ SameJob(task'[t], r)
  BY ExecGoes DEF blobs
<1>2. r.on \in Islands /\ r.prog \in Programs /\ r.cell \in Cells /\ Own(t, r)
  BY <1>1, Targets DEF Working, Adding, Turns
<1>3. \A p \in Programs, i \in Islands : In(p, i)' => In(p, i) \/ (p = r.prog /\ i = r.on)
  BY ExecEffect DEF In
<1>4. state[r.prog] # "NEW"
  BY <1>1 DEF Jobbed, Fed, Adding
<1>5. \A p \in Programs, i \in Islands : state'[p] = "NEW" => ~In(p, i)'
  BY <1>1, <1>3, <1>4 DEF New
<1>6. \A job \in task[Ingestor].todo : job.prog \in Programs
  BY Job, Kinds
<1>7. CASE t = Ingestor
  <2>1. \A job \in r.todo : job.prog # r.prog
    BY <1>1, <1>2 DEF Own, Adding
  <2>2. \A job \in task'[Ingestor].todo : \A i \in Islands : ~In(job.prog, i)'
    BY <1>1, <1>3, <1>6, <1>7, <2>1 DEF New, SameJob
  <2>3. \A i \in Islands : rev'[i][task'[Ingestor].prog] # None => i = task'[Ingestor].on
    BY <1>1, <1>2, <1>3, <1>7 DEF New, SameJob, In
  <2> QED BY <1>1, <1>5, <1>7, <2>2, <2>3 DEF New, In
<1>8. CASE t # Ingestor
  <2>1. task[Ingestor].pc \in {"idle", "waiting"}
    BY <1>1, <1>2, <1>8, Kinds DEF Turns, Own, Adding, Removing
  <2>2. task[Ingestor].todo = {} /\ task'[Ingestor] = task[Ingestor]
    BY <1>1, <1>8, <2>1, Kinds DEF Turns, Own, Others
  <2> QED BY <1>5, <2>1, <2>2 DEF New, In
<1> QED BY <1>7, <1>8

LEMMA IngestNew ==
  ASSUME IInv, New, NEW B \in SUBSET Programs, Ingest(B)
  PROVE  New'
<1>1. /\ UNCHANGED rev /\ task'[Ingestor].pc = "next" /\ \A p \in B : state[p] = "NEW"
      /\ \A p \in Programs : state'[p] = IF p \in B THEN "DONE" ELSE state[p]
      /\ task'[Ingestor].todo = {[prog |-> p, src |-> None, cell |-> cell[p]] : p \in B}
  BY IngestGoes DEF redis
<1>2. \A job \in task'[Ingestor].todo : \A i \in Islands : ~In(job.prog, i)
  BY <1>1 DEF New
<1>3. \A p \in Programs, i \in Islands : state'[p] = "NEW" => ~In(p, i)
  BY <1>1 DEF New
<1> QED BY <1>1, <1>2, <1>3 DEF New, In

LEMMA StartMigrationNew == ASSUME IInv, New, StartMigration PROVE New'
  BY StartMigrationGoes, NewStep, Kinds DEF Others, redis, blobs

LEMMA StartReindexNew == ASSUME IInv, New, StartReindex PROVE New'
<1>1. UNCHANGED <<rev, state>> /\ task'[Ingestor].todo = {} /\ task'[Ingestor].pc = "waiting"
  BY StartReindexGoes, ReindexTasks, Kinds DEF redis
<1> QED BY <1>1 DEF New, In

LEMMA CrashNew == ASSUME IInv, New, Crash PROVE New'
<1>1. UNCHANGED <<rev, state>> /\ task'[Ingestor].todo = {} /\ task'[Ingestor].pc = "idle"
  BY CrashGoes, Kinds DEF Idle, blobs
<1> QED BY <1>1 DEF New, In

-----------------------------------------------------------------------------
(* Elites are in their cells.                                              *)
LEMMA CalmerCells ==
  ASSUME IInv, Calmer, NEW i \in Islands, InCells(i)
  PROVE  InCells(i)'
  BY DEF Calmer, InCells, In

(* A program is added in the cell of its metrics.                          *)
LEMMA ExecCells ==
  ASSUME IInv, Turns, Jobbed, NEW t \in Tasks, Exec(t), NEW i \in Islands, InCells(i)
  PROVE  InCells(i)'
<1>1. /\ task[t].pc = "seen" /\ UNCHANGED cell
  BY ExecGoes DEF blobs
<1>2. task[t].cell = cell[task[t].prog]
  BY <1>1 DEF Jobbed, Fed, Adding
<1> QED BY <1>1, <1>2, ExecEffect DEF InCells, In

LEMMA TamePc ==
  ASSUME NEW t \in Tasks, Tame(t)
  PROVE  Clear(t) \/ task[t].pc \in {"cleared", "watch", "stored", "next", "limit"} \cup Removing
  BY ZenonT(30) DEF Tame, Cleared, Watch, Stored, Finish, Limit, Look, Wipe, Evicted, Moved, RolledBack, Removing

Recelling == {"cleared", "next"} \cup Adding
LEMMA TameRecelled ==
  ASSUME IInv, Turns, Inverse, Mirror, Jobbed, Recelled, NEW t \in Tasks, Tame(t)
  PROVE  Recelled'
<1> SUFFICES ASSUME NEW u \in Helpers("reindex"), task'[u].pc \in Recelling
             PROVE  InCells(u[2])'
  BY DEF Recelled, Recelling
<1>1. u[2] \in Islands /\ u \in Tasks /\ u \notin {Ingestor, Selector} /\ u \notin Helpers("enforce")
  BY Kinds
<1>2. CASE task[u].pc \in Recelling
  BY <1>1, <1>2, TameCalmer, CalmerCells DEF Recelled, Recelling
<1>3. CASE task[u].pc \notin Recelling
  <2>1. u = t
    <3>1. CASE Finish(t)
      <4> SUFFICES ASSUME u # t PROVE FALSE
        OBVIOUS
      <4>1. task'[u] = task[u]
        BY <1>1, <3>1, FinishGoes DEF Others
      <4> QED BY <1>3, <4>1
    <3>2. CASE ~Finish(t)
      <4>1. Others(t)
        BY <3>2, ClearGoes, ClearedGoes, WatchGoes, StoredGoes, LimitGoes, LookGoes, WipeGoes,
           EvictedGoes, MovedGoes, RolledBackGoes DEF Tame
      <4> QED BY <1>1, <1>3, <4>1 DEF Others
    <3> QED BY <3>1, <3>2
  <2>2. task[u].pc \in {"idle", "gather", "clear"}
    BY <1>1, <1>3 DEF Turns, Own, Recelling
  <2>3. Clear(t)
    BY <2>1, <2>2, TamePc DEF Removing
  <2>4. u[2] = task[u].on /\ task[u].pc = "clear"
    BY <1>1, <2>1, <2>3, ClearGoes DEF Turns, Own, Working
  <2>5. CASE task'[t].pc = "cleared"
    BY <1>1, <2>1, <2>3, <2>4, <2>5, ClearEffect DEF InCells, In
  <2>6. CASE task'[t].pc # "cleared"
    <3>1. Cached(u[2]) = {} /\ UNCHANGED <<rev, cell>>
      BY <2>1, <2>3, <2>4, <2>6, ClearGoes DEF redis, blobs
    <3>2. Mirrored(u[2])
      BY <1>1, <2>4, Targets, NotLagging DEF Working, Removing, Lagging
    <3>3. \A p \in Programs : ~In(p, u[2])
      BY <1>1, <3>1, <3>2, CachedIn
    <3> QED BY <3>1, <3>3 DEF InCells, In
  <2> QED BY <2>5, <2>6
<1> QED BY <1>2, <1>3

LEMMA ExecRecelled ==
  ASSUME IInv, Turns, Jobbed, Recelled, NEW t \in Tasks, Exec(t)
  PROVE  Recelled'
<1> SUFFICES ASSUME NEW u \in Helpers("reindex"), task'[u].pc \in Recelling
             PROVE  InCells(u[2])'
  BY DEF Recelled, Recelling
<1>1. task[u].pc \in Recelling
  BY ExecGoes, Kinds DEF Others, Recelling, Adding
<1> QED BY <1>1, ExecCells, Kinds DEF Recelled, Recelling

LEMMA OtherRecelled ==
  ASSUME IInv, Recelled, UNCHANGED <<rev, cell>>,
         \A u \in Helpers("reindex") : task'[u].pc \in Recelling => task[u].pc \in Recelling
  PROVE  Recelled'
  BY DEF Recelled, Recelling, InCells, In

LEMMA StepRecelled ==
  ASSUME IInv, Recelled, NEW t \in Tasks, Gather(t) \/ Add(t)
  PROVE  Recelled'
<1>1. UNCHANGED <<rev, cell>> /\ Others(t)
  BY GatherGoes, AddGoes DEF redis, blobs
<1>2. task'[t].pc \in Recelling => task[t].pc \in Recelling
  BY GatherGoes, AddGoes DEF Idled, Recelling, Adding
<1> QED BY <1>1, <1>2, OtherRecelled, Kinds DEF Others

LEMMA CallersRecelled ==
  ASSUME IInv, Recelled,
         Calling \/ StartMigration \/ \E B \in SUBSET Programs : Ingest(B)
  PROVE  Recelled'
<1>1. UNCHANGED <<rev, cell>>
  BY VerdictGoes, MigrationEndsGoes, ReindexEndsGoes, StartMigrationGoes, IngestGoes
     DEF redis, blobs, Calling
<1>2. \A u \in Helpers("reindex") : task'[u] = task[u]
  BY VerdictGoes, MigrationEndsGoes, ReindexEndsGoes, StartMigrationGoes, IngestGoes, Kinds
     DEF Calling, Others
<1> QED BY <1>1, <1>2, OtherRecelled

LEMMA StartReindexRecelled == ASSUME IInv, StartReindex PROVE Recelled'
<1>1. \A u \in Helpers("reindex") : task'[u].pc = "gather"
  BY ReindexTasks, Kinds
<1> QED BY <1>1 DEF Recelled, Adding

LEMMA CrashRecelled == ASSUME IInv, Crash PROVE Recelled'
<1>1. \A u \in Helpers("reindex") : task'[u].pc = "idle"
  BY CrashGoes, Kinds DEF Idle
<1> QED BY <1>1 DEF Recelled, Adding


LEMMA ClearCells ==
  ASSUME IInv, Turns, Inverse, Mirror, NEW t \in Tasks, Clear(t), NEW i \in Islands, i = task[t].on
  PROVE  InCells(i)'
<1>1. CASE task'[t].pc = "cleared"
  BY <1>1, ClearEffect DEF InCells, In
<1>2. CASE task'[t].pc # "cleared"
  <2>1. Cached(i) = {} /\ UNCHANGED <<rev, cell>> /\ task[t].pc = "clear"
    BY <1>2, ClearGoes DEF redis, blobs
  <2>2. Mirrored(i)
    BY <2>1, Targets, NotLagging DEF Working, Removing, Lagging
  <2>3. \A p \in Programs : ~In(p, i)
    BY <2>1, <2>2, CachedIn
  <2> QED BY <2>1, <2>3 DEF InCells, In
<1> QED BY <1>1, <1>2

(* A step that is not its own leaves a re-indexing where it is.            *)
LEMMA Elsewhere ==
  ASSUME IInv, NEW t \in Tasks, Step(t), ~Refuse(t), ~Retry(t),
         NEW u \in Helpers("reindex") \cup {Ingestor}, u # t
  PROVE  task'[u] = task[u]
<1>1. u \in Tasks /\ u # Selector /\ u \notin Helpers("enforce")
  BY Kinds
<1>2. CASE Finish(t)
  BY <1>1, <1>2, FinishGoes DEF Others
<1>3. CASE ~Finish(t)
  <2>1. Others(t)
    BY <1>3, OthersRest DEF Step
  <2> QED BY <1>1, <2>1 DEF Others
<1> QED BY <1>2, <1>3

LEMMA TameStep == ASSUME NEW t \in Tasks, Tame(t) PROVE Step(t) /\ ~Refuse(t) /\ ~Retry(t) /\ ~Exec(t)
<1>1. Step(t)
  BY DEF Tame, Step
<1>2. task[t].pc # "seen"
  BY TamePc DEF Clear, Removing
<1> QED BY <1>1, <1>2 DEF Refuse, Retry, Exec

LEMMA StepCelled ==
  ASSUME IInv, Turns, Inverse, Mirror, Jobbed, Celled, NEW t \in Tasks,
         Tame(t) \/ Exec(t) \/ Gather(t) \/ Add(t)
  PROVE  Celled'
<1> SUFFICES ASSUME NEW i \in Islands
             PROVE  InCells(i)' \/ task'[<<"reindex", i>>].pc \in {"gather", "clear"}
  BY DEF Celled
<1> DEFINE u == <<"reindex", i>>
<1>1. u \in Helpers("reindex") /\ u \in Tasks /\ u[2] = i
  BY Kinds
<1>2. InCells(i) => InCells(i)'
  <2>1. CASE Tame(t)
    BY <2>1, TameCalmer, CalmerCells
  <2>2. CASE Exec(t)
    BY <2>2, ExecCells
  <2>3. CASE Gather(t) \/ Add(t)
    <3>1. UNCHANGED <<rev, cell>>
      BY <2>3, GatherGoes, AddGoes DEF redis, blobs
    <3> QED BY <3>1 DEF InCells, In
  <2> QED BY <2>1, <2>2, <2>3
<1>3. CASE InCells(i)
  BY <1>2, <1>3
<1>4. CASE task[u].pc \in {"gather", "clear"} /\ u # t
  <2>1. Step(t) /\ ~Refuse(t) /\ ~Retry(t)
    <3>1. CASE Tame(t)
      BY <3>1, TameStep
    <3>2. CASE Exec(t)
      BY <3>2 DEF Step, Exec, Refuse, Retry
    <3>3. CASE Gather(t) \/ Add(t)
      BY ZenonT(30), <3>3 DEF Step, Gather, Add, Refuse, Retry
    <3> QED BY <3>1, <3>2, <3>3
  <2>2. task'[u] = task[u]
    BY <1>1, <1>4, <2>1, Elsewhere
  <2> QED BY <1>4, <2>2
<1>5. CASE task[u].pc \in {"gather", "clear"} /\ u = t
  <2>1. task[u].on = i
    BY <1>1, <1>5 DEF Turns, Own, Working
  <2>2. Clear(t) \/ Gather(t)
    <3>1. ~Exec(t) /\ ~Add(t)
      BY ZenonT(30), <1>5 DEF Exec, Add
    <3> QED BY <1>5, <3>1, TamePc DEF Removing
  <2>3. CASE Clear(t)
    BY <1>5, <2>1, <2>3, ClearCells
  <2>4. CASE Gather(t)
    <3>1. task[t].pc = "gather" /\ UNCHANGED <<rev, cell>>
      BY <2>4, GatherGoes DEF redis, blobs
    <3>2. Mirrored(i)
      BY <1>5, <2>1, <3>1, Targets, NotLagging DEF Working, Removing, Lagging
    <3>3. CASE Cached(i) = {}
      <4>1. \A p \in Programs : ~In(p, i)
        BY <3>2, <3>3, CachedIn
      <4> QED BY <3>1, <4>1 DEF InCells, In
    <3>4. CASE Cached(i) # {}
      <4>1. task'[t].pc = "clear"
        BY <1>5, <2>1, <2>4, <3>4, GatherGoes
      <4> QED BY <1>5, <4>1
    <3> QED BY <3>3, <3>4
  <2> QED BY <2>2, <2>3, <2>4
<1> QED BY <1>3, <1>4, <1>5 DEF Celled

LEMMA CallersCelled ==
  ASSUME IInv, Celled, Calling \/ StartMigration \/ \E B \in SUBSET Programs : Ingest(B)
  PROVE  Celled'
<1>1. UNCHANGED <<rev, cell>>
  BY VerdictGoes, MigrationEndsGoes, ReindexEndsGoes, StartMigrationGoes, IngestGoes
     DEF redis, blobs, Calling
<1>2. \A u \in Helpers("reindex") : task'[u] = task[u]
  BY VerdictGoes, MigrationEndsGoes, ReindexEndsGoes, StartMigrationGoes, IngestGoes, Kinds
     DEF Calling, Others
<1>3. \A i \in Islands : task'[<<"reindex", i>>] = task[<<"reindex", i>>]
  BY <1>2, Kinds
<1> QED BY <1>1, <1>3 DEF Celled, InCells, In

LEMMA StartReindexCelled == ASSUME IInv, StartReindex PROVE Celled'
<1>1. \A u \in Helpers("reindex") : task'[u].pc = "gather"
  BY ReindexTasks, Kinds
<1> QED BY <1>1, Kinds DEF Celled

(* A crash in a re-indexing leaves elites in other cells, but at home.     *)
LEMMA NoAway ==
  ASSUME Turns, NEW u \in {Ingestor, Selector}, task[u].pc \in {"idle", "next", "waiting", "verdict"}
  PROVE  \A p, i : ~AwayBy(task[u], p, i)
  BY DEF AwayBy, Removing

LEMMA CrashCelled ==
  ASSUME IInv, Turns, Celled, Homed, Crash
  PROVE  Celled' \/ Homed'
<1>1. UNCHANGED <<rev, cell, home>>
  BY CrashGoes DEF blobs
<1>2. CASE \A u \in Helpers("reindex") : task[u].pc \notin {"gather", "clear"}
  <2>1. \A i \in Islands : InCells(i)
    BY <1>2, Kinds DEF Celled
  <2> QED BY <1>1, <2>1 DEF Celled, InCells, In
<1>3. CASE \E u \in Helpers("reindex") : task[u].pc \in {"gather", "clear"}
  <2>1. task[Ingestor].pc = "waiting" /\ task[Selector].pc = "idle"
    BY <1>3, Kinds DEF Turns
  <2>2. \A i \in Islands, p \in Programs : ~Away(p, i)
    BY <2>1, NoAway DEF Away
  <2>3. Housed'
    BY <1>1, <2>2 DEF Homed, Housed, In
  <2>4. \A u \in Tasks : task'[u].pc = "idle" /\ task'[u].todo = {}
    BY CrashGoes DEF Idle
  <2>5. Readding' /\ Evicting'
    BY <2>4, Kinds DEF Readding, Evicting, Adding, Removing
  <2>6. Sourced(task[Selector])'
    BY <2>4, Kinds DEF Sourced, Working, Adding, Removing
  <2> QED BY <2>3, <2>5, <2>6 DEF Homed
<1> QED BY <1>2, <1>3


-----------------------------------------------------------------------------
(* Elites are at home.                                                     *)
LEMMA OthersAway ==
  ASSUME Turns, NEW t \in Tasks, task[t].pc \notin {"idle", "waiting"},
         NEW u \in {Ingestor, Selector}, u # t
  PROVE  \A p, i : ~AwayBy(task[u], p, i)
<1>1. task[u].pc \in {"idle", "waiting"}
  BY Kinds DEF Turns
<1> QED BY <1>1, NoAway

(* Who adds, evicts or migrates while this task does.                      *)
LEMMA Company ==
  ASSUME Turns, NEW t \in Tasks, task[t].pc \notin {"idle", "waiting"}, NEW u \in Tasks, u # t
  PROVE  \/ task[u].pc \in {"idle", "waiting"}
         \/ t \in Helpers("reindex") /\ u \in Helpers("reindex") /\ t[2] # u[2]
         \/ t \in Helpers("enforce") /\ u \in Helpers("enforce") /\ t[2] # u[2]
<1>1. t \in Helpers("reindex") /\ u \in Helpers("reindex") => t[2] # u[2]
  BY Kinds
<1>2. t \in Helpers("enforce") /\ u \in Helpers("enforce") => t[2] # u[2]
  BY Kinds
<1>3. CASE t = Ingestor
  BY <1>3, Kinds DEF Turns
<1>4. CASE t = Selector
  BY <1>4, Kinds DEF Turns
<1>5. CASE t \in Helpers("reindex")
  <2>1. task[Ingestor].pc = "waiting" /\ task[Selector].pc = "idle"
    BY <1>5, Kinds DEF Turns
  <2>2. \A v \in Helpers("enforce") : task[v].pc = "idle"
    BY <2>1 DEF Turns
  <2> QED BY <1>1, <1>5, <2>1, <2>2, Kinds
<1>6. CASE t \in Helpers("enforce")
  <2>1. task[Selector].pc = "waiting" /\ task[Ingestor].pc = "idle"
    BY <1>6, Kinds DEF Turns
  <2>2. \A v \in Helpers("reindex") : task[v].pc = "idle"
    BY <2>1 DEF Turns
  <2> QED BY <1>2, <1>6, <2>1, <2>2, Kinds
<1> QED BY <1>3, <1>4, <1>5, <1>6, Kinds

(* A step of a task that adds no program and changes no home.              *)
LEMMA HousedStep ==
  ASSUME IInv, Housed, NEW t \in Tasks, Others(t), UNCHANGED home,
         \A p \in Programs, i \in Islands : rev'[i][p] \in {None, rev[i][p]},
         t \in {Ingestor, Selector} =>
           \A p \in Programs, i \in Islands :
             AwayBy(task[t], p, i) /\ rev'[i][p] # None =>
               home[p] = i \/ AwayBy(task'[t], p, i)
  PROVE  Housed'
<1> SUFFICES ASSUME NEW p \in Programs, NEW i \in Islands, rev'[i][p] # None
             PROVE  home[p] = i \/ \E u \in {Ingestor, Selector} : AwayBy(task'[u], p, i)
  BY DEF Housed, In, Away, AwayBy
<1>1. home[p] = i \/ \E u \in {Ingestor, Selector} : AwayBy(task[u], p, i)
  BY DEF Housed, In, Away
<1>2. ASSUME NEW u \in {Ingestor, Selector}, AwayBy(task[u], p, i), home[p] # i
      PROVE  AwayBy(task'[u], p, i)
  <2>1. CASE u = t
    BY <1>2, <2>1
  <2>2. CASE u # t
    BY <1>2, <2>2, Kinds DEF Others
  <2> QED BY <2>1, <2>2
<1> QED BY <1>1, <1>2

LEMMA AwayFree == ASSUME NEW r, r.pc \notin {"stored", "limit", "look", "wipe", "wiped"}
                  PROVE  \A p, i : ~AwayBy(r, p, i)
  BY DEF AwayBy, Removing

LEMMA QuietHoused ==
  ASSUME IInv, Turns, Mirror, Housed, NEW t \in Tasks,
         Gather(t) \/ Clear(t) \/ Cleared(t) \/ Add(t) \/ Watch(t)
  PROVE  Housed'
<1>1. Others(t) /\ UNCHANGED home
  BY GatherGoes, ClearGoes, ClearedGoes, AddGoes, WatchGoes DEF blobs
<1>2. \A p, i : ~AwayBy(task[t], p, i)
  BY ZenonT(30), AwayFree DEF Gather, Clear, Cleared, Add, Watch
<1>3. \A p \in Programs, i \in Islands : rev'[i][p] \in {None, rev[i][p]}
  <2>1. CASE Gather(t) \/ Add(t)
    BY <2>1, GatherGoes, AddGoes DEF redis
  <2>2. CASE Clear(t) \/ Cleared(t) \/ Watch(t)
    BY <2>2, TameCalmer DEF Tame, Calmer
  <2> QED BY <2>1, <2>2
<1> QED BY <1>1, <1>2, <1>3, HousedStep

LEMMA ExecHoused ==
  ASSUME IInv, Turns, Homed, NEW t \in Tasks, Exec(t)
  PROVE  Housed'
<1> DEFINE r == task[t]
<1>1. /\ r.pc = "seen" /\ Others(t) /\ UNCHANGED home
      /\ task'[t].pc = "stored" /\ SameJob(task'[t], r)
  BY ExecGoes DEF blobs
<1>2. r.on \in Islands /\ r.prog \in Programs /\ r.cell \in Cells /\ Own(t, r)
  BY <1>1, Targets DEF Working, Adding, Turns
<1> SUFFICES ASSUME NEW p \in Programs, NEW i \in Islands, rev'[i][p] # None
             PROVE  home[p] = i \/ \E u \in {Ingestor, Selector} : AwayBy(task'[u], p, i)
  BY <1>1 DEF Housed, In, Away, AwayBy
<1>3. CASE p = r.prog /\ i = r.on
  <2>1. CASE t \in {Ingestor, Selector}
    BY <1>1, <1>3, <2>1 DEF AwayBy, SameJob
  <2>2. CASE t \in Helpers("reindex")
    <3>1. home[r.prog] = t[2] /\ r.on = t[2]
      BY <1>1, <1>2, <2>2 DEF Homed, Readding, Adding, Own, Working
    <3> QED BY <1>3, <3>1
  <2>3. t \notin Helpers("enforce")
    BY <1>1, <1>2 DEF Own, Removing
  <2> QED BY <2>1, <2>2, <2>3, Kinds
<1>4. CASE ~(p = r.prog /\ i = r.on)
  <2>1. In(p, i)
    BY <1>4, ExecEffect DEF In
  <2>2. home[p] = i \/ Away(p, i)
    BY <2>1 DEF Homed, Housed
  <2>3. ~Away(p, i)
    <3>1. \A u \in {Ingestor, Selector} : u # t => ~AwayBy(task[u], p, i)
      BY <1>1, OthersAway
    <3>2. ~AwayBy(task[t], p, i)
      BY <1>1, AwayFree
    <3> QED BY <3>1, <3>2 DEF Away
  <2> QED BY <2>2, <2>3
<1> QED BY <1>3, <1>4

LEMMA StoredHoused ==
  ASSUME IInv, Turns, New, Homed, NEW t \in Tasks, Stored(t)
  PROVE  Housed'
<1> DEFINE r == task[t]
<1>1. r.pc = "stored" /\ Others(t) /\ UNCHANGED rev
  BY StoredGoes DEF redis
<1>2. r.on \in Islands /\ r.prog \in Programs /\ Own(t, r)
  BY <1>1, Targets DEF Working, Adding, Turns
<1>3. CASE t \in Helpers("reindex")
  <2>1. UNCHANGED home
    BY <1>3, StoredGoes, Kinds
  <2>2. t \notin {Ingestor, Selector}
    BY <1>3, Kinds
  <2> QED BY <1>1, <2>1, <2>2, HousedStep DEF Homed
<1>4. CASE t \notin Helpers("reindex")
  <2>1. task'[t].pc = "limit" /\ SameJob(task'[t], r) /\ home' = [home EXCEPT ![r.prog] = r.on]
    BY <1>4, StoredGoes
  <2>2. \A p \in Programs : home'[p] = IF p = r.prog THEN r.on ELSE home[p]
    BY <1>2, <2>1 DEF IInv, TypeOK
  <2>3. t \in {Ingestor, Selector}
    BY <1>1, <1>2, <1>4, Kinds DEF Own, Removing
  <2> SUFFICES ASSUME NEW p \in Programs, NEW i \in Islands, rev[i][p] # None
               PROVE  home'[p] = i \/ AwayBy(task'[t], p, i)
    BY <1>1, <2>3 DEF Housed, In, Away, AwayBy
  <2>4. CASE p # r.prog
    <3>1. ~AwayBy(task[t], p, i) /\ \A u \in {Ingestor, Selector} : u # t => ~AwayBy(task[u], p, i)
      BY <1>1, <2>4, OthersAway DEF AwayBy
    <3> QED BY <2>2, <2>4, <3>1 DEF Homed, Housed, In, Away
  <2>5. CASE p = r.prog /\ t = Ingestor
    BY <1>1, <2>2, <2>5 DEF New, In
  <2>6. CASE p = r.prog /\ t = Selector
    <3>1. i \in {r.src, r.on}
      BY <1>1, <2>6 DEF Homed, Sourced, In, Working, Adding
    <3>2. i = r.src => AwayBy(task'[t], p, i)
      BY <2>1, <2>6 DEF AwayBy, SameJob
    <3> QED BY <2>2, <2>6, <3>1, <3>2
  <2> QED BY <2>3, <2>4, <2>5, <2>6
<1> QED BY <1>3, <1>4

LEMMA FinishHoused == ASSUME IInv, Turns, Homed, NEW t \in Tasks, Finish(t) PROVE Housed'
<1>1. task[t].pc = "next" /\ UNCHANGED <<rev, home>>
  BY FinishGoes DEF redis, blobs
<1>2. \A p, i : ~AwayBy(task[t], p, i)
  BY <1>1, AwayFree
<1>3. CASE t # Selector
  <2>1. Others(t)
    BY <1>3, FinishGoes
  <2> QED BY <1>1, <1>2, <2>1, HousedStep DEF Homed
<1>4. CASE t = Selector
  <2>1. \A p \in Programs, i \in Islands : ~Away(p, i)
    BY <1>1, <1>2, <1>4, OthersAway DEF Away
  <2> QED BY <1>1, <2>1 DEF Homed, Housed, In
<1> QED BY <1>3, <1>4

(* A migrant is to be removed from its source when its island is seen to.  *)
LEMMA OnwardAway ==
  ASSUME IInv, Homed, NEW t \in {Ingestor, Selector}, NEW s, NEW r, r = task[t], Own(t, r),
         r.pc \in {"limit"} \cup Removing, Limited(t, s, r),
         NEW p \in Programs, NEW i \in Islands, AwayBy(r, p, i)
  PROVE  AwayBy(s, p, i)
<1>1. r.prog = p /\ r.src = i /\ i # None
  BY IslandsAssumption DEF AwayBy, Removing
<1>2. t = Selector
  BY <1>1 DEF Own
<1>3. s.pc = "look" /\ SameJob(s, r) /\ s.why = "source"
  BY <1>1, <1>2, Kinds DEF Limited, Onward
<1> QED BY <1>1, <1>3 DEF AwayBy, SameJob, Removing

LEMMA LimitHoused == ASSUME IInv, Turns, Homed, NEW t \in Tasks, Limit(t) PROVE Housed'
<1>1. task[t].pc = "limit" /\ Others(t) /\ UNCHANGED <<rev, home>> /\ Own(t, task[t])
  BY LimitGoes DEF redis, blobs, Turns
<1>2. ASSUME t \in {Ingestor, Selector}, NEW p \in Programs, NEW i \in Islands, AwayBy(task[t], p, i)
      PROVE  AwayBy(task'[t], p, i)
  <2>1. CASE Limited(t, task'[t], task[t])
    BY <1>1, <1>2, <2>1, OnwardAway
  <2>2. CASE task'[t].pc = "look" /\ SameJob(task'[t], task[t]) /\ task'[t].why = "limit"
    BY <1>1, <1>2, <2>2 DEF AwayBy, SameJob, Removing
  <2> QED BY <2>1, <2>2, LimitGoes
<1> QED BY <1>1, <1>2, HousedStep DEF Homed

LEMMA LookHoused == ASSUME IInv, Turns, Homed, NEW t \in Tasks, Look(t) PROVE Housed'
<1> DEFINE r == task[t]
<1>1. /\ r.pc = "look" /\ Others(t) /\ UNCHANGED <<rev, home>> /\ Own(t, r)
      /\ SameJob(task'[t], r) /\ task'[t].why = r.why
      /\ task'[t].pc = IF task'[t].at = Idle.at THEN "wiped" ELSE "wipe"
      /\ task'[t].at = [p \in Programs |-> IF p \in r.out THEN rev[Target(r)][p] ELSE None]
  BY LookGoes DEF redis, blobs, Turns
<1>2. ASSUME NEW p \in Programs, NEW i \in Islands, AwayBy(r, p, i), rev'[i][p] # None
      PROVE  AwayBy(task'[t], p, i)
  <2>1. CASE r.why = "limit"
    BY <1>1, <1>2, <2>1 DEF AwayBy, SameJob, Removing
  <2>2. CASE r.why # "limit"
    <3>1. r.prog = p /\ r.src = i /\ r.why = "source" /\ r.out = {p} /\ Target(r) = i
      BY <1>1, <1>2, <2>2 DEF AwayBy, Own, Removing, Target
    <3>2. task'[t].at[p] = rev[i][p]
      BY <1>1, <3>1
    <3>3. task'[t].at # Idle.at
      BY <1>1, <1>2, <3>2 DEF Idle
    <3> QED BY <1>1, <3>1, <3>3 DEF AwayBy, SameJob
  <2> QED BY <2>1, <2>2
<1> QED BY <1>1, <1>2, HousedStep DEF Homed

LEMMA WipeHoused == ASSUME IInv, Turns, Mirror, Homed, NEW t \in Tasks, Wipe(t) PROVE Housed'
<1> DEFINE r == task[t]
<1>1. /\ r.pc = "wipe" /\ Others(t) /\ UNCHANGED home /\ Own(t, r)
      /\ task'[t].pc = "wiped" /\ SameJob(task'[t], r) /\ task'[t].why = r.why
  BY WipeGoes DEF SameOut, blobs, Turns
<1>2. \A p \in Programs, i \in Islands : 
        rev'[i][p] = IF i = Target(r) /\ p \in r.out THEN None ELSE rev[i][p]
  BY WipeEffect
<1>3. ASSUME NEW p \in Programs, NEW i \in Islands, AwayBy(r, p, i), rev'[i][p] # None
      PROVE  AwayBy(task'[t], p, i)
  <2>1. CASE r.why = "limit"
    BY <1>1, <1>3, <2>1 DEF AwayBy, SameJob, Removing
  <2>2. CASE r.why # "limit"
    <3>1. r.prog = p /\ r.src = i /\ r.why = "source" /\ r.out = {p} /\ Target(r) = i
      BY <1>1, <1>3, <2>2 DEF AwayBy, Own, Removing, Target
    <3> QED BY <1>2, <1>3, <3>1
  <2> QED BY <2>1, <2>2
<1>4. \A p \in Programs, i \in Islands : rev'[i][p] \in {None, rev[i][p]}
  BY <1>2
<1> QED BY <1>1, <1>3, <1>4, HousedStep DEF Homed

LEMMA EvictedHoused == ASSUME IInv, Turns, Mirror, Homed, NEW t \in Tasks, Evicted(t) PROVE Housed'
<1> DEFINE r == task[t]
<1>1. /\ r.pc = "wiped" /\ r.why = "limit" /\ Others(t) /\ UNCHANGED rev /\ Own(t, r)
      /\ Limited(t, task'[t], r)
      /\ \A p \in Programs : home'[p] = IF p \in r.out THEN None ELSE home[p]
  BY EvictedGoes DEF redis, Turns
<1>2. r.on \in Islands /\ Target(r) = r.on
  BY <1>1, Targets DEF Working, Removing, Target
<1>3. \A p \in Programs : p \in r.out => rev[r.on][p] = None
  BY <1>1, <1>2 DEF Mirror, Lag, LagWiped
<1> SUFFICES ASSUME NEW p \in Programs, NEW i \in Islands, rev[i][p] # None
             PROVE  home'[p] = i \/ \E u \in {Ingestor, Selector} : AwayBy(task'[u], p, i)
  BY <1>1 DEF Housed, In, Away, AwayBy
<1>4. home[p] = i \/ \E u \in {Ingestor, Selector} : AwayBy(task[u], p, i)
  BY DEF Homed, Housed, In, Away
<1>5. CASE home[p] = i
  <2>1. p \notin r.out
    <3>1. p \in r.out => home[p] = r.on
      BY <1>1 DEF Homed, Evicting, Removing
    <3> QED BY <1>3, <1>5, <3>1
  <2> QED BY <1>1, <1>5, <2>1
<1>6. CASE \E u \in {Ingestor, Selector} : AwayBy(task[u], p, i)
  <2>1. PICK u \in {Ingestor, Selector} : AwayBy(task[u], p, i)
    BY <1>6
  <2>2. u = t
    BY <1>1, <2>1, OthersAway
  <2>3. AwayBy(task'[u], p, i)
    BY <1>1, <2>1, <2>2, OnwardAway DEF Removing
  <2> QED BY <2>3
<1> QED BY <1>4, <1>5, <1>6

LEMMA SettledHoused ==
  ASSUME IInv, Turns, Homed, NEW t \in Tasks, Moved(t) \/ RolledBack(t)
  PROVE  Housed'
<1>1. /\ task[t].pc = "wiped" /\ task[t].why # "limit" /\ Others(t) /\ UNCHANGED <<rev, home>>
  BY MovedGoes, RolledBackGoes DEF redis, blobs
<1>2. \A p, i : ~AwayBy(task[t], p, i)
  BY <1>1 DEF AwayBy
<1> QED BY <1>1, <1>2, HousedStep DEF Homed

LEMMA CallersHoused ==
  ASSUME IInv, Turns, Homed, ~overlap', Calling \/ StartMigration \/ StartReindex
                                        \/ \E B \in SUBSET Programs : Ingest(B)
  PROVE  Housed'
<1>1. UNCHANGED <<rev, home>>
  BY VerdictGoes, MigrationEndsGoes, ReindexEndsGoes, StartMigrationGoes, IngestGoes, StartReindexGoes
     DEF redis, blobs, Calling
<1>2. \A u \in {Ingestor, Selector} : task[u].pc \in {"idle", "waiting", "verdict"}
  <2>1. CASE Calling
    BY <2>1, VerdictGoes, MigrationEndsGoes, ReindexEndsGoes, Kinds DEF Calling, Turns
  <2>2. CASE StartMigration \/ StartReindex
    BY ZenonT(30), <2>2, StartMigrationGoes, StartReindexGoes, Kinds
  <2>3. CASE \E B \in SUBSET Programs : Ingest(B)
    BY <2>3, IngestGoes
  <2> QED BY <2>1, <2>2, <2>3
<1>3. \A p \in Programs, i \in Islands : ~Away(p, i)
  BY <1>2, NoAway DEF Away
<1> QED BY <1>1, <1>3 DEF Homed, Housed, In


(* What is added again has its home where it was.                          *)
LEMMA ReaddingStep ==
  ASSUME IInv, Readding, UNCHANGED home,
         \A u \in Helpers("reindex") : Narrowed(task'[u], task[u])
  PROVE  Readding'
  BY DEF Readding, Narrowed

LEMMA TameReadding ==
  ASSUME IInv, Turns, Readding, NEW t \in Tasks, Tame(t)
  PROVE  Readding'
<1>1. \A u \in Helpers("reindex") : Narrowed(task'[u], task[u])
  BY TameNarrow, Kinds
<1>2. CASE UNCHANGED home
  BY <1>1, <1>2, ReaddingStep
<1>3. CASE ~UNCHANGED home
  <2>1. Stored(t) \/ Evicted(t)
    BY <1>3, ClearGoes, ClearedGoes, WatchGoes, FinishGoes, LimitGoes, LookGoes, WipeGoes, MovedGoes,
       RolledBackGoes DEF Tame, blobs
  <2>2. task[t].pc \notin {"idle", "waiting"} /\ t \notin Helpers("reindex")
    <3>1. CASE Stored(t)
      BY <1>3, <3>1, StoredGoes
    <3>2. CASE Evicted(t)
      BY <3>2, EvictedGoes DEF Turns, Own, Adding
    <3> QED BY <2>1, <3>1, <3>2
  <2>3. ASSUME NEW u \in Helpers("reindex")
        PROVE  task[u].todo = {} /\ task[u].pc \notin Adding
    <3>1. u \in Tasks /\ u \notin Helpers("enforce") /\ u # t
      BY <2>2, Kinds
    <3>2. task[u].pc \in {"idle", "waiting"}
      BY <2>2, <3>1, Company
    <3> QED BY <3>1, <3>2 DEF Turns, Own, Adding
  <2> QED BY <1>1, <2>3 DEF Readding, Narrowed
<1> QED BY <1>2, <1>3

LEMMA GatherReadding ==
  ASSUME IInv, Turns, Inverse, Mirror, Homed, NEW t \in Tasks, Gather(t)
  PROVE  Readding'
<1>1. task[t].pc = "gather" /\ Others(t) /\ UNCHANGED home
  BY GatherGoes DEF blobs
<1>2. t \in Helpers("reindex") /\ task[t].on = t[2] /\ t[2] \in Islands
  BY <1>1, Kinds DEF Turns, Own, Working, Removing
<1>3. CASE Idled(task'[t])
  BY <1>1, <1>3, Kinds DEF Homed, Readding, Others, Idled, Adding
<1>4. CASE ~Idled(task'[t])
  <2>1. Mirrored(t[2])
    BY <1>1, <1>2, Targets, NotLagging DEF Working, Removing, Lagging
  <2>2. /\ task'[t].pc = "clear"
        /\ task'[t].todo = {[prog |-> p, src |-> None, cell |-> cell[p]] : p \in Cached(t[2])}
    BY <1>2, <1>4, GatherGoes
  <2>3. ASSUME NEW p \in Cached(t[2]) PROVE home[p] = t[2]
    <3>1. p \in Programs /\ In(p, t[2])
      BY <1>2, <2>1, CachedIn, CachedPrograms DEF IInv
    <3>2. ~Away(p, t[2])
      BY <1>1, <1>2, OthersAway, Kinds DEF Away
    <3> QED BY <1>2, <3>1, <3>2 DEF Homed, Housed
  <2>4. \A job \in task'[t].todo : home[job.prog] = t[2]
    BY <2>2, <2>3
  <2> QED BY <1>1, <2>2, <2>4, Kinds DEF Homed, Readding, Others, Adding
<1> QED BY <1>3, <1>4

LEMMA AddReadding == ASSUME IInv, Readding, NEW t \in Tasks, Add(t) PROVE Readding'
<1>1. Others(t) /\ UNCHANGED home
  BY AddGoes DEF blobs
<1>2. PICK job \in task[t].todo :
        /\ task'[t].todo = task[t].todo \ {job}
        /\ \/ task'[t].pc = "next"
           \/ task'[t].pc = "watch" /\ task'[t].prog = job.prog
  BY AddGoes DEF Freed
<1> QED BY <1>1, <1>2, Kinds DEF Readding, Others, Adding

LEMMA ExecReadding == ASSUME IInv, Readding, NEW t \in Tasks, Exec(t) PROVE Readding'
<1>1. /\ task[t].pc = "seen" /\ Others(t) /\ UNCHANGED home
      /\ task'[t].pc = "stored" /\ SameJob(task'[t], task[t])
  BY ExecGoes DEF blobs
<1> QED BY <1>1, Kinds DEF Readding, Others, Adding, SameJob

LEMMA CallersReadding ==
  ASSUME IInv, Readding, Calling \/ StartMigration \/ \E B \in SUBSET Programs : Ingest(B)
  PROVE  Readding'
<1>1. UNCHANGED home
  BY VerdictGoes, MigrationEndsGoes, ReindexEndsGoes, StartMigrationGoes, IngestGoes
     DEF blobs, Calling
<1>2. \A u \in Helpers("reindex") : task'[u] = task[u]
  BY VerdictGoes, MigrationEndsGoes, ReindexEndsGoes, StartMigrationGoes, IngestGoes, Kinds
     DEF Calling, Others
<1> QED BY <1>1, <1>2 DEF Readding

LEMMA StartReindexReadding == ASSUME IInv, StartReindex PROVE Readding'
<1>1. \A u \in Helpers("reindex") : task'[u].pc = "gather" /\ task'[u].todo = {}
  BY ReindexTasks, Kinds
<1> QED BY <1>1 DEF Readding, Adding

(* What is evicted has its home where it is evicted from.                  *)
LEMMA EvictingStep ==
  ASSUME IInv, Evicting, NEW t \in Tasks, Others(t), UNCHANGED home,
         \/ task'[t].pc \notin Removing
         \/ task'[t].why # "limit"
         \/ /\ task[t].pc \in Removing /\ task[t].why = "limit"
            /\ task'[t].out = task[t].out /\ task'[t].on = task[t].on
  PROVE  Evicting'
  BY DEF Evicting, Others

LEMMA StepEvicting ==
  ASSUME IInv, Turns, Evicting, NEW t \in Tasks,
         \/ Gather(t) \/ Clear(t) \/ Cleared(t) \/ Add(t) \/ Watch(t) \/ Exec(t)
         \/ Look(t) \/ Wipe(t) \/ Moved(t) \/ RolledBack(t)
  PROVE  Evicting'
<1>1. CASE Gather(t)
  BY <1>1, GatherGoes, EvictingStep DEF Idled, Removing, blobs
<1>2. CASE Clear(t)
  BY <1>2, ClearGoes, EvictingStep DEF Freed, Removing, blobs
<1>3. CASE Cleared(t)
  BY <1>3, ClearedGoes, EvictingStep DEF Freed, Removing, blobs
<1>4. CASE Add(t)
  BY <1>4, AddGoes, EvictingStep DEF Freed, Removing, blobs
<1>5. CASE Watch(t)
  BY <1>5, WatchGoes, EvictingStep DEF Removing, blobs
<1>6. CASE Exec(t)
  BY <1>6, ExecGoes, EvictingStep DEF Removing, blobs
<1>7. CASE Look(t)
  BY ZenonT(30), <1>7, LookGoes, EvictingStep DEF SameJob, Removing, blobs
<1>8. CASE Wipe(t)
  <2>1. /\ task[t].pc = "wipe" /\ Others(t) /\ UNCHANGED home
        /\ SameJob(task'[t], task[t]) /\ SameOut(task'[t], task[t])
    BY <1>8, WipeGoes DEF blobs
  <2>2. /\ task'[t].on = task[t].on /\ task'[t].out = task[t].out /\ task'[t].why = task[t].why
        /\ task[t].pc \in Removing
    BY <2>1 DEF SameJob, SameOut, Removing
  <2> QED BY <2>1, <2>2, EvictingStep
<1>9. CASE Moved(t)
  BY <1>9, MovedGoes, EvictingStep DEF Freed, Removing, blobs
<1>10. CASE RolledBack(t)
  BY <1>10, RolledBackGoes, EvictingStep DEF Freed, Removing, blobs
<1> QED BY <1>1, <1>2, <1>3, <1>4, <1>5, <1>6, <1>7, <1>8, <1>9, <1>10

LEMMA LimitEvicting ==
  ASSUME IInv, Turns, Inverse, Mirror, Homed, NEW t \in Tasks, Limit(t)
  PROVE  Evicting'
<1> DEFINE r == task[t]
<1>1. r.pc = "limit" /\ Others(t) /\ UNCHANGED home /\ Own(t, r)
  BY LimitGoes DEF blobs, Turns
<1>2. CASE Limited(t, task'[t], r)
  <2>1. task'[t].pc \notin Removing \/ task'[t].why # "limit"
    BY <1>2 DEF Limited, Idled, Onward, Freed, Removing
  <2> QED BY <1>1, <2>1, EvictingStep DEF Homed
<1>3. CASE SameJob(task'[t], r) /\ task'[t].out \subseteq Cached(r.on)
  <2>1. PICK i \in Islands : i = r.on /\ Mirrored(i)
    BY <1>1, Targets, NotLagging DEF Working, Removing, Lagging
  <2>2. ASSUME NEW p \in task'[t].out PROVE home[p] = i
    <3>1. p \in Programs /\ In(p, i)
      BY <1>3, <2>1, CachedIn, CachedPrograms DEF IInv
    <3>2. \A u \in {Ingestor, Selector} : u # t => ~AwayBy(task[u], p, i)
      BY <1>1, OthersAway
    <3>3. t \in {Ingestor, Selector} => ~AwayBy(task[t], p, i)
      BY <1>1, <2>1, Kinds, IslandsAssumption DEF AwayBy, Own, Working
    <3> QED BY <3>1, <3>2, <3>3 DEF Homed, Housed, Away
  <2>3. task'[t].on = i
    BY <1>3, <2>1 DEF SameJob
  <2> QED BY <1>1, <2>2, <2>3 DEF Homed, Evicting, Others
<1> QED BY <1>2, <1>3, LimitGoes

LEMMA StoredEvicting == ASSUME IInv, Turns, Evicting, NEW t \in Tasks, Stored(t) PROVE Evicting'
<1>1. task[t].pc = "stored" /\ Others(t) /\ task'[t].pc \notin Removing
  BY StoredGoes DEF Freed, Removing
<1>2. \A u \in Tasks : u # t => task[u].pc \notin Removing
  <2> SUFFICES ASSUME NEW u \in Tasks, u # t PROVE task[u].pc \notin Removing
    OBVIOUS
  <2>1. t \notin Helpers("enforce")
    BY <1>1 DEF Turns, Own, Removing
  <2>2. task[u].pc \in {"idle", "waiting"} \/ u \in Helpers("reindex")
    BY <1>1, <2>1, Company
  <2> QED BY <2>2, Kinds DEF Turns, Own, Removing, Adding
<1> QED BY <1>1, <1>2 DEF Evicting, Others

LEMMA EvictedEvicting == ASSUME IInv, Turns, Evicting, NEW t \in Tasks, Evicted(t) PROVE Evicting'
<1> DEFINE r == task[t]
<1>1. /\ r.pc = "wiped" /\ r.why = "limit" /\ Others(t) /\ Limited(t, task'[t], r)
      /\ \A p \in Programs : home'[p] = IF p \in r.out THEN None ELSE home[p]
  BY EvictedGoes
<1>2. task'[t].pc \notin Removing \/ task'[t].why # "limit"
  BY <1>1 DEF Limited, Idled, Onward, Freed, Removing
<1>3. ASSUME NEW u \in Tasks, u # t, task[u].pc \in Removing, task[u].why = "limit",
             NEW p \in task[u].out
      PROVE  home'[p] = task[u].on
  <2>1. u \in Helpers("enforce") /\ t \in Helpers("enforce") /\ t[2] # u[2]
    <3>1. task[u].pc \notin {"idle", "waiting"} /\ u \notin Helpers("reindex")
      BY <1>3, Kinds DEF Turns, Own, Removing, Adding
    <3> QED BY <1>1, <1>3, <3>1, Company
  <2>2. task[u].on = u[2] /\ r.on = t[2]
    BY <1>1, <1>3, <2>1 DEF Turns, Own, Working, Removing
  <2>3. p \in Programs
    BY <1>3, At DEF Task
  <2>4. home[p] = u[2] /\ (p \in r.out => home[p] = t[2])
    BY <1>1, <1>3, <2>2 DEF Evicting, Removing
  <2> QED BY <1>1, <2>1, <2>2, <2>3, <2>4
<1> QED BY <1>1, <1>2, <1>3 DEF Evicting, Others

LEMMA FinishEvicting == ASSUME IInv, Evicting, NEW t \in Tasks, Finish(t) PROVE Evicting'
<1>1. UNCHANGED home
  BY FinishGoes DEF blobs
<1>2. CASE t # Selector
  <2>1. Others(t) /\ task'[t].pc \notin Removing
    BY <1>2, FinishGoes DEF Idled, Removing
  <2> QED BY <1>1, <2>1, EvictingStep
<1>3. CASE t = Selector
  <2>1. /\ task'[t] = [Idle EXCEPT !.pc = "waiting"]
        /\ \A v \in Tasks \ {t} :
                    task'[v] = IF v \in Helpers("enforce")
                               THEN [Idle EXCEPT !.pc = "limit", !.on = v[2]] ELSE task[v]
    BY <1>3, FinishGoes, Kinds
  <2>2. \A u \in Tasks : task'[u] = task[u] \/ task'[u].pc \in {"waiting", "limit"}
    <3>1. [Idle EXCEPT !.pc = "waiting"].pc = "waiting"
      BY DEF Idle
    <3>2. \A u \in Tasks : [Idle EXCEPT !.pc = "limit", !.on = u[2]].pc = "limit"
      BY DEF Idle
    <3>3. task'[t].pc = "waiting"
      BY <2>1, <3>1
    <3>4. ASSUME NEW u \in Tasks \ {t}
          PROVE  task'[u] = task[u] \/ task'[u].pc = "limit"
      BY <2>1, <3>2
    <3> QED BY <3>3, <3>4
  <2> QED BY <1>1, <2>2 DEF Evicting, Removing
<1> QED BY <1>2, <1>3

LEMMA CallersEvicting ==
  ASSUME IInv, Evicting, Calling \/ StartMigration \/ StartReindex
                         \/ \E B \in SUBSET Programs : Ingest(B)
  PROVE  Evicting'
<1>1. UNCHANGED home
  BY VerdictGoes, MigrationEndsGoes, ReindexEndsGoes, StartMigrationGoes, IngestGoes, StartReindexGoes
     DEF blobs, Calling
<1>2. \A u \in Tasks : task'[u] = task[u] \/ task'[u].pc \notin Removing
  <2>1. CASE Calling
    BY <2>1, VerdictGoes, MigrationEndsGoes, ReindexEndsGoes DEF Calling, Others, Idled, Removing
  <2>2. CASE StartMigration
    BY <2>2, StartMigrationGoes DEF Others, Removing
  <2>3. CASE StartReindex
    BY <2>3, ReindexTasks DEF Removing
  <2>4. CASE \E B \in SUBSET Programs : Ingest(B)
    BY <2>4, IngestGoes DEF Others, Removing
  <2> QED BY <2>1, <2>2, <2>3, <2>4
<1> QED BY <1>1, <1>2 DEF Evicting

LEMMA SelectorProg ==
  ASSUME IInv, Turns
  PROVE  /\ \A job \in task[Selector].todo : job.prog \in Programs
         /\ task[Selector].pc \in Working => task[Selector].prog \in Programs
<1>1. \A job \in task[Selector].todo : job.prog \in Programs
  BY Job, Kinds
<1>2. task[Selector].pc \in Working => task[Selector].prog \in Programs
  BY At, Kinds DEF Knows, Turns, Own, Working, Adding, Removing, Task
<1> QED BY <1>1, <1>2

(* A migrant is where it came from and where it goes, and nowhere else.    *)
LEMMA SourcedStep ==
  ASSUME IInv, Turns, Sourced(task[Selector]), task'[Selector] = task[Selector],
         \A p \in Programs, i \in Islands : rev'[i][p] \in {None, rev[i][p]}
  PROVE  Sourced(task[Selector])'
<1>1. {"watch", "seen"} \subseteq Working
  BY DEF Working, Adding
<1> QED BY <1>1, SelectorProg DEF Sourced, In

LEMMA TameSourced ==
  ASSUME IInv, Turns, Mirror, Sourced(task[Selector]), NEW t \in Tasks, Tame(t)
  PROVE  Sourced(task[Selector])'
<1> DEFINE r == task[Selector]  s == task'[Selector]
<1>1. \A p \in Programs, i \in Islands : rev'[i][p] \in {None, rev[i][p]}
  BY TameCalmer DEF Calmer
<1>2. \/ s = r
      \/ s.pc \notin Working /\ s.todo \subseteq r.todo
      \/ SameJob(s, r) /\ r.pc \in Working /\ (s.pc \in {"watch", "seen"} => r.pc \in {"watch", "seen"})
  <2>1. CASE t # Selector
    <3>1. Others(t)
      <4>1. CASE Finish(t)
        BY <2>1, <4>1, FinishGoes DEF Others
      <4> QED BY <4>1, ClearGoes, ClearedGoes, WatchGoes, StoredGoes, LimitGoes, LookGoes, WipeGoes,
                 EvictedGoes, MovedGoes, RolledBackGoes DEF Tame
    <3> QED BY <2>1, <3>1, Kinds DEF Others
  <2>2. CASE t = Selector
    <3>1. ~Clear(t) /\ ~Cleared(t)
      BY <2>2 DEF Turns, Own, Clear, Cleared
    <3>2. CASE Watch(t)
      BY <2>2, <3>2, WatchGoes DEF Working, Adding
    <3>3. CASE Stored(t)
      BY <2>2, <3>3, StoredGoes, Kinds DEF Working, Adding
    <3>4. CASE Finish(t)
      <4>1. s = [Idle EXCEPT !.pc = "waiting"]
        BY <2>2, <3>4, FinishGoes, Kinds
      <4>2. s.pc = "waiting" /\ s.todo = {}
        BY <4>1 DEF Idle
      <4> QED BY <4>2 DEF Working, Adding, Removing
    <3>5. CASE Limit(t)
      BY <2>2, <3>5, LimitGoes, Kinds DEF Limited, Onward, Freed, Working, Adding, Removing
    <3>6. CASE Look(t)
      BY <2>2, <3>6, LookGoes DEF Working, Removing
    <3>7. CASE Wipe(t)
      BY <2>2, <3>7, WipeGoes DEF Working, Removing
    <3>8. CASE Evicted(t)
      BY <2>2, <3>8, EvictedGoes, Kinds DEF Limited, Onward, Freed, Working, Adding, Removing
    <3>9. CASE Moved(t)
      BY <2>2, <3>9, MovedGoes DEF Freed, Working, Adding, Removing
    <3>10. CASE RolledBack(t)
      BY <2>2, <3>10, RolledBackGoes DEF Freed, Working, Adding, Removing
    <3> QED BY <3>1, <3>2, <3>3, <3>4, <3>5, <3>6, <3>7, <3>8, <3>9, <3>10 DEF Tame
  <2> QED BY <2>1, <2>2
<1>3. CASE s = r
  BY <1>1, <1>3, SourcedStep
<1>4. CASE s.pc \notin Working /\ s.todo \subseteq r.todo
  BY <1>1, <1>4, SelectorProg DEF Sourced, In, Working, Adding
<1>5. CASE SameJob(s, r) /\ r.pc \in Working /\ (s.pc \in {"watch", "seen"} => r.pc \in {"watch", "seen"})
  BY <1>1, <1>5, SelectorProg DEF Sourced, In, SameJob
<1> QED BY <1>2, <1>3, <1>4, <1>5

LEMMA AddSourced == ASSUME IInv, Turns, Sourced(task[Selector]), NEW t \in Tasks, Add(t)
                    PROVE Sourced(task[Selector])'
<1>1. Others(t) /\ UNCHANGED rev
  BY AddGoes DEF redis
<1>2. CASE t # Selector
  BY <1>1, <1>2, SourcedStep, Kinds DEF Others
<1>3. CASE t = Selector
  <2>1. PICK job \in task[t].todo :
          /\ task'[t].todo = task[t].todo \ {job}
          /\ \/ task'[t].pc = "next"
             \/ task'[t].pc = "watch" /\ task'[t].prog = job.prog /\ task'[t].src = job.src
    BY AddGoes DEF Freed
  <2>2. CASE task'[t].pc = "next"
    BY <1>1, <1>3, <2>1, <2>2 DEF Sourced, In, Working, Adding, Removing
  <2>3. CASE task'[t].prog = job.prog /\ task'[t].src = job.src
    BY <1>1, <1>3, <2>1, <2>3 DEF Sourced, In
  <2> QED BY <2>1, <2>2, <2>3
<1> QED BY <1>2, <1>3

LEMMA ExecSourced == ASSUME IInv, Turns, Sourced(task[Selector]), NEW t \in Tasks, Exec(t)
                     PROVE Sourced(task[Selector])'
<1> DEFINE r == task[t]
<1>1. /\ r.pc = "seen" /\ Others(t) /\ task'[t].pc = "stored" /\ SameJob(task'[t], r) /\ Own(t, r)
  BY ExecGoes DEF Turns
<1>2. \A p \in Programs, i \in Islands : In(p, i)' => In(p, i) \/ (p = r.prog /\ i = r.on)
  BY ExecEffect DEF In
<1>3. CASE t = Selector
  <2>1. \A job \in r.todo : job.prog # r.prog
    BY <1>1 DEF Own, Adding
  <2>2. r.src # None /\ \A i \in Islands : In(r.prog, i)' => i \in {r.src, r.on}
    <3>1. r.src # None /\ \A i \in Islands : In(r.prog, i) => i = r.src
      BY <1>1, <1>3 DEF Sourced, Working, Adding
    <3>2. r.prog \in Programs
      BY <1>1, <1>3, SelectorProg DEF Working, Adding
    <3>3. task'[t].prog = r.prog
      BY <1>1 DEF SameJob
    <3> QED BY <1>2, <3>1, <3>2, <3>3 DEF In
  <2>3. \A job \in r.todo : job.src # None /\ \A i \in Islands : In(job.prog, i)' => i = job.src
    BY <1>2, <1>3, <2>1, SelectorProg DEF Sourced
  <2> QED BY <1>1, <1>3, <2>2, <2>3 DEF Sourced, In, SameJob
<1>4. CASE t # Selector
  <2>1. task[Selector].pc \in {"idle", "waiting"}
    <3>1. t \notin Helpers("enforce")
      BY <1>1 DEF Own, Removing
    <3> QED BY <1>1, <1>4, <3>1, Company, Kinds
  <2>2. task[Selector].todo = {} /\ task'[Selector] = task[Selector]
    BY <1>1, <1>4, <2>1, Kinds DEF Turns, Own, Others
  <2> QED BY <2>1, <2>2 DEF Sourced, Working, Adding, Removing
<1> QED BY <1>3, <1>4

LEMMA GatherSourced == ASSUME IInv, Turns, Sourced(task[Selector]), NEW t \in Tasks, Gather(t)
                       PROVE Sourced(task[Selector])'
<1>1. Others(t) /\ UNCHANGED rev /\ t # Selector
  BY GatherGoes DEF redis, Turns, Own
<1> QED BY <1>1, SourcedStep, Kinds DEF Others

LEMMA CallersSourced ==
  ASSUME IInv, Turns, Sourced(task[Selector]),
         Calling \/ StartReindex \/ \E B \in SUBSET Programs : Ingest(B)
  PROVE  Sourced(task[Selector])'
<1>1. UNCHANGED rev
  BY VerdictGoes, MigrationEndsGoes, ReindexEndsGoes, IngestGoes, StartReindexGoes DEF redis, Calling
<1>2. CASE MigrationEnds
  BY <1>2, MigrationEndsGoes DEF Sourced, Idled, Working, Adding, Removing
<1>3. CASE ~MigrationEnds
  <2>1. task'[Selector] = task[Selector]
    BY <1>3, VerdictGoes, ReindexEndsGoes, IngestGoes, StartReindexGoes, Kinds DEF Calling, Others
  <2> QED BY <1>1, <2>1, SourcedStep
<1> QED BY <1>2, <1>3

LEMMA StartMigrationSourced ==
  ASSUME IInv, Turns, Inverse, Mirror, Homed, StartMigration, ~overlap'
  PROVE  Sourced(task[Selector])'
<1>1. UNCHANGED rev /\ task'[Selector].pc = "next"
  BY StartMigrationGoes DEF redis
<1>2. PICK C \in SUBSET Active :
        task'[Selector].todo = {[prog |-> p, src |-> home[p], cell |-> cell[p]] : p \in C}
  BY StartMigrationGoes
<1>3. \A u \in Tasks : task[u].pc \notin Lagging
  BY MigrationRests DEF Lagging
<1>4. \A p, i : ~Away(p, i)
  BY MigrationRests, NoAway, Kinds DEF Away
<1>5. \A p \in C : p \in Programs /\ home[p] # None /\ \A i \in Islands : In(p, i) => i = home[p]
  BY <1>3, <1>4, Elites, IslandsAssumption DEF Homed, Housed
<1>6. \A job \in task'[Selector].todo : job.src # None /\ \A i \in Islands : In(job.prog, i) => i = job.src
  BY <1>2, <1>5
<1> QED BY <1>1, <1>6 DEF Sourced, In, Working, Adding, Removing


-----------------------------------------------------------------------------
(* The parts together, for the steps there are while it is calm.           *)
LEMMA SameInverse == ASSUME Inverse, UNCHANGED <<hash, rev>> PROVE Inverse'
  BY DEF Inverse

LEMMA TameBasis == ASSUME IInv, Basis, NEW t \in Tasks, Tame(t) PROVE Basis'
<1>1. Turns /\ Inverse /\ Mirror /\ Current /\ Jobbed /\ New /\ Recelled
  BY DEF Basis
<1>2. Turns'
  BY <1>1, ClearTurns, ClearedTurns, WatchTurns, StoredTurns, FinishTurns, LimitTurns, LookTurns,
     WipeTurns, EvictedTurns, MovedTurns, RolledBackTurns DEF Tame
<1>3. Inverse'
  <2>1. CASE Clear(t) \/ Wipe(t)
    BY <1>1, <2>1, ClearInverse, WipeInverse
  <2>2. CASE ~Clear(t) /\ ~Wipe(t)
    <3>1. UNCHANGED <<hash, rev>>
      BY <2>2, ClearedGoes, WatchGoes, StoredGoes, FinishGoes, LimitGoes, LookGoes, EvictedGoes,
         MovedGoes, RolledBackGoes DEF Tame, redis
    <3> QED BY <1>1, <3>1, SameInverse
  <2> QED BY <2>1, <2>2
<1>4. Mirror'
  BY <1>1, ClearMirror, ClearedMirror, WatchMirror, StoredMirror, FinishMirror, LimitMirror, LookMirror,
     WipeMirror, EvictedMirror, MovedMirror, RolledBackMirror DEF Tame
<1>5. Current'
  BY <1>1, ClearCurrent, ClearedCurrent, WatchCurrent, StoredCurrent, FinishCurrent, TasksCurrent,
     WipeCurrent, ForgetCurrent DEF Tame
<1>6. Jobbed' /\ New' /\ Recelled'
  BY <1>1, TameCalmer, TameNarrow, NarrowJobbed, TameNew, TameRecelled
<1> QED BY <1>2, <1>3, <1>4, <1>5, <1>6 DEF Basis

LEMMA ExecBasis ==
  ASSUME IInv, Basis, Celled \/ Homed, NEW t \in Tasks, Exec(t)
  PROVE  Basis'
<1>1. Turns /\ Inverse /\ Mirror /\ Current /\ Jobbed /\ New /\ Recelled
  BY DEF Basis
<1>2. rev[task[t].on][task[t].prog] \in {None, task[t].cell}
  <2>1. task[t].pc = "seen"
    BY DEF Exec
  <2> QED BY <1>1, <2>1, NowhereElse
<1> QED BY <1>1, <1>2, ExecTurns, ExecInverse, ExecMirror, ExecCurrent, ExecJobbed, ExecNew, ExecRecelled
       DEF Basis

LEMMA GatherBasis == ASSUME IInv, Basis, NEW t \in Tasks, Gather(t) PROVE Basis'
<1>1. UNCHANGED <<hash, rev>>
  BY GatherGoes DEF redis
<1> QED BY <1>1, GatherTurns, SameInverse, GatherMirror, TasksCurrent, GatherJobbed, GatherNew, StepRecelled
       DEF Basis

LEMMA AddBasis == ASSUME IInv, Basis, NEW t \in Tasks, Add(t) PROVE Basis'
<1>1. UNCHANGED <<hash, rev>>
  BY AddGoes DEF redis
<1> QED BY <1>1, AddTurns, SameInverse, AddMirror, AddCurrent, AddJobbed, AddNew, StepRecelled
       DEF Basis

LEMMA CallingBasis == ASSUME IInv, Basis, Calling PROVE Basis'
<1>1. UNCHANGED <<hash, rev>>
  BY VerdictGoes, MigrationEndsGoes, ReindexEndsGoes DEF Calling, redis
<1>2. Turns' /\ Mirror' /\ Current'
  BY VerdictTurns, MigrationEndsTurns, ReindexEndsTurns, CallersMirror, CallersCurrent DEF Calling, Basis
<1>3. Jobbed' /\ New' /\ Recelled'
  BY CallingCalmer, CallingNarrow, NarrowJobbed, CallingNew, CallersRecelled DEF Basis
<1> QED BY <1>1, <1>2, <1>3, SameInverse DEF Basis

LEMMA StartBasis ==
  ASSUME IInv, Basis, ~overlap', StartMigration \/ StartReindex \/ \E B \in SUBSET Programs : Ingest(B)
  PROVE  Basis'
<1>1. CASE StartMigration
  <2>1. UNCHANGED <<hash, rev>>
    BY <1>1, StartMigrationGoes DEF redis
  <2> QED BY <1>1, <2>1, StartMigrationTurns, SameInverse, CallersMirror, CallersCurrent,
             StartMigrationJobbed, StartMigrationNew, CallersRecelled DEF Basis
<1>2. CASE StartReindex
  <2>1. UNCHANGED <<hash, rev>>
    BY <1>2, StartReindexGoes DEF redis
  <2> QED BY <1>2, <2>1, StartReindexTurns, SameInverse, StartReindexMirror, StartReindexCurrent,
             StartReindexJobbed, StartReindexNew, StartReindexRecelled DEF Basis
<1>3. CASE \E B \in SUBSET Programs : Ingest(B)
  <2>1. PICK B \in SUBSET Programs : Ingest(B)
    BY <1>3
  <2>2. UNCHANGED <<hash, rev>>
    BY <2>1, IngestGoes DEF redis
  <2> QED BY <2>1, <2>2, IngestTurns, SameInverse, IngestMirror, IngestCurrent,
             IngestJobbed, IngestNew, CallersRecelled DEF Basis
<1> QED BY <1>1, <1>2, <1>3

LEMMA CrashBasis == ASSUME IInv, Basis, Crash PROVE Basis'
<1>1. UNCHANGED <<hash, rev>>
  BY CrashGoes
<1> QED BY <1>1, CrashTurns, SameInverse, CrashMirror, CrashCurrent, CrashJobbed, CrashNew, CrashRecelled
       DEF Basis

LEMMA TameHomed == ASSUME IInv, Basis, Homed, NEW t \in Tasks, Tame(t) PROVE Homed'
<1>1. Turns /\ Inverse /\ Mirror /\ New /\ Readding /\ Evicting /\ Sourced(task[Selector])
  BY DEF Basis, Homed
<1>2. Housed'
  <2>1. CASE Clear(t) \/ Cleared(t) \/ Watch(t)
    BY <1>1, <2>1, QuietHoused DEF Homed
  <2>2. CASE ~(Clear(t) \/ Cleared(t) \/ Watch(t))
    BY <1>1, <2>2, StoredHoused, FinishHoused, LimitHoused, LookHoused, WipeHoused, EvictedHoused,
       SettledHoused DEF Tame
  <2> QED BY <2>1, <2>2
<1>3. Evicting'
  BY <1>1, StepEvicting, LimitEvicting, StoredEvicting, EvictedEvicting, FinishEvicting DEF Tame
<1> QED BY <1>1, <1>2, <1>3, TameReadding, TameSourced DEF Homed

LEMMA StepHomed ==
  ASSUME IInv, Basis, Homed, NEW t \in Tasks, Gather(t) \/ Add(t) \/ Exec(t)
  PROVE  Homed'
<1>1. Turns /\ Inverse /\ Mirror /\ New /\ Housed /\ Readding /\ Evicting /\ Sourced(task[Selector])
  BY DEF Basis, Homed
<1>2. Housed'
  BY <1>1, QuietHoused, ExecHoused
<1>3. Evicting'
  BY <1>1, StepEvicting
<1>4. Readding'
  BY <1>1, GatherReadding, AddReadding, ExecReadding
<1>5. Sourced(task[Selector])'
  BY <1>1, GatherSourced, AddSourced, ExecSourced
<1> QED BY <1>2, <1>3, <1>4, <1>5 DEF Homed

LEMMA CallersHomed ==
  ASSUME IInv, Basis, Homed, ~overlap', Calling \/ StartMigration \/ StartReindex
                                         \/ \E B \in SUBSET Programs : Ingest(B)
  PROVE  Homed'
<1>1. Turns /\ Inverse /\ Mirror /\ New /\ Housed /\ Readding /\ Evicting /\ Sourced(task[Selector])
  BY DEF Basis, Homed
<1>2. Housed' /\ Evicting'
  BY <1>1, CallersHoused, CallersEvicting
<1>3. Readding'
  BY <1>1, CallersReadding, StartReindexReadding
<1>4. Sourced(task[Selector])'
  BY <1>1, CallersSourced, StartMigrationSourced
<1> QED BY <1>2, <1>3, <1>4 DEF Homed

(* While it stays calm a step is one of these.                             *)
LEMMA CalmStep ==
  ASSUME IInv, QInv, Next, Once'
  PROVE  /\ Once /\ crashes \in Nat
         /\ \/ Crash /\ crashes' = crashes + 1
            \/ /\ crashes' = crashes
               /\ \/ \E t \in Tasks : Tame(t) \/ Gather(t) \/ Add(t) \/ Exec(t)
                  \/ Calling \/ StartMigration \/ StartReindex
                  \/ \E B \in SUBSET Programs : Ingest(B)
<1>1. faults \in Nat /\ crashes \in Nat /\ overlap \in BOOLEAN /\ faults' = 0 /\ ~overlap' /\ crashes' <= 1
  BY DEF IInv, TypeOK, Once, Calm
<1>2. CASE Crash
  BY <1>1, <1>2, CrashGoes DEF Once, Calm
<1>3. CASE \E t \in Tasks : LoseAnswer(t) \/ Fail(t)
  BY <1>1, <1>3 DEF LoseAnswer, Fail
<1>4. CASE \E t \in Tasks : Step(t)
  <2>1. PICK t \in Tasks : Step(t)
    BY <1>4
  <2>2. UNCHANGED counts
    BY ZenonT(30), <2>1 DEF Step, Gather, Clear, Cleared, Add, Watch, Refuse, Exec, Commit, Retry, Stored, Finish,
                Limit, Look, Wipe, Evicted, Moved, RolledBack
  <2>3. UNCHANGED <<faults, crashes, overlap>>
    BY <2>2 DEF counts
  <2>4. Once
    BY <1>1, <2>3 DEF Once, Calm
  <2>5. ~Refuse(t) /\ ~Retry(t)
    BY <2>4, NeverRefused DEF QInv, Basis
  <2>6. Tame(t) \/ Gather(t) \/ Add(t) \/ Exec(t)
    BY <2>1, <2>5 DEF Step, Tame
  <2> QED BY <1>1, <2>3, <2>4, <2>6
<1>5. CASE Calling \/ StartMigration \/ StartReindex \/ \E B \in SUBSET Programs : Ingest(B)
  <2>1. UNCHANGED <<faults, crashes>> /\ (overlap => overlap')
    <3>1. CASE Calling
      BY <3>1 DEF Calling, Verdict, MigrationEnds, ReindexEnds, counts
    <3>2. CASE StartMigration \/ StartReindex \/ \E B \in SUBSET Programs : Ingest(B)
      BY <1>1, <3>2 DEF StartMigration, StartReindex, Ingest
    <3> QED BY <1>5, <3>1, <3>2
  <2> QED BY <1>1, <1>5, <2>1 DEF Once, Calm
<1> QED BY <1>2, <1>3, <1>4, <1>5 DEF Next, Calling

LEMMA NextQInv == ASSUME IInv, QInv, Next PROVE QInv'
<1> SUFFICES ASSUME Once'
             PROVE  /\ Basis' /\ (Celled' \/ Homed')
                    /\ crashes' = 0 => Celled' /\ Homed'
  BY DEF QInv
<1>1. Once /\ crashes \in Nat /\ ~overlap' /\ crashes' <= 1
  BY CalmStep DEF Once, Calm
<1>2. Basis /\ (Celled \/ Homed) /\ (crashes = 0 => Celled /\ Homed)
  BY <1>1 DEF QInv
<1>3. Turns /\ Inverse /\ Mirror /\ Jobbed
  BY <1>2 DEF Basis
<1>4. CASE Crash /\ crashes' = crashes + 1
  <2>1. Celled /\ Homed /\ crashes' # 0
    BY <1>1, <1>2, <1>4
  <2> QED BY <1>2, <1>3, <1>4, <2>1, CrashBasis, CrashCelled
<1>5. CASE crashes' = crashes /\ \E t \in Tasks : Tame(t) \/ Gather(t) \/ Add(t) \/ Exec(t)
  <2>1. PICK t \in Tasks : Tame(t) \/ Gather(t) \/ Add(t) \/ Exec(t)
    BY <1>5
  <2>2. Basis'
    BY <1>2, <2>1, TameBasis, GatherBasis, AddBasis, ExecBasis
  <2>3. Celled => Celled'
    BY <1>3, <2>1, StepCelled
  <2>4. Homed => Homed'
    BY <1>2, <2>1, TameHomed, StepHomed
  <2> QED BY <1>2, <1>5, <2>2, <2>3, <2>4
<1>6. CASE /\ crashes' = crashes
           /\ Calling \/ StartMigration \/ StartReindex \/ \E B \in SUBSET Programs : Ingest(B)
  <2>1. Basis'
    BY <1>1, <1>2, <1>6, CallingBasis, StartBasis
  <2>2. Celled => Celled'
    BY <1>6, CallersCelled, StartReindexCelled
  <2>3. Homed => Homed'
    BY <1>1, <1>2, <1>6, CallersHomed
  <2> QED BY <1>2, <1>6, <2>1, <2>2, <2>3
<1> QED BY <1>4, <1>5, <1>6, CalmStep

LEMMA InitQInv == ASSUME Init PROVE QInv
<1>1. IInv
  BY InitInv
<1>2. \A t \in Tasks : task[t] = Idle /\ task[t].pc = "idle" /\ task[t].todo = {} /\ Idled(task[t])
  BY Idles DEF Init, Idle
<1>3. /\ \A i \in Islands, c \in Cells : hash[i][c] = None /\ cache[i][c] = None
      /\ \A i \in Islands, p \in Programs : rev[i][p] = None /\ where[i][p] = None
  BY DEF Init
<1>4. Turns
  BY <1>2, OwnIdled, Kinds DEF Turns
<1>5. Inverse
  BY <1>3, IslandsAssumption DEF Inverse
<1>6. Mirror
  BY <1>2, <1>3 DEF Mirror, Mirrored, Lag
<1>7. Current /\ Jobbed
  BY <1>2 DEF Current, Jobbed, Fed, Adding
<1>8. New /\ Recelled
  BY <1>2, <1>3, Kinds DEF New, In, Recelled, Adding
<1>9. Celled
  BY <1>3 DEF Celled, InCells, In
<1>10. Homed
  BY <1>2, <1>3, Kinds DEF Homed, Housed, In, Readding, Evicting, Sourced, Working, Adding, Removing
<1> QED BY <1>4, <1>5, <1>6, <1>7, <1>8, <1>9, <1>10 DEF QInv, Basis

LEMMA StutterQInv == ASSUME QInv, UNCHANGED vars PROVE QInv'
<1>1. UNCHANGED <<hash, rev, watching, cache, where, cell, state, home, task, engine,
                  faults, crashes, overlap>>
  BY DEF vars, redis, memory, blobs, counts
<1>2. Once' => Once
  BY <1>1 DEF Once, Calm
<1>3. Turns => Turns'
  BY <1>1 DEF Turns, Own
<1>4. Mirror => Mirror'
  BY <1>1 DEF Mirror, Mirrored, Lag, LagStored, LagCleared, LagWiped, Target
<1>5. /\ Inverse => Inverse'
      /\ Current => Current'
      /\ Jobbed => Jobbed'
      /\ New => New'
      /\ Recelled => Recelled'
      /\ Celled => Celled'
  BY <1>1 DEF Inverse, Current, Jobbed, Fed, New, In, Recelled, InCells, Celled
<1>6. Homed => Homed'
  BY <1>1 DEF Homed, Housed, In, Away, AwayBy, Readding, Evicting, Sourced
<1> QED BY <1>1, <1>2, <1>3, <1>4, <1>5, <1>6 DEF QInv, Basis

(* While it is calm the archive is kept as QInv says, step by step.        *)
THEOREM CalmInductive == Spec => []QInv
<1>1. IInv /\ QInv /\ [Next]_vars => QInv'
  BY NextQInv, StutterQInv
<1> QED
  BY <1>1, InitQInv, Inductive, PTL DEF Spec

LEMMA RestingMirrors ==
  ASSUME IInv, Turns, Inverse, Mirror, Resting(Tasks)
  PROVE  \A i \in Islands :
            /\ cache[i] = hash[i] /\ where[i] = rev[i]
            /\ \A c \in Cells, p \in Programs : hash[i][c] = p <=> rev[i][p] = c
<1> SUFFICES ASSUME NEW i \in Islands PROVE cache[i] = hash[i] /\ where[i] = rev[i]
  BY DEF Inverse
<1>1. Mirrored(i)
  BY AtRest DEF Resting, Lagging
<1>2. /\ cache[i] \in [Cells -> Programs \union {None}] /\ hash[i] \in [Cells -> Programs \union {None}]
      /\ where[i] \in [Programs -> Cells \union {None}] /\ rev[i] \in [Programs -> Cells \union {None}]
  BY DEF IInv, TypeOK
<1> QED BY <1>1, <1>2 DEF Mirrored

(* The write-through cache of RedisArchiveStorage (archive_storage.py):    *)
(* when nothing is under way, memory is what Redis holds and the reverse   *)
(* hash the inverse of the hash, also after a restart.                     *)
THEOREM MemoryMirrorsRedis == Spec => []MirrorsRedis
<1>1. IInv /\ QInv => MirrorsRedis
  BY RestingMirrors DEF QInv, Basis, Once, MirrorsRedis
<1> QED
  BY <1>1, Inductive, CalmInductive, PTL

LEMMA RestingHome ==
  ASSUME IInv, Turns, Inverse, Celled, Homed, Resting(Tasks),
         NEW p \in Programs, NEW i \in Islands, NEW c \in Cells, hash[i][c] = p
  PROVE  home[p] = i /\ c = cell[p]
<1>1. rev[i][p] = c /\ In(p, i)
  BY IslandsAssumption DEF Inverse, In
<1>2. \A u \in Tasks : task[u].pc = "idle"
  BY DEF Resting
<1>3. InCells(i)
  BY <1>2, Kinds DEF Celled
<1>4. ~Away(p, i)
  BY <1>2, NoAway, Kinds DEF Away
<1> QED BY <1>1, <1>3, <1>4 DEF InCells, Homed, Housed

(* However migrations, evictions and re-indexings followed each other, a   *)
(* program is the elite of one cell of one island, the one its metadata    *)
(* names (MapElitesMultiIsland, MapElitesIsland).                          *)
THEOREM HasOneHome == Spec => []OneHome
<1>1. IInv /\ QInv => OneHome
  <2> SUFFICES ASSUME IInv, QInv, Calm, crashes = 0, Resting(Tasks),
                      NEW p \in Programs, NEW i \in Islands, NEW j \in Islands,
                      NEW c \in Cells, NEW d \in Cells, hash[i][c] = p
               PROVE  home[p] = i /\ (hash[j][d] = p => i = j /\ c = d)
    BY DEF OneHome
  <2>1. Turns /\ Inverse /\ Celled /\ Homed
    BY DEF QInv, Once, Basis
  <2> QED BY <2>1, RestingHome
<1> QED
  BY <1>1, Inductive, CalmInductive, PTL

-----------------------------------------------------------------------------
(* No elite is lost, and none that is discarded stays.                     *)

(* What is not yet in the archive has no home; who is at rest keeps        *)
(* nothing.                                                                *)
Fresh ==
  /\ \A p \in Programs : state[p] = "NEW" => home[p] = None
  /\ \A job \in task[Ingestor].todo : home[job.prog] = None /\ state[job.prog] = "DONE"
  /\ task[Ingestor].pc \in Adding =>
       home[task[Ingestor].prog] = None /\ state[task[Ingestor].prog] = "DONE"
Tidy ==
  /\ task[Ingestor].pc \in {"idle", "waiting"} => task[Ingestor].batch = {} /\ task[Ingestor].good = {}
  /\ \A t \in Tasks : task[t].why # "none" => task[t].pc \in Removing

(* A migrant that was discarded meanwhile will be removed.                 *)
LeavesSource(r, p, i) ==
  i = r.src /\ r.why = "source" /\ r.pc \in {"look", "wipe"} /\ ~In(p, r.on)
LeavesTarget(r, p, i) ==
  /\ i = r.on /\ ~In(p, r.src)
  /\ \/ r.pc \in {"stored", "limit"}
     \/ r.pc \in Removing /\ r.why = "limit"
     \/ r.pc = "look" /\ r.why = "source"
     \/ r.pc = "wiped" /\ r.why = "source" /\ r.at = Idle.at
     \/ r.pc \in {"look", "wipe"} /\ r.why = "rollback"
Leaving(r, p, i) == r.prog = p /\ (LeavesSource(r, p, i) \/ LeavesTarget(r, p, i))
Left == \A p \in Programs, i \in Islands :
          state[p] = "DISCARDED" /\ In(p, i) => Leaving(task[Selector], p, i)
Readds ==
  \A t \in Helpers("reindex") :
    /\ \A job \in task[t].todo : state[job.prog] # "DISCARDED"
    /\ task[t].pc \in Adding => state[task[t].prog] # "DISCARDED"
Admitted ==
  engine = "steady" =>
    \A p \in task[Ingestor].batch, i \in Islands :
      In(p, i) => \/ p \in task[Ingestor].good
                  \/ task[Ingestor].prog = p /\ task[Ingestor].pc \in Working
Gone == Left /\ Readds /\ Admitted

(* Where a program is that is in no archive.                               *)
Out(p) == \E t \in Tasks : task[t].why = "limit" /\ p \in task[t].out
Lost(p) == p \in beaten \/ state[p] = "DISCARDED" \/ Out(p)
There(p, i) == In(p, i) \/ Lost(p)
Somewhere(p) == (\E i \in Islands : In(p, i)) \/ Lost(p)
ReaddedBy(r, p) ==
  \/ \E job \in r.todo : job.prog = p
  \/ r.prog = p /\ r.pc \in {"watch", "seen"}
Readded(p) == \E t \in Helpers("reindex") : ReaddedBy(task[t], p)
Remains == \A p \in Programs : state[p] = "DONE" =>
             Somewhere(p) \/ p \in task[Ingestor].batch \/ Readded(p)
Ingested(r) ==
  /\ \A p \in r.good : Somewhere(p)
  /\ r.pc \in {"limit"} \cup Removing => There(r.prog, r.on)
Clearing ==
  \A t \in Helpers("reindex") : task[t].pc = "clear" =>
    \A p \in Programs : In(p, t[2]) => \E job \in task[t].todo : job.prog = p
Migrating(r) ==
  /\ \A job \in r.todo : There(job.prog, job.src)
  /\ r.pc \in Adding \cup {"limit"} \/ (r.pc \in Removing /\ r.why = "limit") => There(r.prog, r.src)
  /\ r.pc = "limit" \/ (r.pc \in Removing /\ r.why \in {"limit", "source"}) => There(r.prog, r.on)
  /\ r.pc \in {"look", "wipe"} /\ r.why = "source" => There(r.prog, r.src)
  /\ r.pc = "wiped" /\ r.why = "source" /\ r.at = Idle.at => Lost(r.prog)
  /\ r.pc \in Removing /\ r.why = "rollback" => Lost(r.prog)
Keep == Remains /\ Ingested(task[Ingestor]) /\ Clearing /\ Migrating(task[Selector])

KInv == Calm /\ crashes = 0 => Fresh /\ Tidy /\ Gone /\ Keep

(* The steps of one task, in these terms.                                  *)
LEMMA TidyStep ==
  ASSUME Tidy, NEW t \in Tasks, Others(t),
         task'[t].why # "none" => task'[t].pc \in Removing,
         t = Ingestor => \/ task'[t].pc \notin {"idle", "waiting"}
                         \/ task'[t].batch = {} /\ task'[t].good = {}
  PROVE  Tidy'
<1>1. ASSUME NEW u \in Tasks, task'[u].why # "none" PROVE task'[u].pc \in Removing
  BY <1>1 DEF Tidy, Others
<1>2. task'[Ingestor].pc \in {"idle", "waiting"} =>
        task'[Ingestor].batch = {} /\ task'[Ingestor].good = {}
  BY Kinds DEF Tidy, Others
<1> QED BY <1>1, <1>2 DEF Tidy

LEMMA OnwardTidy ==
  ASSUME NEW t, NEW s, NEW r, Limited(t, s, r)
  PROVE  /\ s.why # "none" => s.pc \in Removing
         /\ s.pc \notin {"idle", "waiting"} \/ (s.batch = {} /\ s.good = {})
  BY DEF Limited, Onward, Idled, Freed, Removing

LEMMA StepTidy ==
  ASSUME IInv, Turns, Tidy, NEW t \in Tasks,
         \/ Gather(t) \/ Clear(t) \/ Cleared(t) \/ Add(t) \/ Watch(t) \/ Exec(t) \/ Stored(t)
         \/ Limit(t) \/ Look(t) \/ Wipe(t) \/ Evicted(t) \/ Moved(t) \/ RolledBack(t)
  PROVE  Tidy'
<1> DEFINE r == task[t]  s == task'[t]
<1>1. Others(t)
  BY OthersRest
<1>2. r.why # "none" => r.pc \in Removing
  BY DEF Tidy
<1>3. /\ s.why # "none" => s.pc \in Removing
      /\ s.pc \notin {"idle", "waiting"} \/ (s.batch = {} /\ s.good = {})
  <2>1. CASE Gather(t)
    BY <1>2, <2>1, GatherGoes DEF Idled, SameOut, Removing
  <2>2. CASE Clear(t)
    BY <1>2, <2>2, ClearGoes DEF Freed, SameOut, Removing
  <2>3. CASE Cleared(t)
    BY <2>3, ClearedGoes DEF Freed
  <2>4. CASE Add(t)
    BY <1>2, <2>4, AddGoes DEF Freed, SameOut, Removing
  <2>5. CASE Watch(t)
    BY <1>2, <2>5, WatchGoes DEF SameOut, Removing
  <2>6. CASE Exec(t)
    BY <1>2, <2>6, ExecGoes DEF SameOut, Removing
  <2>7. CASE Stored(t)
    BY <1>2, <2>7, StoredGoes DEF Freed, SameOut, Removing
  <2>8. CASE Limit(t)
    BY <2>8, LimitGoes, OnwardTidy DEF Removing
  <2>9. CASE Look(t)
    BY <2>9, LookGoes DEF Removing
  <2>10. CASE Wipe(t)
    BY <2>10, WipeGoes DEF Removing
  <2>11. CASE Evicted(t)
    BY <2>11, EvictedGoes, OnwardTidy
  <2>12. CASE Moved(t)
    BY <2>12, MovedGoes DEF Freed, Removing
  <2>13. CASE RolledBack(t)
    BY <2>13, RolledBackGoes DEF Freed
  <2> QED BY <2>1, <2>2, <2>3, <2>4, <2>5, <2>6, <2>7, <2>8, <2>9, <2>10, <2>11, <2>12, <2>13
<1> QED BY <1>1, <1>3, TidyStep

LEMMA FinishTidy == ASSUME IInv, Tidy, NEW t \in Tasks, Finish(t) PROVE Tidy'
<1>1. CASE t = Ingestor
  <2>1. Others(t) /\ task'[t].pc = "verdict" /\ task'[t].why = task[t].why /\ task[t].pc = "next"
    BY <1>1, FinishGoes, Kinds DEF SameOut
  <2>2. task'[t].why = "none"
    BY <2>1 DEF Tidy, Removing
  <2> QED BY <2>1, <2>2, TidyStep
<1>2. CASE t = Selector
  <2>1. /\ task'[t] = [Idle EXCEPT !.pc = "waiting"]
        /\ \A v \in Tasks \ {t} :
                    task'[v] = IF v \in Helpers("enforce")
                               THEN [Idle EXCEPT !.pc = "limit", !.on = v[2]] ELSE task[v]
    BY <1>2, FinishGoes, Kinds
  <2>2. [Idle EXCEPT !.pc = "waiting"].why = "none"
    BY DEF Idle
  <2>3. \A u \in Tasks : [Idle EXCEPT !.pc = "limit", !.on = u[2]].why = "none"
    BY DEF Idle
  <2>4. \A u \in Tasks : task'[u] = task[u] \/ task'[u].why = "none"
    <3> SUFFICES ASSUME NEW u \in Tasks PROVE task'[u] = task[u] \/ task'[u].why = "none"
      OBVIOUS
    <3>1. CASE u = t
      BY <2>1, <2>2, <3>1
    <3>2. CASE u # t
      BY <2>1, <2>3, <3>2
    <3> QED BY <3>1, <3>2
  <2>5. task'[Ingestor] = task[Ingestor]
    BY <1>2, <2>1, Kinds
  <2> QED BY <2>4, <2>5 DEF Tidy
<1>3. CASE t \notin {Ingestor, Selector}
  <2>1. Others(t) /\ task'[t].why = "none"
    BY <1>3, FinishGoes DEF Idled
  <2> QED BY <1>3, <2>1, TidyStep
<1> QED BY <1>1, <1>2, <1>3

LEMMA CallersTidy ==
  ASSUME IInv, Tidy, Calling \/ StartMigration \/ StartReindex \/ \E B \in SUBSET Programs : Ingest(B)
  PROVE  Tidy'
<1>1. CASE Calling
  <2>1. CASE Verdict \/ ReindexEnds
    BY <2>1, VerdictGoes, ReindexEndsGoes, TidyStep, Kinds DEF Idled
  <2>2. CASE MigrationEnds
    BY <2>2, MigrationEndsGoes, TidyStep, Kinds DEF Idled
  <2> QED BY <1>1, <2>1, <2>2 DEF Calling
<1>2. CASE StartMigration
  BY <1>2, StartMigrationGoes, TidyStep, Kinds
<1>3. CASE \E B \in SUBSET Programs : Ingest(B)
  BY <1>3, IngestGoes, TidyStep, Kinds
<1>4. CASE StartReindex
  <2>1. /\ task'[Ingestor] = [Idle EXCEPT !.pc = "waiting"]
        /\ \A t \in Helpers("reindex") : task'[t] = [Idle EXCEPT !.pc = "gather", !.on = t[2]]
        /\ \A t \in Tasks : t = Ingestor \/ t \in Helpers("reindex") \/ task'[t] = task[t]
    BY <1>4, StartReindexGoes, Kinds
  <2>2. LET s == [Idle EXCEPT !.pc = "waiting"] IN s.why = "none" /\ s.batch = {} /\ s.good = {}
    BY DEF Idle
  <2>3. \A t \in Tasks : [Idle EXCEPT !.pc = "gather", !.on = t[2]].why = "none"
    BY DEF Idle
  <2>4. ASSUME NEW t \in Tasks PROVE task'[t] = task[t] \/ task'[t].why = "none"
    <3>1. CASE t = Ingestor
      BY <2>1, <2>2, <3>1
    <3>2. CASE t \in Helpers("reindex")
      BY <2>1, <2>3, <3>2
    <3> QED BY <2>1, <3>1, <3>2
  <2>5. task'[Ingestor].batch = {} /\ task'[Ingestor].good = {}
    BY <2>1, <2>2
  <2> QED BY <2>4, <2>5 DEF Tidy
<1> QED BY <1>1, <1>2, <1>3, <1>4

(* What is evicted had its home there, so it was in the archive before.    *)
LEMMA FreshStep ==
  ASSUME IInv, Fresh, \A p \in Programs : state'[p] = "NEW" => state[p] = "NEW",
         \A p \in Programs : home[p] = None => home'[p] = None /\ state'[p] = state[p],
         Narrowed(task'[Ingestor], task[Ingestor])
  PROVE  Fresh'
<1>1. task[Ingestor].pc \in Adding => task[Ingestor].prog \in Programs
  BY At, Kinds DEF Knows, Adding, Task
<1>2. \A job \in task[Ingestor].todo : job.prog \in Programs
  BY Job, Kinds
<1> QED BY <1>1, <1>2 DEF Fresh, Narrowed

LEMMA TameFresh ==
  ASSUME IInv, Turns, Jobbed, Evicting, Fresh, NEW t \in Tasks, Tame(t)
  PROVE  Fresh'
<1>1. Narrowed(task'[Ingestor], task[Ingestor])
  BY TameNarrow, Kinds
<1>2. CASE UNCHANGED <<state, home>>
  BY <1>1, <1>2, FreshStep
<1>3. CASE Evicted(t)
  <2>1. /\ task[t].pc = "wiped" /\ task[t].why = "limit"
        /\ \A p \in Programs : /\ state'[p] = IF p \in task[t].out THEN "DISCARDED" ELSE state[p]
                               /\ home'[p] = IF p \in task[t].out THEN None ELSE home[p]
    BY <1>3, EvictedGoes
  <2>2. \A p \in task[t].out : home[p] # None
    <3>1. task[t].on \in Islands
      BY <2>1, Targets DEF Working, Removing
    <3> QED BY <2>1, <3>1, IslandsAssumption DEF Evicting, Removing
  <2> QED BY <1>1, <2>1, <2>2, FreshStep
<1>4. CASE Stored(t)
  <2> DEFINE r == task[t]
  <2>1. r.pc = "stored" /\ UNCHANGED state /\ Own(t, r)
    BY <1>4, StoredGoes DEF Turns
  <2>2. CASE UNCHANGED home
    BY <1>2, <2>1, <2>2
  <2>3. CASE ~UNCHANGED home
    <3>1. /\ t \notin Helpers("reindex") /\ Others(t) /\ home' = [home EXCEPT ![r.prog] = r.on]
          /\ task'[t].pc = "limit" /\ task'[t].todo = r.todo
      BY <1>4, <2>3, StoredGoes DEF SameJob
    <3>2. state[r.prog] # "NEW" /\ r.prog \in Programs
      BY <2>1, Targets DEF Jobbed, Fed, Working, Adding
    <3>3. \A p \in Programs : p # r.prog => home'[p] = home[p]
      BY <3>1 DEF IInv, TypeOK
    <3>4. \A p \in Programs : state'[p] = "NEW" => home'[p] = None
      BY <2>1, <3>2, <3>3 DEF Fresh
    <3>5. \A job \in task[Ingestor].todo : job.prog \in Programs
      BY Job, Kinds
    <3>6. CASE t = Ingestor
      <4>1. \A job \in r.todo : job.prog # r.prog
        BY <2>1 DEF Own, Adding
      <4> QED BY <2>1, <3>1, <3>3, <3>4, <3>5, <3>6, <4>1 DEF Fresh, Adding
    <3>7. CASE t # Ingestor
      <4>1. task[Ingestor].pc \in {"idle", "waiting"} /\ task'[Ingestor] = task[Ingestor]
        BY <2>1, <3>1, <3>7, Company, Kinds DEF Others
      <4>2. task[Ingestor].todo = {}
        BY <4>1, Kinds DEF Turns, Own
      <4> QED BY <3>4, <4>1, <4>2 DEF Fresh, Adding
    <3> QED BY <3>6, <3>7
  <2> QED BY <2>2, <2>3
<1>5. CASE ~Evicted(t) /\ ~Stored(t)
  <2>1. UNCHANGED <<state, home>>
    BY <1>5, ClearGoes, ClearedGoes, WatchGoes, FinishGoes, LimitGoes, LookGoes, WipeGoes, MovedGoes,
       RolledBackGoes DEF Tame, blobs
  <2> QED BY <1>2, <2>1
<1> QED BY <1>3, <1>4, <1>5

LEMMA StepFresh ==
  ASSUME IInv, Turns, Fresh, NEW t \in Tasks, Gather(t) \/ Add(t) \/ Exec(t)
  PROVE  Fresh'
<1>1. UNCHANGED <<state, home>> /\ Others(t)
  BY GatherGoes, AddGoes, ExecGoes DEF blobs
<1>2. CASE t # Ingestor
  <2>1. task'[Ingestor] = task[Ingestor]
    BY <1>1, <1>2, Kinds DEF Others
  <2> QED BY <1>1, <2>1 DEF Fresh
<1>3. CASE t = Ingestor
  <2>1. ~Gather(t)
    BY <1>3, GatherGoes DEF Turns, Own
  <2>2. CASE Exec(t)
    <3>1. task[t].pc = "seen" /\ task'[t].todo = task[t].todo /\ task'[t].prog = task[t].prog
      BY <2>2, ExecGoes DEF SameJob
    <3> QED BY <1>1, <1>3, <3>1 DEF Fresh, Adding
  <2>3. CASE Add(t)
    <3>1. PICK job \in task[t].todo :
            /\ task'[t].todo = task[t].todo \ {job}
            /\ \/ task'[t].pc = "next"
               \/ task'[t].prog = job.prog
      BY <2>3, AddGoes DEF Freed
    <3> QED BY <1>1, <1>3, <3>1 DEF Fresh, Adding
  <2> QED BY <2>1, <2>2, <2>3
<1> QED BY <1>2, <1>3

LEMMA CallersFresh ==
  ASSUME IInv, Turns, Fresh, Calling \/ StartMigration \/ StartReindex
                             \/ \E B \in SUBSET Programs : Ingest(B)
  PROVE  Fresh'
<1>1. CASE \E B \in SUBSET Programs : Ingest(B)
  <2>1. PICK B \in SUBSET Programs : Ingest(B)
    BY <1>1
  <2>2. /\ UNCHANGED home /\ \A p \in B : state[p] = "NEW"
        /\ \A p \in Programs : state'[p] = IF p \in B THEN "DONE" ELSE state[p]
        /\ task'[Ingestor].pc = "next"
        /\ task'[Ingestor].todo = {[prog |-> p, src |-> None, cell |-> cell[p]] : p \in B}
    BY <2>1, IngestGoes
  <2>3. \A job \in task'[Ingestor].todo : home'[job.prog] = None /\ state'[job.prog] = "DONE"
    BY <2>2 DEF Fresh
  <2> QED BY <2>2, <2>3 DEF Fresh, Adding
<1>2. CASE StartMigration
  BY <1>2, StartMigrationGoes, Kinds DEF Fresh, Others, blobs
<1>3. CASE MigrationEnds
  BY <1>3, MigrationEndsGoes, Kinds DEF Fresh, Others, blobs
<1>4. CASE Verdict \/ ReindexEnds \/ StartReindex
  <2>1. /\ UNCHANGED home /\ \A p \in Programs : state'[p] = "NEW" => state[p] = "NEW"
        /\ task'[Ingestor].todo = {} /\ task'[Ingestor].pc \notin Adding
    <3>1. CASE Verdict
      BY <3>1, VerdictGoes DEF Idled, Adding
    <3>2. CASE ReindexEnds
      BY <3>2, ReindexEndsGoes DEF Idled, Adding, blobs
    <3>3. CASE StartReindex
      BY <3>3, StartReindexGoes, ReindexTasks, Kinds DEF Adding
    <3> QED BY <1>4, <3>1, <3>2, <3>3
  <2> QED BY <2>1 DEF Fresh
<1> QED BY <1>1, <1>2, <1>3, <1>4 DEF Calling

-----------------------------------------------------------------------------
(* What is discarded leaves the archive.                                   *)
LEMMA NoneLeaving ==
  ASSUME Left, task[Selector].pc \in {"idle", "waiting", "next", "watch", "seen", "verdict"}
  PROVE  \A p \in Programs, i \in Islands : state[p] = "DISCARDED" => ~In(p, i)
  BY DEF Left, Leaving, LeavesSource, LeavesTarget, Removing

LEMMA NoneLeft ==
  ASSUME \A p \in Programs, i \in Islands : state'[p] = "DISCARDED" => rev'[i][p] = None
  PROVE  Left'
  BY DEF Left, In

(* Those over the limit of an island were there only, but for a migrant    *)
(* that comes there and has not yet left its source.                       *)
LEMMA OverLimit ==
  ASSUME IInv, Turns, Mirror, Homed, NEW t \in Tasks, Evicted(t), NEW p \in task[t].out,
         NEW i \in Islands, In(p, i)
  PROVE  /\ t = Selector /\ p = task[t].prog /\ i = task[t].src
         /\ ~In(p, task[t].on)
<1> DEFINE r == task[t]
<1>1. r.pc = "wiped" /\ r.why = "limit" /\ Own(t, r) /\ p \in Programs
  BY EvictedGoes, At DEF Turns, Task
<1>2. PICK k \in Islands : k = r.on /\ k = Target(r)
  BY <1>1, Targets DEF Working, Removing, Target
<1>3. rev[k][p] = None
  BY <1>1, <1>2 DEF Mirror, Lag, LagWiped
<1>4. home[p] = k /\ i # k
  BY <1>1, <1>2, <1>3 DEF Homed, Evicting, Removing, In
<1>5. \E u \in {Ingestor, Selector} : AwayBy(task[u], p, i)
  BY <1>1, <1>4 DEF Homed, Housed, Away
<1>6. AwayBy(r, p, i) /\ t \in {Ingestor, Selector}
  BY <1>1, <1>5, OthersAway
<1>7. r.prog = p /\ r.src = i
  BY <1>1, <1>6 DEF AwayBy
<1>8. t = Selector
  BY <1>1, <1>6, <1>7, Kinds, IslandsAssumption DEF Own
<1> QED BY <1>2, <1>3, <1>7, <1>8 DEF In

(* What the engine rejects is in no archive.                               *)
LEMMA RejectedNowhere ==
  ASSUME IInv, Turns, Inverse, Mirror, Admitted, Verdict, NEW p \in Rejected, p \in Programs,
         NEW i \in Islands
  PROVE  ~In(p, i)
<1>1. task[Ingestor].pc = "verdict"
  BY VerdictGoes
<1>2. CASE engine = "generational"
  <2>1. p \notin Active
    BY <1>2 DEF Rejected
  <2>2. \A u \in Tasks : task[u].pc \notin Lagging
    BY <1>1, Kinds DEF Turns, Lagging
  <2>3. p \notin Cached(i)
    BY <2>1 DEF Active
  <2> QED BY <2>2, <2>3, AtRest, CachedIn
<1>3. CASE engine = "steady"
  <2>1. p \in task[Ingestor].batch /\ p \notin task[Ingestor].good
    BY <1>3 DEF Rejected
  <2> QED BY <1>1, <1>3, <2>1 DEF Admitted, Working, Adding, Removing
<1> QED BY <1>2, <1>3, IslandsAssumption DEF IInv, TypeOK

(* Facts about a migrant.                                                  *)
LEMMA Migrant ==
  ASSUME IInv, Turns, Sourced(task[Selector]), task[Selector].pc \in Working
  PROVE  LET r == task[Selector] IN
         /\ r.prog \in Programs /\ r.on \in Islands /\ r.src \in Islands /\ r.on # r.src
         /\ \A i \in Islands : In(r.prog, i) => i = r.src \/ i = r.on
         /\ Own(Selector, r)
<1> DEFINE r == task[Selector]
<1>1. r.prog \in Programs /\ r.on \in Islands /\ Own(Selector, r)
  BY SelectorProg, Targets, Kinds DEF Turns
<1>2. r.src # None /\ \A i \in Islands : In(r.prog, i) => i \in {r.src, r.on}
  BY DEF Sourced
<1>3. r.src \in Islands
  BY <1>2, At, Kinds DEF Task
<1> QED BY <1>1, <1>2, <1>3 DEF Own

(* A step of the selector that neither writes nor discards.                *)
LEMMA LeftStep ==
  ASSUME IInv, Turns, Left, Sourced(task[Selector]), UNCHANGED <<rev, state>>,
         task'[Selector].prog = task[Selector].prog, task'[Selector].src = task[Selector].src,
         task'[Selector].on = task[Selector].on, task[Selector].pc \in Working,
         LET r == task[Selector]  s == task'[Selector] IN
         /\ r.why = "source" /\ r.pc \in {"look", "wipe"} /\ In(r.prog, r.src) /\ ~In(r.prog, r.on) =>
              s.why = "source" /\ s.pc \in {"look", "wipe"}
         /\ In(r.prog, r.on) /\ LeavesTarget(r, r.prog, r.on) =>
              \/ s.pc \in {"stored", "limit"}
              \/ s.pc \in Removing /\ s.why = "limit"
              \/ s.pc = "look" /\ s.why = "source"
              \/ s.pc = "wiped" /\ s.why = "source" /\ s.at = Idle.at
              \/ s.pc \in {"look", "wipe"} /\ s.why = "rollback"
  PROVE  Left'
<1> DEFINE r == task[Selector]  s == task'[Selector]
<1>1. /\ r.prog \in Programs /\ r.on \in Islands /\ r.src \in Islands /\ r.on # r.src
      /\ \A i \in Islands : In(r.prog, i) => i = r.src \/ i = r.on
  BY Migrant
<1> SUFFICES ASSUME NEW p \in Programs, NEW i \in Islands, state[p] = "DISCARDED", rev[i][p] # None
             PROVE  Leaving(task[Selector], p, i)'
  BY DEF Left, In
<1>2. p = r.prog /\ (LeavesSource(r, p, i) \/ LeavesTarget(r, p, i)) /\ In(p, i)
  BY DEF Left, Leaving, In
<1>3. CASE LeavesSource(r, p, i)
  <2>1. s.why = "source" /\ s.pc \in {"look", "wipe"} /\ i = r.src /\ rev[r.on][p] = None
    BY <1>2, <1>3 DEF LeavesSource, In
  <2> QED BY <1>2, <2>1 DEF Leaving, LeavesSource, In
<1>4. CASE LeavesTarget(r, p, i)
  <2>1. i = r.on /\ rev[r.src][p] = None
    BY <1>4 DEF LeavesTarget, In
  <2>2. \/ s.pc \in {"stored", "limit"}
        \/ s.pc \in Removing /\ s.why = "limit"
        \/ s.pc = "look" /\ s.why = "source"
        \/ s.pc = "wiped" /\ s.why = "source" /\ s.at = Idle.at
        \/ s.pc \in {"look", "wipe"} /\ s.why = "rollback"
    BY <1>2, <1>4, <2>1
  <2>3. LeavesTarget(task[Selector], p, i)'
    BY <1>2, <2>1, <2>2 DEF LeavesTarget, In
  <2> QED BY <1>2, <2>3 DEF Leaving
<1> QED BY <1>2, <1>3, <1>4

(* The steps of the selector.                                              *)
LEMMA LimitLeft ==
  ASSUME IInv, Turns, Left, Sourced(task[Selector]), Stored(Selector) \/ Limit(Selector)
  PROVE  Left'
<1> DEFINE r == task[Selector]  s == task'[Selector]
<1>1. /\ r.pc \in {"stored", "limit"} /\ UNCHANGED <<rev, state>>
      /\ \/ s.pc = "limit" /\ SameJob(s, r)
         \/ Limited(Selector, s, r)
         \/ s.pc = "look" /\ SameJob(s, r) /\ s.why = "limit"
  BY StoredGoes, LimitGoes, Kinds DEF redis, blobs
<1>2. r.src \in Islands /\ r.pc \in Working
  BY <1>1, Migrant DEF Working, Adding
<1>3. /\ SameJob(s, r)
      /\ s.pc = "limit" \/ (s.pc = "look" /\ s.why \in {"source", "limit"})
  BY <1>1, <1>2, Kinds, IslandsAssumption DEF Limited, Onward
<1> QED BY <1>1, <1>2, <1>3, LeftStep, Kinds DEF SameJob, Removing

LEMMA LookLeft ==
  ASSUME IInv, Turns, Left, Sourced(task[Selector]), Look(Selector)
  PROVE  Left'
<1> DEFINE r == task[Selector]  s == task'[Selector]
<1>1. /\ r.pc = "look" /\ UNCHANGED <<rev, state>>
      /\ s.at = [p \in Programs |-> IF p \in r.out THEN rev[Target(r)][p] ELSE None]
      /\ s.pc = IF s.at = Idle.at THEN "wiped" ELSE "wipe"
      /\ SameJob(s, r) /\ s.why = r.why
  BY LookGoes, Kinds DEF redis, blobs
<1>2. /\ r.prog \in Programs /\ r.src \in Islands /\ Own(Selector, r) /\ r.pc \in Working
  BY <1>1, Migrant DEF Working, Removing
<1>3. r.why # "limit" => r.out = {r.prog}
  BY <1>1, <1>2 DEF Own, Removing
<1>4. r.why # "limit" => s.at[r.prog] = rev[Target(r)][r.prog]
  BY <1>1, <1>2, <1>3
<1>5. r.why # "limit" /\ In(r.prog, Target(r)) => s.pc = "wipe"
  BY <1>1, <1>2, <1>4 DEF Idle, In
<1>6. r.why = "source" => Target(r) = r.src
  BY DEF Target
<1>7. r.why = "rollback" => Target(r) = r.on
  BY DEF Target
<1>8. ASSUME r.why = "source", ~In(r.prog, r.src) PROVE s.pc = "wiped" /\ s.at = Idle.at
  <2>1. \A p \in Programs : s.at[p] = None
    BY <1>1, <1>3, <1>6, <1>8 DEF In
  <2>2. s.at = Idle.at
    BY <1>1, <2>1 DEF Idle
  <2> QED BY <1>1, <2>2
<1>9. s.pc \in Removing
  BY <1>1 DEF Removing
<1>10. /\ r.why = "source" /\ r.pc \in {"look", "wipe"} /\ In(r.prog, r.src) =>
            s.why = "source" /\ s.pc = "wipe"
       /\ In(r.prog, r.on) /\ LeavesTarget(r, r.prog, r.on) =>
              \/ s.pc \in Removing /\ s.why = "limit"
              \/ s.pc = "wiped" /\ s.why = "source" /\ s.at = Idle.at
              \/ s.pc \in {"look", "wipe"} /\ s.why = "rollback"
  BY <1>1, <1>5, <1>6, <1>7, <1>8, <1>9 DEF LeavesTarget
<1> QED BY <1>1, <1>2, <1>10, LeftStep DEF SameJob

LEMMA WipeLeft ==
  ASSUME IInv, Turns, Mirror, Left, Sourced(task[Selector]), Wipe(Selector)
  PROVE  Left'
<1> DEFINE r == task[Selector]  s == task'[Selector]
<1>1. /\ r.pc = "wipe" /\ UNCHANGED state /\ SameJob(s, r) /\ s.pc = "wiped" /\ s.why = r.why
  BY WipeGoes, Kinds DEF blobs, SameOut
<1>2. \A i \in Islands, p \in Programs :
        rev'[i][p] = IF i = Target(r) /\ p \in r.out THEN None ELSE rev[i][p]
  BY WipeEffect, Kinds
<1>3. /\ r.prog \in Programs /\ r.src \in Islands /\ r.on \in Islands /\ r.on # r.src
      /\ Own(Selector, r) /\ r.pc \in Working
  BY <1>1, Migrant DEF Working, Removing
<1> SUFFICES ASSUME NEW p \in Programs, NEW i \in Islands, state[p] = "DISCARDED", rev'[i][p] # None
             PROVE  Leaving(task[Selector], p, i)'
  BY <1>1 DEF Left, In
<1>4. In(p, i) /\ rev'[i][p] = rev[i][p] /\ ~(i = Target(r) /\ p \in r.out)
  BY <1>2 DEF In
<1>5. p = r.prog /\ (LeavesSource(r, p, i) \/ LeavesTarget(r, p, i))
  BY <1>4 DEF Left, Leaving
<1>6. r.why = "limit"
  <2> SUFFICES ASSUME r.why # "limit" PROVE FALSE
    OBVIOUS
  <2>1. r.out = {p}
    BY <1>1, <1>3, <1>5 DEF Own, Removing
  <2>2. i # Target(r)
    BY <1>4, <2>1
  <2>3. CASE LeavesSource(r, p, i)
    BY <2>2, <2>3 DEF LeavesSource, Target
  <2>4. CASE LeavesTarget(r, p, i)
    BY <1>1, <2>2, <2>4 DEF LeavesTarget, Target
  <2> QED BY <1>5, <2>3, <2>4
<1>7. i = r.on /\ rev[r.src][p] = None
  BY <1>5, <1>6 DEF LeavesSource, LeavesTarget, In
<1>8. rev'[r.src][p] = None
  BY <1>2, <1>3, <1>7
<1>9. LeavesTarget(task[Selector], p, i)'
  BY <1>1, <1>6, <1>7, <1>8 DEF LeavesTarget, In, SameJob, Removing
<1> QED BY <1>1, <1>5, <1>9 DEF Leaving, SameJob

LEMMA EvictedLeft ==
  ASSUME IInv, Turns, Mirror, Homed, Left, Evicted(Selector)
  PROVE  Left'
<1> DEFINE r == task[Selector]  s == task'[Selector]
<1>1. /\ r.pc = "wiped" /\ r.why = "limit" /\ UNCHANGED rev /\ Limited(Selector, s, r)
      /\ \A p \in Programs : state'[p] = IF p \in r.out THEN "DISCARDED" ELSE state[p]
  BY EvictedGoes, Kinds DEF redis
<1>2. Sourced(r) /\ r.pc \in Working
  BY <1>1 DEF Homed, Working, Removing
<1>3. r.src \in Islands
  BY <1>2, Migrant
<1>4. s.pc = "look" /\ s.why = "source" /\ SameJob(s, r)
  BY <1>1, <1>3, Kinds, IslandsAssumption DEF Limited, Onward
<1> SUFFICES ASSUME NEW p \in Programs, NEW i \in Islands, state'[p] = "DISCARDED", rev[i][p] # None
             PROVE  Leaving(task[Selector], p, i)'
  BY <1>1 DEF Left, In
<1>5. CASE p \in r.out
  <2>1. p = r.prog /\ i = r.src /\ rev[r.on][p] = None
    BY <1>5, OverLimit, Kinds DEF In
  <2> QED BY <1>1, <1>4, <2>1 DEF Leaving, LeavesSource, In, SameJob
<1>6. CASE p \notin r.out
  <2>1. p = r.prog /\ (LeavesSource(r, p, i) \/ LeavesTarget(r, p, i))
    BY <1>1, <1>6 DEF Left, Leaving, In
  <2>2. i = r.on /\ rev[r.src][p] = None
    BY <1>1, <2>1 DEF LeavesSource, LeavesTarget, In
  <2>3. LeavesTarget(task[Selector], p, i)'
    BY <1>1, <1>4, <2>2 DEF LeavesTarget, In, SameJob
  <2> QED BY <1>4, <2>1, <2>3 DEF Leaving, SameJob
<1> QED BY <1>5, <1>6

LEMMA SettledLeft ==
  ASSUME IInv, Turns, Left, Sourced(task[Selector]), Moved(Selector) \/ RolledBack(Selector)
  PROVE  Left'
<1> DEFINE r == task[Selector]  s == task'[Selector]
<1>1. /\ r.pc = "wiped" /\ UNCHANGED <<rev, state>> /\ r.why \in {"source", "rollback"}
      /\ r.why = "source" /\ r.at = Idle.at => s.pc = "look" /\ s.why = "rollback" /\ SameJob(s, r)
  BY MovedGoes, RolledBackGoes, Kinds DEF redis, blobs
<1>2. CASE r.why = "source" /\ r.at = Idle.at
  BY <1>1, <1>2, LeftStep DEF SameJob, Working, Removing
<1>3. CASE ~(r.why = "source" /\ r.at = Idle.at)
  <2>1. \A p \in Programs, i \in Islands : state[p] = "DISCARDED" => ~In(p, i)
    BY <1>1, <1>3 DEF Left, Leaving, LeavesSource, LeavesTarget
  <2> QED BY <1>1, <2>1, NoneLeft DEF In
<1> QED BY <1>2, <1>3

LEMMA ExecLeft ==
  ASSUME IInv, Turns, Homed, Fresh, Readds, Left, NEW t \in Tasks, Exec(t)
  PROVE  Left'
<1> DEFINE r == task[t]
<1>1. /\ r.pc = "seen" /\ UNCHANGED state /\ task'[t].pc = "stored" /\ SameJob(task'[t], r)
      /\ Own(t, r) /\ Others(t)
  BY ExecGoes DEF Turns, blobs
<1>2. \A p \in Programs, i \in Islands :
        rev'[i][p] # None => In(p, i) \/ (p = r.prog /\ i = r.on)
  BY ExecEffect DEF In
<1>3. \A p \in Programs, i \in Islands : state[p] = "DISCARDED" => ~In(p, i)
  <2>1. t # Selector => task[Selector].pc \in {"idle", "waiting"}
    <3>1. t \notin Helpers("enforce")
      BY <1>1 DEF Own, Removing
    <3> QED BY <1>1, <3>1, Company, Kinds
  <2> QED BY <1>1, <2>1, NoneLeaving
<1>4. CASE t = Selector
  <2>1. r.on \in Islands /\ r.src \in Islands /\ r.on # r.src /\ r.prog \in Programs
    BY <1>1, <1>4, Migrant DEF Homed, Working, Adding
  <2> SUFFICES ASSUME NEW p \in Programs, NEW i \in Islands, state[p] = "DISCARDED", rev'[i][p] # None
               PROVE  Leaving(task[Selector], p, i)'
    BY <1>1 DEF Left, In
  <2>2. p = r.prog /\ i = r.on /\ rev'[r.src][p] = None
    BY <1>2, <1>3, <2>1
  <2>3. LeavesTarget(task[Selector], p, i)'
    BY <1>1, <1>4, <2>2 DEF LeavesTarget, In, SameJob
  <2> QED BY <1>1, <1>4, <2>2, <2>3 DEF Leaving, SameJob
<1>5. CASE t # Selector
  <2>1. state[r.prog] # "DISCARDED"
    <3>1. t \notin Helpers("enforce")
      BY <1>1 DEF Own, Removing
    <3>2. CASE t = Ingestor
      BY <1>1, <3>2 DEF Fresh, Adding
    <3>3. CASE t \in Helpers("reindex")
      BY <1>1, <3>3 DEF Readds, Adding
    <3> QED BY <1>5, <3>1, <3>2, <3>3, Kinds
  <2> QED BY <1>1, <1>2, <1>3, <2>1, NoneLeft
<1> QED BY <1>4, <1>5

LEMMA OthersLeft ==
  ASSUME IInv, Turns, Mirror, Homed, Left, NEW t \in Tasks, t # Selector,
         Tame(t) \/ Gather(t) \/ Add(t)
  PROVE  Left'
<1>1. task[t].pc \notin {"idle", "waiting"}
  BY ZenonT(30) DEF Tame, Clear, Cleared, Watch, Stored, Finish, Limit, Look, Wipe, Evicted, Moved, RolledBack,
         Gather, Add
<1>2. task[Selector].pc \in {"idle", "waiting"}
  BY <1>1, Company, Kinds
<1>3. \A p \in Programs, i \in Islands : state[p] = "DISCARDED" => ~In(p, i)
  BY <1>2, NoneLeaving
<1>4. \A p \in Programs, i \in Islands : rev'[i][p] \in {None, rev[i][p]}
  <2>1. CASE Tame(t)
    BY <2>1, TameCalmer DEF Calmer
  <2>2. CASE Gather(t) \/ Add(t)
    BY <2>2, GatherGoes, AddGoes DEF redis
  <2> QED BY <2>1, <2>2
<1>5. CASE Evicted(t)
  <2>1. /\ UNCHANGED rev
        /\ \A p \in Programs : state'[p] = IF p \in task[t].out THEN "DISCARDED" ELSE state[p]
    BY <1>5, EvictedGoes DEF redis
  <2>2. \A p \in task[t].out, i \in Islands : ~In(p, i)
    BY <1>5, OverLimit
  <2> QED BY <1>3, <2>1, <2>2, NoneLeft DEF In
<1>6. CASE ~Evicted(t)
  <2>1. UNCHANGED state
    BY <1>6, ClearGoes, ClearedGoes, WatchGoes, StoredGoes, FinishGoes, LimitGoes, LookGoes, WipeGoes,
       MovedGoes, RolledBackGoes, GatherGoes, AddGoes DEF Tame, blobs
  <2> QED BY <1>3, <1>4, <2>1, NoneLeft DEF In
<1> QED BY <1>5, <1>6

LEMMA TameLeft ==
  ASSUME IInv, Turns, Mirror, Homed, Left, NEW t \in Tasks, Tame(t) \/ Gather(t) \/ Add(t)
  PROVE  Left'
<1>1. CASE t # Selector
  BY <1>1, OthersLeft
<1>2. CASE t = Selector
  <2>1. ~Gather(t) /\ ~Clear(t) /\ ~Cleared(t)
    BY <1>2 DEF Turns, Own, Gather, Clear, Cleared
  <2>2. CASE Add(t) \/ Watch(t) \/ Finish(t)
    <3>1. task[Selector].pc \in {"next", "watch"} /\ UNCHANGED <<rev, state>>
      BY <1>2, <2>2, AddGoes, WatchGoes, FinishGoes DEF redis, blobs
    <3>2. \A p \in Programs, i \in Islands : state[p] = "DISCARDED" => ~In(p, i)
      BY <3>1, NoneLeaving
    <3> QED BY <3>1, <3>2, NoneLeft DEF In
  <2>3. Sourced(task[Selector])
    BY DEF Homed
  <2> QED BY <1>2, <2>1, <2>2, <2>3, LimitLeft, LookLeft, WipeLeft, EvictedLeft, SettledLeft DEF Tame
<1> QED BY <1>1, <1>2

LEMMA CallersLeft ==
  ASSUME IInv, Turns, Inverse, Mirror, Admitted, Left,
         Calling \/ StartMigration \/ StartReindex \/ \E B \in SUBSET Programs : Ingest(B)
  PROVE  Left'
<1>1. UNCHANGED rev
  BY VerdictGoes, MigrationEndsGoes, ReindexEndsGoes, StartMigrationGoes, IngestGoes, StartReindexGoes
     DEF redis, Calling
<1>2. CASE \E B \in SUBSET Programs : Ingest(B)
  <2>1. /\ \A p \in Programs : state'[p] = "DISCARDED" => state[p] = "DISCARDED"
        /\ task'[Selector] = task[Selector]
    BY <1>2, IngestGoes, Kinds DEF Others
  <2> QED BY <1>1, <2>1 DEF Left, Leaving, LeavesSource, LeavesTarget, In
<1>3. CASE ~\E B \in SUBSET Programs : Ingest(B)
  <2>1. task[Selector].pc \in {"idle", "waiting"}
    <3>1. CASE Verdict \/ ReindexEnds
      BY <3>1, VerdictGoes, ReindexEndsGoes DEF Turns
    <3>2. CASE MigrationEnds \/ StartMigration \/ StartReindex
      BY <3>2, MigrationEndsGoes, StartMigrationGoes, StartReindexGoes, Kinds
    <3> QED BY <1>3, <3>1, <3>2 DEF Calling
  <2>2. \A p \in Programs, i \in Islands : state[p] = "DISCARDED" => ~In(p, i)
    BY <2>1, NoneLeaving
  <2>3. CASE Verdict
    <3>1. \A p \in Programs : state'[p] = "DISCARDED" => state[p] = "DISCARDED" \/ p \in Rejected
      BY <2>3, VerdictGoes
    <3> QED BY <1>1, <2>2, <2>3, <3>1, RejectedNowhere, NoneLeft DEF In
  <2>4. CASE ~Verdict
    <3>1. UNCHANGED state
      BY <1>3, <2>4, MigrationEndsGoes, ReindexEndsGoes, StartMigrationGoes, StartReindexGoes
         DEF blobs, Calling
    <3> QED BY <1>1, <2>2, <3>1, NoneLeft DEF In
  <2> QED BY <2>3, <2>4
<1> QED BY <1>2, <1>3

(* What a re-indexing adds again is not discarded meanwhile.               *)
LEMMA ReindexAlone ==
  ASSUME Turns, NEW u \in Helpers("reindex"), task[u].pc # "idle"
  PROVE  /\ task[Ingestor].pc = "waiting" /\ task[Selector].pc = "idle"
         /\ \A v \in Helpers("enforce") : task[v].pc = "idle"
         /\ \A t \in Tasks : task[t].pc \notin {"idle", "waiting"} => t \in Helpers("reindex")
<1>1. task[Ingestor].pc = "waiting" /\ task[Selector].pc = "idle"
  BY Kinds DEF Turns
<1>2. \A v \in Helpers("enforce") : task[v].pc = "idle"
  BY <1>1 DEF Turns
<1> QED BY <1>1, <1>2, Kinds

LEMMA Reindexing ==
  ASSUME Turns, NEW u \in Helpers("reindex"), task[u].todo # {} \/ task[u].pc \in Adding
  PROVE  task[u].pc # "idle"
  BY Kinds DEF Turns, Own, Adding

LEMMA ReaddsStep ==
  ASSUME IInv, Readds, NEW u \in Helpers("reindex"), Narrowed(task'[u], task[u]),
         \A p \in Programs : state'[p] = "DISCARDED" => state[p] = "DISCARDED"
  PROVE  /\ \A job \in task'[u].todo : state'[job.prog] # "DISCARDED"
         /\ task'[u].pc \in Adding => state'[task'[u].prog] # "DISCARDED"
<1>1. task[u].pc \in Adding => task[u].prog \in Programs
  BY At, Kinds DEF Knows, Adding, Task
<1>2. \A job \in task[u].todo : job.prog \in Programs
  BY Job, Kinds
<1> QED BY <1>1, <1>2 DEF Readds, Narrowed

LEMMA TameReadds ==
  ASSUME IInv, Turns, Readds, NEW t \in Tasks, Tame(t)
  PROVE  Readds'
<1> SUFFICES ASSUME NEW u \in Helpers("reindex")
             PROVE  /\ \A job \in task'[u].todo : state'[job.prog] # "DISCARDED"
                    /\ task'[u].pc \in Adding => state'[task'[u].prog] # "DISCARDED"
  BY DEF Readds
<1>1. Narrowed(task'[u], task[u])
  BY TameNarrow, Kinds
<1>2. CASE ~Evicted(t)
  <2>1. UNCHANGED state
    BY <1>2, ClearGoes, ClearedGoes, WatchGoes, StoredGoes, FinishGoes, LimitGoes, LookGoes, WipeGoes,
       MovedGoes, RolledBackGoes DEF Tame, blobs
  <2> QED BY <1>1, <2>1, ReaddsStep
<1>3. CASE Evicted(t)
  <2>1. t \notin Helpers("reindex") /\ task[t].pc \notin {"idle", "waiting"}
    BY <1>3, EvictedGoes DEF Turns, Own, Adding
  <2>2. task[u].todo = {} /\ task[u].pc \notin Adding
    BY <2>1, ReindexAlone, Reindexing
  <2> QED BY <1>1, <2>2 DEF Narrowed
<1> QED BY <1>2, <1>3

LEMMA StepReadds ==
  ASSUME IInv, Turns, Inverse, Mirror, Left, Readds, NEW t \in Tasks, Gather(t) \/ Add(t) \/ Exec(t)
  PROVE  Readds'
<1>1. UNCHANGED state /\ Others(t)
  BY GatherGoes, AddGoes, ExecGoes DEF blobs
<1> SUFFICES ASSUME t \in Helpers("reindex")
             PROVE  /\ \A job \in task'[t].todo : state[job.prog] # "DISCARDED"
                    /\ task'[t].pc \in Adding => state[task'[t].prog] # "DISCARDED"
  BY <1>1, Kinds DEF Readds, Others
<1>2. CASE Gather(t)
  <2>1. PICK i \in Islands : i = task[t].on /\ Mirrored(i)
    BY <1>2, GatherGoes, Targets, NotLagging DEF Working, Removing, Lagging
  <2>2. \/ task'[t].pc = "idle" /\ task'[t].todo = {}
        \/ /\ task'[t].pc = "clear"
           /\ task'[t].todo = {[prog |-> p, src |-> None, cell |-> cell[p]] : p \in Cached(i)}
    BY <1>2, <2>1, GatherGoes DEF Idled
  <2>3. task[Selector].pc = "idle"
    BY <1>2, GatherGoes, ReindexAlone
  <2>4. \A p \in Cached(i) : state[p] # "DISCARDED"
    BY <2>1, <2>3, NoneLeaving, CachedIn, CachedPrograms DEF IInv
  <2>5. \A job \in task'[t].todo : state[job.prog] # "DISCARDED"
    BY <2>2, <2>4
  <2> QED BY <2>2, <2>5 DEF Adding
<1>3. CASE Add(t)
  <2>1. PICK job \in task[t].todo :
          /\ task'[t].todo = task[t].todo \ {job}
          /\ \/ task'[t].pc = "next"
             \/ task'[t].prog = job.prog
    BY <1>3, AddGoes DEF Freed
  <2> QED BY <2>1 DEF Readds, Adding
<1>4. CASE Exec(t)
  <2>1. task[t].pc = "seen" /\ task'[t].todo = task[t].todo /\ task'[t].prog = task[t].prog
    BY <1>4, ExecGoes DEF SameJob
  <2> QED BY <2>1 DEF Readds, Adding
<1> QED BY <1>2, <1>3, <1>4

LEMMA CallersReadds ==
  ASSUME IInv, Turns, Readds, Calling \/ StartMigration \/ StartReindex
                              \/ \E B \in SUBSET Programs : Ingest(B)
  PROVE  Readds'
<1>1. CASE StartReindex
  <2>1. \A u \in Helpers("reindex") : task'[u].todo = {} /\ task'[u].pc = "gather"
    BY <1>1, ReindexTasks, Kinds
  <2> QED BY <2>1 DEF Readds, Adding
<1>2. CASE Verdict
  <2>1. \A u \in Helpers("reindex") : task'[u] = task[u] /\ task[u].pc = "idle"
    BY <1>2, VerdictGoes, ReindexAlone, Kinds DEF Others
  <2>2. \A u \in Helpers("reindex") : task[u].todo = {} /\ task[u].pc \notin Adding
    BY <2>1, Reindexing
  <2> QED BY <2>1, <2>2 DEF Readds
<1>3. CASE ~StartReindex /\ ~Verdict
  <2>1. \A u \in Helpers("reindex") : task'[u] = task[u]
    BY <1>3, MigrationEndsGoes, ReindexEndsGoes, StartMigrationGoes, IngestGoes, Kinds
       DEF Calling, Others
  <2>2. \A p \in Programs : state'[p] = "DISCARDED" => state[p] = "DISCARDED"
    BY <1>3, MigrationEndsGoes, ReindexEndsGoes, StartMigrationGoes, IngestGoes DEF Calling, blobs
  <2>3. \A u \in Helpers("reindex") : Narrowed(task'[u], task[u])
    BY <2>1, NarrowSame
  <2> QED BY <2>2, <2>3, ReaddsStep DEF Readds
<1> QED BY <1>1, <1>2, <1>3

(* The steady-state engine is told of every program that is admitted.      *)
LEMMA AdmittedStep ==
  ASSUME IInv, Admitted, UNCHANGED engine,
         \A p \in Programs, i \in Islands : rev'[i][p] \in {None, rev[i][p]},
         LET r == task[Ingestor]  s == task'[Ingestor] IN
         \/ s.batch = {}
         \/ s.batch = r.batch /\ s.good = r.good /\ s.prog = r.prog /\ (r.pc \in Working => s.pc \in Working)
         \/ s.batch = r.batch /\ r.good \subseteq s.good /\ (engine = "steady" => r.prog \in s.good)
         \/ s.batch = r.batch /\ s.good = r.good /\ r.pc \notin Working
  PROVE  Admitted'
<1> DEFINE r == task[Ingestor]  s == task'[Ingestor]
<1> SUFFICES ASSUME engine = "steady", NEW p \in s.batch, NEW i \in Islands, rev'[i][p] # None
             PROVE  p \in s.good \/ (s.prog = p /\ s.pc \in Working)
  BY DEF Admitted, In
<1>1. s.batch = r.batch
  OBVIOUS
<1>2. p \in Programs
  BY <1>1, At, Kinds DEF Task
<1>3. In(p, i)
  BY <1>2 DEF In
<1>4. p \in r.good \/ (r.prog = p /\ r.pc \in Working)
  BY <1>1, <1>3 DEF Admitted
<1> QED BY <1>1, <1>4

LEMMA SameAdmitted ==
  ASSUME IInv, Admitted, UNCHANGED engine, task'[Ingestor] = task[Ingestor],
         \A p \in Programs, i \in Islands : rev'[i][p] \in {None, rev[i][p]}
  PROVE  Admitted'
  BY AdmittedStep

LEMMA TameAdmitted ==
  ASSUME IInv, Turns, Mirror, Admitted, NEW t \in Tasks, Tame(t) \/ Gather(t) \/ Add(t)
  PROVE  Admitted'
<1> DEFINE r == task[Ingestor]  s == task'[Ingestor]
<1>1. \A p \in Programs, i \in Islands : rev'[i][p] \in {None, rev[i][p]}
  <2>1. CASE Tame(t)
    BY <2>1, TameCalmer DEF Calmer
  <2>2. CASE Gather(t) \/ Add(t)
    BY <2>2, GatherGoes, AddGoes DEF redis
  <2> QED BY <2>1, <2>2
<1>2. UNCHANGED engine
  BY ClearGoes, ClearedGoes, WatchGoes, StoredGoes, FinishGoes, LimitGoes, LookGoes, WipeGoes,
     EvictedGoes, MovedGoes, RolledBackGoes, GatherGoes, AddGoes DEF Tame, counts
<1>3. CASE t # Ingestor
  <2>1. Step(t) /\ ~Refuse(t) /\ ~Retry(t)
    <3>1. CASE Tame(t)
      BY <3>1, TameStep
    <3>2. CASE Gather(t) \/ Add(t)
      BY ZenonT(30), <3>2 DEF Step, Gather, Add, Refuse, Retry
    <3> QED BY <3>1, <3>2
  <2> QED BY <1>1, <1>2, <1>3, <2>1, Elsewhere, SameAdmitted
<1>4. CASE t = Ingestor
  <2>1. ~Gather(t) /\ ~Clear(t) /\ ~Cleared(t)
    BY <1>4 DEF Turns, Own, Gather, Clear, Cleared
  <2>2. ~Moved(t) /\ ~RolledBack(t)
    BY <1>4, Migrants, Kinds DEF Moved, RolledBack, Removing
  <2>3. CASE Limited(t, s, r) /\ r.pc \in {"limit", "wiped"}
    <3>1. r.src = None
      BY Kinds DEF Turns, Own
    <3>2. s.batch = r.batch /\ s.good = IF engine = "steady" THEN r.good \cup {r.prog} ELSE r.good
      BY <1>4, <2>3, <3>1, Kinds DEF Limited, Onward, Freed
    <3>3. engine # "steady" => Admitted'
      BY <1>2 DEF Admitted
    <3> QED BY <1>1, <1>2, <3>2, <3>3, AdmittedStep
  <2>4. CASE SameJob(s, r) /\ s.pc \in Working
    BY <1>1, <1>2, <2>4, AdmittedStep DEF SameJob
  <2>5. CASE s.batch = r.batch /\ s.good = r.good /\ r.pc = "next"
    BY <1>1, <1>2, <2>5, AdmittedStep DEF Working, Adding, Removing
  <2>6. \/ Limited(t, s, r) /\ r.pc \in {"limit", "wiped"}
        \/ SameJob(s, r) /\ s.pc \in Working
        \/ s.batch = r.batch /\ s.good = r.good /\ r.pc = "next"
    <3>1. CASE Add(t)
      BY <1>4, <3>1, AddGoes DEF Freed
    <3>2. CASE Watch(t)
      BY <1>4, <3>2, WatchGoes DEF Working, Adding
    <3>3. CASE Stored(t)
      BY <1>4, <3>3, StoredGoes, Kinds DEF Working
    <3>4. CASE Finish(t)
      BY <1>4, <3>4, FinishGoes, Kinds DEF SameJob
    <3>5. CASE Limit(t)
      BY <1>4, <3>5, LimitGoes DEF Working, Removing
    <3>6. CASE Look(t)
      BY <1>4, <3>6, LookGoes DEF Working, Removing
    <3>7. CASE Wipe(t)
      BY <1>4, <3>7, WipeGoes DEF Working, Removing
    <3>8. CASE Evicted(t)
      BY <1>4, <3>8, EvictedGoes
    <3> QED BY <2>1, <2>2, <3>1, <3>2, <3>3, <3>4, <3>5, <3>6, <3>7, <3>8 DEF Tame
  <2> QED BY <2>3, <2>4, <2>5, <2>6
<1> QED BY <1>3, <1>4

LEMMA ExecAdmitted ==
  ASSUME IInv, Turns, Tidy, Admitted, NEW t \in Tasks, Exec(t)
  PROVE  Admitted'
<1> DEFINE r == task[t]
<1>1. /\ r.pc = "seen" /\ Others(t) /\ UNCHANGED engine /\ Own(t, r)
      /\ task'[t].pc = "stored" /\ SameJob(task'[t], r)
  BY ExecGoes DEF counts, Turns
<1>2. CASE t = Ingestor
  <2>1. \A p \in Programs, i \in Islands : rev'[i][p] # None => In(p, i) \/ p = r.prog
    BY ExecEffect DEF In
  <2>2. r.batch \subseteq Programs
    BY At DEF Task
  <2> QED BY <1>1, <1>2, <2>1, <2>2 DEF Admitted, In, SameJob, Working, Adding
<1>3. CASE t # Ingestor
  <2>1. t \notin Helpers("enforce")
    BY <1>1 DEF Own, Removing
  <2>2. task[Ingestor].pc \in {"idle", "waiting"} /\ task'[Ingestor] = task[Ingestor]
    BY <1>1, <1>3, <2>1, Company, Kinds DEF Others
  <2>3. task'[Ingestor].batch = {}
    BY <2>2 DEF Tidy
  <2> QED BY <2>3 DEF Admitted
<1> QED BY <1>2, <1>3

LEMMA CallersAdmitted ==
  ASSUME IInv, Turns, New, Admitted, Calling \/ StartMigration \/ StartReindex
                                \/ \E B \in SUBSET Programs : Ingest(B)
  PROVE  Admitted'
<1>1. UNCHANGED <<rev, engine>>
  BY VerdictGoes, MigrationEndsGoes, ReindexEndsGoes, StartMigrationGoes, IngestGoes, StartReindexGoes
     DEF redis, counts, Calling
<1>2. CASE \E B \in SUBSET Programs : Ingest(B)
  <2>1. PICK B \in SUBSET Programs : Ingest(B)
    BY <1>2
  <2>2. task'[Ingestor].batch = B /\ \A p \in B : state[p] = "NEW"
    BY <2>1, IngestGoes
  <2> QED BY <1>1, <2>2 DEF Admitted, New, In
<1>3. CASE Verdict \/ ReindexEnds
  <2>1. task'[Ingestor].batch = {}
    BY <1>3, VerdictGoes, ReindexEndsGoes DEF Idled
  <2> QED BY <2>1 DEF Admitted
<1>4. CASE StartReindex
  <2>1. task'[Ingestor] = [Idle EXCEPT !.pc = "waiting"]
    BY <1>4, StartReindexGoes
  <2>2. task'[Ingestor].batch = {}
    BY <2>1 DEF Idle
  <2> QED BY <2>2 DEF Admitted
<1>5. CASE MigrationEnds \/ StartMigration
  <2>1. task'[Ingestor] = task[Ingestor]
    BY <1>5, MigrationEndsGoes, StartMigrationGoes, Kinds DEF Others
  <2> QED BY <1>1, <2>1, SameAdmitted
<1> QED BY <1>2, <1>3, <1>4, <1>5 DEF Calling

-----------------------------------------------------------------------------
(* Once lost, a program stays lost.                                        *)
LEMMA LostStep ==
  ASSUME beaten \subseteq beaten',
         \A p \in Programs : state[p] = "DISCARDED" => state'[p] = "DISCARDED",
         \A u \in Tasks : task[u].why = "limit" =>
           \/ task'[u].why = "limit" /\ task'[u].out = task[u].out
           \/ \A p \in task[u].out : p \in Programs => state'[p] = "DISCARDED",
         NEW p \in Programs, Lost(p)
  PROVE  Lost(p)'
<1>1. CASE p \in beaten \/ state[p] = "DISCARDED"
  BY <1>1 DEF Lost
<1>2. CASE Out(p)
  <2>1. PICK u \in Tasks : task[u].why = "limit" /\ p \in task[u].out
    BY <1>2 DEF Out
  <2> QED BY <2>1 DEF Lost, Out
<1> QED BY <1>1, <1>2 DEF Lost

LEMMA TameLost ==
  ASSUME IInv, Turns, Tidy, NEW t \in Tasks, Tame(t) \/ Gather(t) \/ Add(t) \/ Exec(t),
         NEW p \in Programs, Lost(p)
  PROVE  Lost(p)'
<1>1. beaten \subseteq beaten'
  <2>1. CASE Add(t)
    BY <2>1, AddGoes DEF Beats
  <2>2. CASE Exec(t)
    BY <2>2, ExecGoes
  <2> QED BY <2>1, <2>2, ClearGoes, ClearedGoes, WatchGoes, StoredGoes, FinishGoes, LimitGoes, LookGoes,
             WipeGoes, EvictedGoes, MovedGoes, RolledBackGoes, GatherGoes DEF Tame
<1>2. \A q \in Programs : state[q] = "DISCARDED" => state'[q] = "DISCARDED"
  <2>1. CASE Evicted(t)
    BY <2>1, EvictedGoes
  <2> QED BY <2>1, ClearGoes, ClearedGoes, WatchGoes, StoredGoes, FinishGoes, LimitGoes, LookGoes,
             WipeGoes, MovedGoes, RolledBackGoes, GatherGoes, AddGoes, ExecGoes DEF Tame, blobs
<1>3. ASSUME NEW u \in Tasks, task[u].why = "limit"
      PROVE  \/ task'[u].why = "limit" /\ task'[u].out = task[u].out
             \/ \A q \in task[u].out : q \in Programs => state'[q] = "DISCARDED"
  <2>1. task[u].pc \in Removing
    BY <1>3 DEF Tidy
  <2>2. CASE u = t
    <3>1. Look(t) \/ Wipe(t) \/ Evicted(t)
      <4>1. ~Clear(t) /\ ~Gather(t) /\ ~Add(t) /\ ~Exec(t)
        BY ZenonT(30), <2>1, <2>2 DEF Removing, Clear, Gather, Add, Exec
      <4>2. ~Cleared(t) /\ ~Watch(t) /\ ~Stored(t) /\ ~Finish(t) /\ ~Limit(t)
        BY <2>1, <2>2 DEF Removing, Cleared, Watch, Stored, Finish, Limit
      <4>3. ~Moved(t) /\ ~RolledBack(t)
        BY <1>3, <2>2 DEF Moved, RolledBack
      <4> QED BY <4>1, <4>2, <4>3 DEF Tame
    <3>2. CASE Look(t)
      BY <1>3, <2>2, <3>2, LookGoes
    <3>3. CASE Wipe(t)
      BY <1>3, <2>2, <3>3, WipeGoes DEF SameOut
    <3>4. CASE Evicted(t)
      BY <2>2, <3>4, EvictedGoes
    <3> QED BY <3>1, <3>2, <3>3, <3>4
  <2>3. CASE u # t
    <3>1. CASE Finish(t)
      <4>1. task[t].pc = "next"
        BY <3>1, FinishGoes
      <4>2. t # Selector \/ u \notin Helpers("enforce")
        BY <2>1, <4>1 DEF Turns, Removing
      <4> QED BY <1>3, <2>3, <3>1, <4>2, FinishGoes DEF Others
    <3>2. CASE ~Finish(t)
      <4>1. Others(t)
        BY <3>2, OthersRest DEF Tame
      <4> QED BY <1>3, <2>3, <4>1 DEF Others
    <3> QED BY <3>1, <3>2
  <2> QED BY <2>2, <2>3
<1> QED BY <1>1, <1>2, <1>3, LostStep

LEMMA CallersLost ==
  ASSUME IInv, Turns, Tidy, Calling \/ StartMigration \/ StartReindex
                            \/ \E B \in SUBSET Programs : Ingest(B),
         NEW p \in Programs, Lost(p)
  PROVE  Lost(p)'
<1>1. beaten' = beaten
  BY VerdictGoes, MigrationEndsGoes, ReindexEndsGoes, StartMigrationGoes, IngestGoes, StartReindexGoes
     DEF Calling
<1>2. \A q \in Programs : state[q] = "DISCARDED" => state'[q] = "DISCARDED"
  <2>1. CASE Verdict
    BY <2>1, VerdictGoes
  <2>2. CASE \E B \in SUBSET Programs : Ingest(B)
    BY <2>2, IngestGoes
  <2> QED BY <2>1, <2>2, MigrationEndsGoes, ReindexEndsGoes, StartMigrationGoes, StartReindexGoes
             DEF Calling, blobs
<1>3. ASSUME NEW u \in Tasks, task[u].why = "limit" PROVE task'[u] = task[u]
  <2>1. task[u].pc \in Removing
    BY <1>3 DEF Tidy
  <2>2. CASE StartReindex
    BY <2>1, <2>2, StartReindexGoes DEF Removing
  <2>3. CASE ~StartReindex
    BY <2>1, <2>3, VerdictGoes, MigrationEndsGoes, ReindexEndsGoes, StartMigrationGoes, IngestGoes
       DEF Calling, Others, Removing
  <2> QED BY <2>2, <2>3
<1> QED BY <1>1, <1>2, <1>3, LostStep

(* A step that takes a program out of an island.                           *)
LEMMA TameLoses ==
  ASSUME IInv, Turns, Mirror, NEW t \in Tasks, Tame(t), ~Clear(t),
         NEW p \in Programs, NEW i \in Islands, In(p, i), rev'[i][p] = None
  PROVE  \/ Lost(p)'
         \/ /\ Wipe(t) /\ t = Selector /\ task[t].why \in {"source", "rollback"}
            /\ p = task[t].prog /\ i = Target(task[t])
<1> DEFINE r == task[t]
<1>1. Wipe(t)
  <2>1. ~UNCHANGED rev
    BY DEF In
  <2> QED BY <2>1, ClearedGoes, WatchGoes, StoredGoes, FinishGoes, LimitGoes, LookGoes,
             EvictedGoes, MovedGoes, RolledBackGoes DEF Tame, redis
<1>2. i = Target(r) /\ p \in r.out
  BY <1>1, WipeEffect DEF In
<1>3. r.pc = "wipe" /\ SameOut(task'[t], r) /\ Own(t, r) /\ r \in Task
  BY <1>1, WipeGoes, At DEF Turns
<1>4. CASE r.why = "limit"
  BY <1>2, <1>3, <1>4 DEF Lost, Out, SameOut
<1>5. CASE r.why # "limit"
  BY <1>1, <1>2, <1>3, <1>5 DEF Own, Removing, Task
<1> QED BY <1>4, <1>5

LEMMA ExecLoses ==
  ASSUME IInv, Turns, NEW t \in Tasks, Exec(t),
         NEW p \in Programs, NEW i \in Islands, In(p, i), rev'[i][p] = None
  PROVE  Lost(p)'
<1> DEFINE r == task[t]
<1>1. r.pc = "seen" /\ beaten' = beaten \cup ({r.seen} \ {None, r.prog}) /\ r.seen = hash[r.on][r.cell]
  BY ExecGoes, ExecEffect
<1>2. r.cell \in Cells
  BY <1>1, Targets DEF Working, Adding
<1>3. p = r.seen /\ p # r.prog
  BY <1>1, <1>2, ExecEffect, IslandsAssumption DEF In
<1> QED BY <1>1, <1>3, IslandsAssumption DEF Lost

(* What is somewhere stays somewhere.                                      *)
LEMMA ThereStays ==
  ASSUME IInv, Turns, Mirror, Tidy, NEW t \in Tasks,
         (Tame(t) /\ ~Clear(t)) \/ Gather(t) \/ Add(t) \/ Exec(t),
         NEW p \in Programs, NEW i \in Islands, There(p, i)
  PROVE  \/ There(p, i)'
         \/ /\ Wipe(t) /\ t = Selector /\ task[t].why \in {"source", "rollback"}
            /\ p = task[t].prog /\ i = Target(task[t])
<1>1. CASE Lost(p)
  BY <1>1, TameLost DEF There
<1>2. CASE In(p, i) /\ rev'[i][p] # None
  BY <1>2 DEF There, In
<1>3. CASE In(p, i) /\ rev'[i][p] = None
  <2>1. ~Gather(t) /\ ~Add(t)
    BY <1>3, GatherGoes, AddGoes DEF redis, In
  <2> QED BY <1>3, <2>1, TameLoses, ExecLoses DEF There
<1> QED BY <1>1, <1>2, <1>3 DEF There

LEMMA SomewhereStays ==
  ASSUME IInv, Turns, Mirror, Tidy, Sourced(task[Selector]), Migrating(task[Selector]), NEW t \in Tasks,
         (Tame(t) /\ ~Clear(t)) \/ Gather(t) \/ Add(t) \/ Exec(t),
         NEW p \in Programs, Somewhere(p)
  PROVE  Somewhere(p)'
<1>1. CASE Lost(p)
  BY <1>1, TameLost DEF Somewhere
<1>2. CASE ~Lost(p)
  <2>1. PICK i \in Islands : There(p, i)
    BY <1>2 DEF Somewhere, There
  <2>2. CASE There(p, i)'
    BY <2>2 DEF There, Somewhere
  <2>3. CASE /\ Wipe(t) /\ t = Selector /\ task[t].why \in {"source", "rollback"}
             /\ p = task[t].prog /\ i = Target(task[t])
    <3>1. task[t].pc = "wipe"
      BY <2>3, WipeGoes
    <3>2. task[t].why = "source" /\ There(p, task[t].on)
      BY <1>2, <2>3, <3>1 DEF Migrating, Removing
    <3>3. PICK k \in Islands : k = task[t].on /\ k # i
      BY <2>3, <3>1, <3>2, Migrant DEF Working, Removing, Target
    <3>4. There(p, k)'
      BY <2>3, <3>2, <3>3, ThereStays
    <3> QED BY <3>4 DEF There, Somewhere
  <2> QED BY <2>1, <2>2, <2>3, ThereStays
<1> QED BY <1>1, <1>2

LEMMA ClearStays ==
  ASSUME IInv, Turns, Tidy, Clearing, NEW t \in Tasks, Clear(t), NEW p \in Programs, Somewhere(p)
  PROVE  Somewhere(p)' \/ Readded(p)'
<1>1. CASE Lost(p)
  BY <1>1, TameLost DEF Somewhere, Tame
<1>2. CASE ~Lost(p)
  <2>1. PICK i \in Islands : In(p, i)
    BY <1>2 DEF Somewhere
  <2>2. CASE rev'[i][p] # None
    BY <2>2 DEF Somewhere, In
  <2>3. CASE rev'[i][p] = None
    <3>1. task'[t].pc = "cleared" /\ SameJob(task'[t], task[t]) /\ task[t].pc = "clear"
      BY <2>1, <2>3, ClearGoes DEF redis, In
    <3>2. t \in Helpers("reindex") /\ task[t].on = t[2]
      BY <3>1, Kinds DEF Turns, Own, Working, Removing
    <3>3. i = t[2]
      BY <2>1, <2>3, <3>1, <3>2, ClearEffect DEF In
    <3>4. \E job \in task'[t].todo : job.prog = p
      BY <2>1, <3>1, <3>2, <3>3 DEF Clearing, SameJob
    <3> QED BY <3>2, <3>4 DEF Readded, ReaddedBy
  <2> QED BY <2>2, <2>3
<1> QED BY <1>1, <1>2

LEMMA CallersStay ==
  ASSUME IInv, Turns, Tidy, Calling \/ StartMigration \/ StartReindex
                            \/ \E B \in SUBSET Programs : Ingest(B),
         NEW p \in Programs
  PROVE  /\ Somewhere(p) => Somewhere(p)'
         /\ \A i \in Islands : There(p, i) => There(p, i)'
<1>1. UNCHANGED rev
  BY VerdictGoes, MigrationEndsGoes, ReindexEndsGoes, StartMigrationGoes, IngestGoes, StartReindexGoes
     DEF redis, Calling
<1>2. Lost(p) => Lost(p)'
  BY CallersLost
<1> QED BY <1>1, <1>2 DEF Somewhere, There, In

(* What a re-indexing has to add again it adds, or it has lost its cell.   *)
LEMMA ReaddedStays ==
  ASSUME IInv, Turns, NEW t \in Tasks, Tame(t) \/ Gather(t) \/ Add(t) \/ Exec(t),
         NEW p \in Programs, Readded(p)
  PROVE  Readded(p)' \/ Somewhere(p)'
<1>1. PICK u \in Helpers("reindex") : ReaddedBy(task[u], p)
  BY DEF Readded
<1>2. Step(t) /\ ~Refuse(t) /\ ~Retry(t)
  <2>1. CASE Tame(t)
    BY <2>1, TameStep
  <2>2. CASE Gather(t) \/ Add(t) \/ Exec(t)
    BY ZenonT(30), <2>2 DEF Step, Gather, Add, Exec, Refuse, Retry
  <2> QED BY <2>1, <2>2
<1>3. CASE u # t
  <2>1. task'[u] = task[u]
    BY <1>2, <1>3, Elsewhere
  <2>2. ReaddedBy(task[u], p)'
    BY <1>1, <2>1 DEF ReaddedBy
  <2> QED BY <2>2 DEF Readded
<1>4. CASE u = t
  <2> DEFINE r == task[t]  s == task'[t]
  <2>1. CASE /\ r.todo \subseteq s.todo
             /\ r.pc \in {"watch", "seen"} => s.pc \in {"watch", "seen"} /\ s.prog = r.prog
    <3>1. ReaddedBy(task[t], p)'
      BY <1>1, <1>4, <2>1 DEF ReaddedBy
    <3> QED BY <1>4, <3>1 DEF Readded
  <2>2. CASE Gather(t)
    <3>1. r.pc = "gather" /\ r.todo = {}
      BY <2>2, GatherGoes DEF Turns, Own
    <3> QED BY <1>1, <1>4, <3>1 DEF ReaddedBy
  <2>3. CASE Finish(t)
    <3>1. r.pc = "next" /\ r.todo = {}
      BY <2>3, FinishGoes
    <3> QED BY <1>1, <1>4, <3>1 DEF ReaddedBy
  <2>4. CASE Add(t)
    <3>1. PICK job \in r.todo :
            /\ s.todo = r.todo \ {job}
            /\ \/ Beats(t, job.prog)
               \/ s.pc = "watch" /\ s.prog = job.prog
      BY <2>4, AddGoes DEF Freed
    <3>2. r.pc = "next"
      BY <2>4, AddGoes
    <3>3. PICK j \in r.todo : j.prog = p
      BY <1>1, <1>4, <3>2 DEF ReaddedBy
    <3>4. CASE j # job
      <4>1. ReaddedBy(task[t], p)'
        BY <3>1, <3>3, <3>4 DEF ReaddedBy
      <4> QED BY <1>4, <4>1 DEF Readded
    <3>5. CASE j = job /\ Beats(t, job.prog)
      BY <1>4, <3>3, <3>5 DEF Beats, Somewhere, Lost
    <3>6. CASE j = job /\ s.pc = "watch" /\ s.prog = job.prog
      <4>1. ReaddedBy(task[t], p)'
        BY <3>3, <3>6 DEF ReaddedBy
      <4> QED BY <1>4, <4>1 DEF Readded
    <3> QED BY <3>1, <3>4, <3>5, <3>6
  <2>5. CASE Exec(t)
    <3>1. r.pc = "seen" /\ s.todo = r.todo
      BY <2>5, ExecGoes DEF SameJob
    <3>2. r.on \in Islands /\ r.cell \in Cells /\ r.prog \in Programs
      BY <3>1, Targets DEF Working, Adding
    <3>3. rev'[r.on][r.prog] = r.cell
      BY <2>5, <3>2, ExecEffect
    <3>4. CASE p = r.prog
      BY <3>2, <3>3, <3>4, IslandsAssumption DEF Somewhere, In
    <3>5. CASE p # r.prog
      <4>1. ReaddedBy(task[t], p)'
        BY <1>1, <1>4, <3>1, <3>5 DEF ReaddedBy
      <4> QED BY <1>4, <4>1 DEF Readded
    <3> QED BY <3>4, <3>5
  <2>6. CASE Tame(t) /\ ~Finish(t)
    <3>1. Own(t, r) /\ t # Selector
      BY <1>4, Kinds DEF Turns
    <3>2. ~Limit(t) /\ ~Look(t) /\ ~Wipe(t) /\ ~Evicted(t) /\ ~Moved(t) /\ ~RolledBack(t)
      BY <1>4, <3>1 DEF Own, Adding, Limit, Look, Wipe, Evicted, Moved, RolledBack
    <3>3. CASE Clear(t)
      BY <2>1, <3>3, ClearGoes DEF Freed, SameJob
    <3>4. CASE Cleared(t)
      BY <2>1, <3>4, ClearedGoes DEF Freed
    <3>5. CASE Watch(t)
      BY <2>1, <3>5, WatchGoes DEF SameJob
    <3>6. CASE Stored(t)
      BY <2>1, <3>6, StoredGoes DEF Freed, SameJob
    <3> QED BY <2>6, <3>2, <3>3, <3>4, <3>5, <3>6 DEF Tame
  <2> QED BY <2>2, <2>3, <2>4, <2>5, <2>6
<1> QED BY <1>3, <1>4

-----------------------------------------------------------------------------
(* A program that is kept is somewhere, being ingested, or being added     *)
(* again.                                                                  *)
LEMMA BatchStays ==
  ASSUME IInv, Turns, NEW t \in Tasks, Tame(t) \/ Gather(t) \/ Add(t) \/ Exec(t)
  PROVE  task'[Ingestor].batch = task[Ingestor].batch
<1>1. CASE t # Ingestor
  <2>1. Step(t) /\ ~Refuse(t) /\ ~Retry(t)
    BY ZenonT(30), TameStep DEF Step, Gather, Add, Exec, Refuse, Retry
  <2> QED BY <1>1, <2>1, Elsewhere
<1>2. CASE t = Ingestor
  <2>1. ~Gather(t) /\ ~Clear(t) /\ ~Cleared(t) /\ t \notin Helpers("enforce") /\ t # Selector
    BY <1>2, Kinds DEF Turns, Own, Gather, Clear, Cleared
  <2>2. CASE Limit(t) \/ Evicted(t)
    BY <1>2, <2>1, <2>2, LimitGoes, EvictedGoes DEF Limited, Onward, Freed, SameJob
  <2>3. CASE Add(t) \/ Stored(t) \/ Moved(t) \/ RolledBack(t)
    BY <1>2, <2>1, <2>3, AddGoes, StoredGoes, MovedGoes, RolledBackGoes DEF Freed, SameJob
  <2>4. CASE Watch(t) \/ Exec(t) \/ Finish(t) \/ Look(t) \/ Wipe(t)
    BY ZenonT(30), <1>2, <2>1, <2>4, WatchGoes, ExecGoes, FinishGoes, LookGoes, WipeGoes DEF SameJob
  <2> QED BY <2>1, <2>2, <2>3, <2>4 DEF Tame
<1> QED BY <1>1, <1>2

LEMMA StepRemains ==
  ASSUME IInv, Turns, Mirror, Tidy, Sourced(task[Selector]), Keep, NEW t \in Tasks,
         Tame(t) \/ Gather(t) \/ Add(t) \/ Exec(t)
  PROVE  Remains'
<1>1. task'[Ingestor].batch = task[Ingestor].batch
  BY BatchStays
<1>2. \A p \in Programs : state'[p] = "DONE" => state[p] = "DONE"
  <2>1. CASE Evicted(t)
    BY <2>1, EvictedGoes
  <2> QED BY <2>1, ClearGoes, ClearedGoes, WatchGoes, StoredGoes, FinishGoes, LimitGoes, LookGoes,
             WipeGoes, MovedGoes, RolledBackGoes, GatherGoes, AddGoes, ExecGoes DEF Tame, blobs
<1> SUFFICES ASSUME NEW p \in Programs, state'[p] = "DONE"
             PROVE  Somewhere(p)' \/ p \in task'[Ingestor].batch \/ Readded(p)'
  BY DEF Remains
<1>3. CASE Somewhere(p)
  <2>1. CASE Clear(t)
    BY <1>3, <2>1, ClearStays DEF Keep
  <2>2. CASE ~Clear(t)
    BY <1>3, <2>2, SomewhereStays DEF Keep
  <2> QED BY <2>1, <2>2
<1>4. CASE Readded(p)
  BY <1>4, ReaddedStays
<1> QED BY <1>1, <1>2, <1>3, <1>4 DEF Keep, Remains

LEMMA NotReadded ==
  ASSUME Turns, Resting(Helpers("reindex"))
  PROVE  \A p : ~Readded(p)
<1>1. \A u \in Helpers("reindex") : task[u].todo = {} /\ task[u].pc = "idle"
  BY Kinds DEF Turns, Own, Resting
<1> QED BY <1>1 DEF Readded, ReaddedBy

LEMMA Admits ==
  ASSUME IInv, Turns, Inverse, Mirror, Ingested(task[Ingestor]), Verdict,
         NEW p \in task[Ingestor].batch, p \in Programs, p \notin Rejected
  PROVE  Somewhere(p)
<1>1. task[Ingestor].pc = "verdict"
  BY VerdictGoes
<1>2. CASE engine = "generational"
  <2>1. p \in Active
    BY <1>2 DEF Rejected
  <2>2. \A u \in Tasks : task[u].pc \notin Lagging
    BY <1>1, Kinds DEF Turns, Lagging
  <2> QED BY <2>1, <2>2, Elites DEF Somewhere
<1>3. CASE engine = "steady"
  BY <1>3 DEF Rejected, Ingested
<1> QED BY <1>2, <1>3, IslandsAssumption DEF IInv, TypeOK

LEMMA CallersRemain ==
  ASSUME IInv, Turns, Inverse, Mirror, Tidy, Keep,
         Calling \/ StartMigration \/ StartReindex \/ \E B \in SUBSET Programs : Ingest(B)
  PROVE  Remains'
<1> SUFFICES ASSUME NEW p \in Programs, state'[p] = "DONE"
             PROVE  Somewhere(p)' \/ p \in task'[Ingestor].batch \/ Readded(p)'
  BY DEF Remains
<1>1. Somewhere(p) => Somewhere(p)'
  BY CallersStay
<1>2. CASE Verdict
  <2>1. state[p] = "DONE" /\ p \notin Rejected /\ Others(Ingestor) /\ task[Ingestor].pc = "verdict"
    BY <1>2, VerdictGoes
  <2>2. Resting(Helpers("reindex"))
    BY <2>1 DEF Turns, Resting
  <2>3. Somewhere(p)
    BY <1>2, <2>1, <2>2, NotReadded, Admits DEF Keep, Remains
  <2> QED BY <1>1, <2>3
<1>3. CASE MigrationEnds \/ StartMigration
  <2>1. UNCHANGED state /\ Others(Selector)
    BY <1>3, MigrationEndsGoes, StartMigrationGoes DEF blobs
  <2>2. task'[Ingestor] = task[Ingestor] /\ \A u \in Helpers("reindex") : task'[u] = task[u]
    BY <2>1, Kinds DEF Others
  <2>3. Readded(p) => Readded(p)'
    BY <2>2 DEF Readded, ReaddedBy
  <2> QED BY <1>1, <2>1, <2>2, <2>3 DEF Keep, Remains
<1>4. CASE ReindexEnds \/ StartReindex
  <2>1. /\ UNCHANGED state /\ Resting(Helpers("reindex"))
        /\ task[Ingestor].pc \in {"idle", "waiting"}
    BY <1>4, ReindexEndsGoes, StartReindexGoes, Kinds DEF blobs, Resting
  <2>2. Somewhere(p)
    BY <2>1, NotReadded DEF Keep, Remains, Tidy
  <2> QED BY <1>1, <2>2
<1>5. CASE \E B \in SUBSET Programs : Ingest(B)
  <2>1. PICK B \in SUBSET Programs : Ingest(B)
    BY <1>5
  <2>2. /\ task[Ingestor].pc = "idle" /\ task'[Ingestor].batch = B
        /\ state'[p] = IF p \in B THEN "DONE" ELSE state[p]
    BY <2>1, IngestGoes
  <2>3. Resting(Helpers("reindex"))
    BY <2>2 DEF Turns, Resting
  <2>4. p \in B \/ Somewhere(p)
    BY <2>2, <2>3, NotReadded DEF Keep, Remains, Tidy
  <2> QED BY <1>1, <2>2, <2>4
<1> QED BY <1>2, <1>3, <1>4, <1>5 DEF Calling

(* What a stored addition has stored.                                      *)
LEMMA StoredThere ==
  ASSUME IInv, Turns, Mirror, NEW t \in Tasks, Stored(t),
         NEW p, NEW i, p = task[t].prog, i = task[t].on
  PROVE  There(p, i)'
<1>1. task[t].pc = "stored" /\ UNCHANGED rev
  BY StoredGoes DEF redis
<1>2. p \in Programs /\ i \in Islands /\ task[t].cell \in Cells
  BY <1>1, Targets DEF Working, Adding
<1>3. rev[i][p] = task[t].cell
  BY <1>1, <1>2 DEF Mirror, Lag, LagStored
<1> QED BY <1>1, <1>2, <1>3, IslandsAssumption DEF There, In

LEMMA StepIngested ==
  ASSUME IInv, Turns, Mirror, Tidy, Sourced(task[Selector]), Keep, NEW t \in Tasks,
         Tame(t) \/ Gather(t) \/ Add(t) \/ Exec(t)
  PROVE  Ingested(task[Ingestor])'
<1> DEFINE r == task[Ingestor]  s == task'[Ingestor]
<1>1. CASE t # Ingestor
  <2>1. Step(t) /\ ~Refuse(t) /\ ~Retry(t) /\ task[t].pc \notin {"idle", "waiting"}
    BY ZenonT(30), TameStep DEF Step, Tame, Gather, Add, Exec, Refuse, Retry, Clear, Cleared, Watch, Stored, Finish,
                    Limit, Look, Wipe, Evicted, Moved, RolledBack
  <2>2. s = r
    BY <1>1, <2>1, Elsewhere
  <2>3. r.pc \in {"idle", "waiting"}
    BY <1>1, <2>1, Company, Kinds
  <2> QED BY <2>2, <2>3 DEF Tidy, Ingested, Removing
<1>2. CASE t = Ingestor
  <2>1. ~Gather(t) /\ ~Clear(t) /\ ~Cleared(t) /\ t \notin Helpers("enforce") /\ t # Selector
    BY <1>2, Kinds DEF Turns, Own, Gather, Clear, Cleared
  <2>2. ~Moved(t) /\ ~RolledBack(t)
    BY <1>2, <2>1, MovedGoes, RolledBackGoes, Migrants DEF Removing
  <2>3. \A p \in Programs : Somewhere(p) => Somewhere(p)'
    BY <2>1, SomewhereStays DEF Keep
  <2>4. \A p \in Programs, i \in Islands : There(p, i) => There(p, i)'
    BY <2>1, ThereStays
  <2>5. r.good \subseteq Programs /\ \A p \in r.good : Somewhere(p)
    BY At, Kinds DEF Keep, Ingested, Task
  <2>6. CASE s.good = r.good /\ s.pc \notin {"limit"} \cup Removing
    BY <2>3, <2>5, <2>6 DEF Ingested
  <2>7. CASE Add(t) \/ Watch(t) \/ Exec(t) \/ Finish(t)
    <3>1. CASE Add(t)
      <4>1. s.good = r.good /\ s.pc \in {"next", "watch"}
        BY <1>2, <3>1, AddGoes DEF Freed
      <4> QED BY <2>6, <4>1 DEF Removing
    <3>2. CASE Watch(t) \/ Exec(t) \/ Finish(t)
      <4>1. s.good = r.good /\ s.pc \in {"seen", "stored", "verdict"}
        BY <1>2, <2>1, <3>2, WatchGoes, ExecGoes, FinishGoes DEF SameJob
      <4> QED BY <2>6, <4>1 DEF Removing
    <3> QED BY <2>7, <3>1, <3>2
  <2>8. CASE Stored(t)
    <3>1. s.good = r.good /\ s.prog = r.prog /\ s.on = r.on /\ r.pc = "stored"
      BY <1>2, <2>1, <2>8, StoredGoes, Kinds DEF SameJob
    <3>2. r.prog \in Programs /\ r.on \in Islands
      BY <3>1, Targets, Kinds DEF Working, Adding
    <3>3. PICK p \in Programs, i \in Islands : p = r.prog /\ i = r.on
      BY <3>2
    <3>4. There(p, i)'
      BY <1>2, <2>8, <3>3, StoredThere
    <3> QED BY <2>3, <2>5, <3>1, <3>3, <3>4 DEF Ingested
  <2>9. CASE Limit(t) \/ Look(t) \/ Wipe(t) \/ Evicted(t)
    <3>1. r.pc \in {"limit"} \cup Removing
      BY <1>2, <2>9, LimitGoes, LookGoes, WipeGoes, EvictedGoes DEF Removing
    <3>2. r.prog \in Programs /\ r.on \in Islands
      BY <3>1, Targets, At, Kinds, IslandsAssumption DEF Working, Knows, Task, Removing
    <3>3. PICK p \in Programs, i \in Islands : p = r.prog /\ i = r.on
      BY <3>2
    <3>4. There(p, i)
      BY <3>1, <3>3 DEF Keep, Ingested
    <3>5. There(p, i)'
      BY <2>4, <3>4
    <3>6. \/ s.prog = p /\ s.on = i /\ s.good = r.good
          \/ s.pc = "next" /\ s.good \subseteq r.good \cup {p}
      BY ZenonT(60), <1>2, <2>1, <2>9, <3>3, LimitGoes, LookGoes, WipeGoes, EvictedGoes, Kinds
         DEF Limited, Onward, SameJob, Freed
    <3>7. Somewhere(p)'
      BY <3>5 DEF There, Somewhere
    <3> QED BY <2>3, <2>5, <3>5, <3>6, <3>7 DEF Ingested, Removing
  <2> QED BY <2>1, <2>2, <2>7, <2>8, <2>9 DEF Tame
<1> QED BY <1>1, <1>2

LEMMA CallersIngested ==
  ASSUME IInv, Turns, Tidy, Keep,
         Calling \/ StartMigration \/ StartReindex \/ \E B \in SUBSET Programs : Ingest(B)
  PROVE  Ingested(task[Ingestor])'
<1> DEFINE r == task[Ingestor]  s == task'[Ingestor]
<1>1. CASE s.good = {} /\ s.pc \in {"idle", "waiting", "next"}
  BY <1>1 DEF Ingested, Removing
<1>2. CASE MigrationEnds \/ StartMigration
  <2>1. s = r
    BY <1>2, MigrationEndsGoes, StartMigrationGoes, Kinds DEF Others
  <2>2. \A p \in Programs : Somewhere(p) => Somewhere(p)'
    BY CallersStay
  <2>3. \A p \in Programs, i \in Islands : There(p, i) => There(p, i)'
    BY CallersStay
  <2>4. r.good \subseteq Programs
    BY At, Kinds DEF Task
  <2>5. r.pc \in {"limit"} \cup Removing => r.prog \in Programs /\ r.on \in Islands
    BY Targets, At, Kinds, IslandsAssumption DEF Working, Knows, Task, Removing
  <2> QED BY <2>1, <2>2, <2>3, <2>4, <2>5 DEF Keep, Ingested
<1>3. CASE Verdict \/ ReindexEnds
  BY <1>1, <1>3, VerdictGoes, ReindexEndsGoes DEF Idled
<1>4. CASE StartReindex
  <2>1. s = [Idle EXCEPT !.pc = "waiting"]
    BY <1>4, StartReindexGoes
  <2>2. s.good = {} /\ s.pc = "waiting"
    BY <2>1 DEF Idle
  <2> QED BY <1>1, <2>2
<1>5. CASE \E B \in SUBSET Programs : Ingest(B)
  BY <1>1, <1>5, IngestGoes
<1> QED BY <1>2, <1>3, <1>4, <1>5 DEF Calling

(* What a re-indexing is about to clear it will add again.                 *)
LEMMA StepClearing ==
  ASSUME IInv, Turns, Inverse, Mirror, Clearing, NEW t \in Tasks,
         Tame(t) \/ Gather(t) \/ Add(t) \/ Exec(t)
  PROVE  Clearing'
<1> SUFFICES ASSUME NEW u \in Helpers("reindex"), task'[u].pc = "clear",
                    NEW p \in Programs, rev'[u[2]][p] # None
             PROVE  \E job \in task'[u].todo : job.prog = p
  BY DEF Clearing, In
<1>1. u \in Tasks /\ u[2] \in Islands
  BY Kinds
<1>2. CASE u = t
  <2>1. Gather(t)
    <3>1. ~Limit(t) /\ ~Look(t) /\ ~Wipe(t) /\ ~Evicted(t) /\ ~Moved(t) /\ ~RolledBack(t)
      BY <1>2 DEF Turns, Own, Adding, Limit, Look, Wipe, Evicted, Moved, RolledBack
    <3>2. ~Clear(t) /\ ~Cleared(t) /\ ~Watch(t) /\ ~Stored(t)
      BY <1>2, Kinds, ClearGoes, ClearedGoes, WatchGoes, StoredGoes DEF Freed
    <3>3. ~Add(t) /\ ~Exec(t) /\ ~Finish(t)
      <4>1. Add(t) => task'[t].pc \in {"next", "watch"}
        BY AddGoes DEF Freed
      <4>2. Exec(t) => task'[t].pc = "stored"
        BY ExecGoes
      <4>3. Finish(t) => task'[t].pc = "idle"
        <5>1. t # Ingestor /\ t # Selector
          BY <1>2, Kinds
        <5> QED BY <5>1, FinishGoes DEF Idled
      <4> QED BY <1>2, <4>1, <4>2, <4>3
    <3> QED BY <3>1, <3>2, <3>3 DEF Tame
  <2>2. /\ task[t].pc = "gather" /\ UNCHANGED rev
        /\ task'[t].todo = {[prog |-> q, src |-> None, cell |-> cell[q]] : q \in Cached(task[t].on)}
    BY <1>2, <2>1, GatherGoes DEF redis, Idled
  <2>3. task[t].on = u[2] /\ Target(task[t]) = task[t].on
    BY <1>2, <2>2, Targets DEF Turns, Own, Working, Removing
  <2>4. Mirrored(u[2])
    BY <1>1, <2>2, <2>3, NotLagging DEF Working, Lagging
  <2>5. p \in Cached(u[2])
    BY <1>1, <2>2, <2>4, CachedIn DEF In
  <2>6. [prog |-> p, src |-> None, cell |-> cell[p]] \in task'[t].todo
    BY <2>2, <2>3, <2>5
  <2> QED BY <1>2, <2>6
<1>3. CASE u # t
  <2>1. Step(t) /\ ~Refuse(t) /\ ~Retry(t) /\ task[t].pc \notin {"idle", "waiting"}
    BY ZenonT(30), TameStep DEF Step, Tame, Gather, Add, Exec, Refuse, Retry, Clear, Cleared, Watch, Stored, Finish,
                    Limit, Look, Wipe, Evicted, Moved, RolledBack
  <2>2. task'[u] = task[u]
    BY <1>3, <2>1, Elsewhere
  <2>3. rev[u[2]][p] # None
    <3>1. CASE Tame(t)
      BY <1>1, <3>1, TameCalmer DEF Calmer
    <3>2. CASE Gather(t) \/ Add(t)
      BY <3>2, GatherGoes, AddGoes DEF redis
    <3>3. CASE Exec(t)
      <4>1. t \in Helpers("reindex") /\ t[2] # u[2]
        BY <1>1, <1>3, <2>1, <2>2, Company, Kinds
      <4>2. task[t].on = t[2]
        BY <3>3, <4>1, ExecGoes DEF Turns, Own, Working, Adding
      <4> QED BY <1>1, <3>3, <4>1, <4>2, ExecEffect
    <3> QED BY <3>1, <3>2, <3>3
  <2> QED BY <2>2, <2>3 DEF Clearing, In
<1> QED BY <1>2, <1>3

LEMMA CallersClearing ==
  ASSUME IInv, Clearing, Calling \/ StartMigration \/ StartReindex \/ \E B \in SUBSET Programs : Ingest(B)
  PROVE  Clearing'
<1>1. UNCHANGED rev
  BY VerdictGoes, MigrationEndsGoes, ReindexEndsGoes, StartMigrationGoes, IngestGoes, StartReindexGoes
     DEF redis, Calling
<1>2. \A u \in Helpers("reindex") : task'[u].pc = "clear" => task'[u] = task[u]
  <2>1. CASE StartReindex
    BY <2>1, ReindexTasks, Kinds
  <2>2. CASE ~StartReindex
    BY <2>2, VerdictGoes, MigrationEndsGoes, ReindexEndsGoes, StartMigrationGoes, IngestGoes, Kinds
       DEF Calling, Others
  <2> QED BY <2>1, <2>2
<1> QED BY <1>1, <1>2 DEF Clearing, In

(* A migrant is at its source until it is at its destination.              *)
LEMMA JobsThere ==
  ASSUME IInv, Turns, Mirror, Tidy, Sourced(task[Selector]), Migrating(task[Selector]),
         (Tame(Selector) /\ ~Clear(Selector)) \/ Add(Selector) \/ Exec(Selector),
         NEW job \in task[Selector].todo
  PROVE  There(job.prog, job.src)'
<1>1. job.prog \in Programs /\ job.src \in Islands
  BY Job, Kinds DEF Sourced
<1>2. There(job.prog, job.src)
  BY DEF Migrating
<1>3. Wipe(Selector) => job.prog # task[Selector].prog
  BY ZenonT(60), WipeGoes, Kinds DEF Turns, Own, Removing
<1> QED BY <1>1, <1>2, <1>3, ThereStays, Kinds

LEMMA MigratingStep ==
  ASSUME \A job \in task'[Selector].todo : There(job.prog, job.src)',
         NEW p, NEW i, NEW j,
         LET s == task'[Selector] IN
         /\ s.pc \in Working => s.prog = p /\ s.src = i /\ s.on = j
         /\ s.pc \in Adding \cup {"limit"} \/ (s.pc \in Removing /\ s.why = "limit") => There(p, i)'
         /\ s.pc = "limit" \/ (s.pc \in Removing /\ s.why \in {"limit", "source"}) => There(p, j)'
         /\ s.pc \in {"look", "wipe"} /\ s.why = "source" => There(p, i)'
         /\ s.pc = "wiped" /\ s.why = "source" /\ s.at = Idle.at => Lost(p)'
         /\ s.pc \in Removing /\ s.why = "rollback" => Lost(p)'
  PROVE  Migrating(task[Selector])'
BY DEF Migrating, Working, Adding, Removing

LEMMA AddMigrating ==
  ASSUME IInv, Turns, Mirror, Tidy, Sourced(task[Selector]), Migrating(task[Selector]), Add(Selector)
  PROVE  Migrating(task[Selector])'
<1> DEFINE r == task[Selector]  s == task'[Selector]
<1>1. PICK job \in r.todo :
        /\ s.todo = r.todo \ {job}
        /\ s.pc = "next" \/ (s.pc = "watch" /\ s.prog = job.prog /\ s.src = job.src)
  BY AddGoes, Kinds DEF Freed
<1>2. \A k \in r.todo : There(k.prog, k.src)'
  BY JobsThere
<1>3. PICK p, i, j : p = job.prog /\ i = job.src /\ j = s.on
  OBVIOUS
<1>4. There(p, i)'
  BY <1>2, <1>3
<1>5. \A k \in s.todo : There(k.prog, k.src)'
  BY <1>1, <1>2
<1> QED BY <1>1, <1>3, <1>4, <1>5, MigratingStep DEF Working, Adding, Removing

LEMMA AtWorkMigrating ==
  ASSUME IInv, Turns, Mirror, Tidy, Sourced(task[Selector]), Migrating(task[Selector]),
         task[Selector].pc \in Working,
         \/ Watch(Selector) \/ Exec(Selector) \/ Stored(Selector) \/ Limit(Selector)
         \/ Look(Selector) \/ Wipe(Selector) \/ Evicted(Selector) \/ Moved(Selector)
         \/ RolledBack(Selector)
  PROVE  Migrating(task[Selector])'
<1> DEFINE r == task[Selector]  s == task'[Selector]
<1>1. PICK p \in Programs, i \in Islands, j \in Islands :
        p = r.prog /\ i = r.src /\ j = r.on /\ i # j
  BY Migrant
<1>2. (Tame(Selector) /\ ~Clear(Selector)) \/ Exec(Selector)
  BY ZenonT(30) DEF Tame, Clear, Watch, Stored, Limit, Look, Wipe, Evicted, Moved, RolledBack
<1>3. \A job \in r.todo : There(job.prog, job.src)'
  BY <1>2, JobsThere
<1>4. Lost(p) => Lost(p)'
  BY <1>2, TameLost, Kinds
<1>5. There(p, i) => There(p, i)' \/ (Wipe(Selector) /\ r.why = "source")
  BY <1>1, <1>2, ThereStays, Kinds DEF Target
<1>6. There(p, j) => There(p, j)' \/ (Wipe(Selector) /\ r.why = "rollback")
  BY <1>1, <1>2, ThereStays, Kinds DEF Target
<1>7. There(p, i) /\ rev[i][p] = None => Lost(p)
  BY DEF There, In
<1>8. CASE s.pc = "next" /\ s.todo = r.todo
  BY <1>1, <1>3, <1>8, MigratingStep DEF Working, Adding, Removing
<1>9. CASE Watch(Selector) \/ Exec(Selector)
  <2>1. r.pc \in {"watch", "seen"} /\ s.pc \in {"seen", "stored"} /\ SameJob(s, r)
    BY <1>9, WatchGoes, ExecGoes, Kinds
  <2>2. There(p, i)'
    BY <1>1, <1>5, <1>9, <2>1 DEF Migrating, Adding, Wipe
  <2> QED BY <1>1, <1>3, <2>1, <2>2, MigratingStep DEF SameJob, Removing
<1>10. CASE Stored(Selector)
  <2>1. r.pc = "stored" /\ s.pc = "limit" /\ SameJob(s, r)
    BY <1>10, StoredGoes, Kinds
  <2>2. There(p, i)'
    BY <1>1, <1>5, <2>1 DEF Migrating, Adding, Wipe
  <2>3. There(p, j)'
    BY <1>1, <1>10, StoredThere, Kinds
  <2> QED BY <1>1, <1>3, <2>1, <2>2, <2>3, MigratingStep DEF SameJob, Removing
<1>11. CASE Limit(Selector) \/ Evicted(Selector)
  <2>1. /\ r.pc = "limit" \/ (r.pc \in Removing /\ r.why = "limit")
        /\ s.pc = "look" /\ SameJob(s, r) /\ s.why \in {"limit", "source"}
    BY ZenonT(60), <1>1, <1>11, LimitGoes, EvictedGoes, Kinds, IslandsAssumption DEF Limited, Onward, Removing
  <2>2. There(p, i) /\ There(p, j) /\ ~Wipe(Selector)
    BY ZenonT(30), <1>1, <1>11, <2>1 DEF Migrating, Limit, Evicted, Wipe
  <2> QED BY <1>1, <1>3, <1>5, <1>6, <2>1, <2>2, MigratingStep DEF SameJob, Removing, Adding
<1>12. CASE Look(Selector)
  <2>1. /\ r.pc = "look" /\ s.pc \in {"wipe", "wiped"} /\ SameJob(s, r) /\ s.why = r.why
        /\ s.at = [q \in Programs |-> IF q \in r.out THEN rev[Target(r)][q] ELSE None]
        /\ UNCHANGED rev
    BY <1>12, LookGoes, Kinds DEF redis
  <2>2. ASSUME r.why = "source" PROVE /\ There(p, i)' /\ There(p, j)'
                                      /\ s.at = Idle.at => Lost(p)'
    <3>1. There(p, i) /\ There(p, j) /\ ~Wipe(Selector)
      BY <1>1, <2>1, <2>2 DEF Migrating, Removing, Wipe
    <3>2. r.out = {p} /\ Target(r) = i
      BY <1>1, <2>1, <2>2, Kinds DEF Turns, Own, Removing, Target
    <3>3. s.at[p] = rev[i][p]
      BY <2>1, <3>2
    <3>4. s.at = Idle.at => rev[i][p] = None
      BY <3>3 DEF Idle
    <3> QED BY <1>4, <1>5, <1>6, <1>7, <3>1, <3>4
  <2>3. ASSUME r.why = "limit" PROVE There(p, i)' /\ There(p, j)'
    BY <1>1, <1>5, <1>6, <2>1, <2>3 DEF Migrating, Removing, Wipe
  <2>4. ASSUME r.why = "rollback" PROVE Lost(p)'
    BY <1>1, <1>4, <2>1, <2>4 DEF Migrating, Removing
  <2> QED BY <1>1, <1>3, <2>1, <2>2, <2>3, <2>4, MigratingStep DEF SameJob, Removing, Adding
<1>13. CASE Wipe(Selector)
  <2>1. /\ r.pc = "wipe" /\ s.pc = "wiped" /\ SameJob(s, r) /\ s.why = r.why /\ s.at = r.at
    BY <1>13, WipeGoes, Kinds DEF SameOut
  <2>2. ASSUME r.why = "source" PROVE There(p, j)' /\ (s.at = Idle.at => Lost(p)')
    <3>1. There(p, i) /\ There(p, j)
      BY <1>1, <2>1, <2>2 DEF Migrating, Removing
    <3>2. r.out = {p} /\ Target(r) = i
      BY <1>1, <2>1, <2>2, Kinds DEF Turns, Own, Removing, Target
    <3>3. r.at[p] = rev[i][p]
      BY <1>13, <3>2, WipeEffect, Kinds
    <3>4. s.at = Idle.at => rev[i][p] = None
      BY <2>1, <3>3 DEF Idle
    <3> QED BY <1>4, <1>6, <1>7, <2>2, <3>1, <3>4
  <2>3. ASSUME r.why = "limit" PROVE There(p, i)' /\ There(p, j)'
    BY <1>1, <1>5, <1>6, <2>1, <2>3 DEF Migrating, Removing
  <2>4. ASSUME r.why = "rollback" PROVE Lost(p)'
    BY <1>1, <1>4, <2>1, <2>4 DEF Migrating, Removing
  <2> QED BY <1>1, <1>3, <2>1, <2>2, <2>3, <2>4, MigratingStep DEF SameJob, Removing, Adding
<1>14. CASE Moved(Selector)
  <2>1. CASE r.at # Idle.at
    BY <1>8, <1>14, <2>1, MovedGoes, Kinds DEF Freed
  <2>2. CASE r.at = Idle.at
    <3>1. /\ r.pc = "wiped" /\ r.why = "source"
          /\ s.pc = "look" /\ s.why = "rollback" /\ SameJob(s, r)
      BY <1>14, <2>2, MovedGoes, Kinds
    <3>2. Lost(p)'
      BY <1>1, <1>4, <2>2, <3>1 DEF Migrating
    <3> QED BY <1>1, <1>3, <3>1, <3>2, MigratingStep DEF SameJob, Removing, Adding
  <2> QED BY <2>1, <2>2
<1>15. CASE RolledBack(Selector)
  BY <1>8, <1>15, RolledBackGoes, Kinds DEF Freed
<1> QED BY <1>9, <1>10, <1>11, <1>12, <1>13, <1>14, <1>15

LEMMA RestingMigrating ==
  ASSUME task'[Selector].todo = {}, task'[Selector].pc \in {"idle", "waiting"}
  PROVE  Migrating(task[Selector])'
BY DEF Migrating, Adding, Removing

LEMMA StepMigrating ==
  ASSUME IInv, Turns, Mirror, Tidy, Sourced(task[Selector]), Migrating(task[Selector]), NEW t \in Tasks,
         Tame(t) \/ Gather(t) \/ Add(t) \/ Exec(t)
  PROVE  Migrating(task[Selector])'
<1>1. task[t].pc \notin {"idle", "waiting"}
  BY ZenonT(30) DEF Tame, Gather, Add, Exec, Clear, Cleared, Watch, Stored, Finish, Limit, Look, Wipe, Evicted,
         Moved, RolledBack
<1>2. CASE t # Selector
  <2>1. task[Selector].pc \in {"idle", "waiting"}
    BY <1>1, <1>2, Company, Kinds
  <2>2. task[Selector].todo = {}
    BY <2>1, Kinds DEF Turns, Own
  <2>3. task'[Selector] = task[Selector]
    <3>1. CASE Finish(t)
      BY <1>2, <3>1, FinishGoes, Kinds DEF Others
    <3>2. CASE ~Finish(t)
      <4>1. Others(t)
        BY <3>2, OthersRest DEF Tame
      <4> QED BY <1>2, <4>1, Kinds DEF Others
    <3> QED BY <3>1, <3>2
  <2> QED BY <2>1, <2>2, <2>3, RestingMigrating
<1>3. CASE t = Selector
  <2>1. ~Gather(t) /\ ~Clear(t) /\ ~Cleared(t)
    BY <1>3 DEF Turns, Own, Gather, Clear, Cleared
  <2>2. CASE Finish(t)
    <3>1. task'[Selector] = [Idle EXCEPT !.pc = "waiting"]
      BY <1>3, <2>2, FinishGoes, Kinds
    <3>2. task'[Selector].todo = {} /\ task'[Selector].pc = "waiting"
      BY <3>1 DEF Idle
    <3> QED BY <3>2, RestingMigrating
  <2>3. CASE Add(t)
    BY <1>3, <2>3, AddMigrating
  <2>4. CASE ~Finish(t) /\ ~Add(t)
    <3>1. task[t].pc \in Working
      BY ZenonT(30), <2>1, <2>4 DEF Tame, Exec, Watch, Stored, Limit, Look, Wipe, Evicted, Moved, RolledBack,
                        Working, Adding, Removing
    <3> QED BY <1>3, <2>1, <2>4, <3>1, AtWorkMigrating DEF Tame
  <2> QED BY <2>2, <2>3, <2>4
<1> QED BY <1>2, <1>3

LEMMA StartMigrationMigrating ==
  ASSUME IInv, Turns, Inverse, Mirror, Homed, Tidy, StartMigration, ~overlap'
  PROVE  Migrating(task[Selector])'
<1> DEFINE s == task'[Selector]
<1>1. s.pc = "next" /\ UNCHANGED rev
  BY StartMigrationGoes DEF redis
<1>2. PICK C \in SUBSET Active :
        s.todo = {[prog |-> p, src |-> home[p], cell |-> cell[p]] : p \in C}
  BY StartMigrationGoes
<1>3. ASSUME NEW p \in C PROVE There(p, home[p])'
  <2>1. \A u \in Tasks : task[u].pc \notin Lagging
    BY MigrationRests DEF Lagging
  <2>2. PICK i \in Islands : p \in Programs /\ In(p, i)
    BY <2>1, Elites
  <2>3. ~Away(p, i)
    BY MigrationRests, NoAway, Kinds DEF Away
  <2>4. i = home[p] /\ UNCHANGED home
    BY <2>2, <2>3, StartMigrationGoes DEF Homed, Housed, blobs
  <2>5. There(p, i)'
    BY <1>1, <2>2 DEF There, In
  <2> QED BY <2>4, <2>5
<1>4. UNCHANGED home
  BY StartMigrationGoes DEF blobs
<1>5. \A job \in s.todo : There(job.prog, job.src)'
  BY <1>2, <1>3, <1>4
<1> QED BY <1>1, <1>5, MigratingStep DEF Working, Adding, Removing

LEMMA CallersMigrating ==
  ASSUME IInv, Turns, Tidy, Sourced(task[Selector]), Migrating(task[Selector]),
         Calling \/ StartReindex \/ \E B \in SUBSET Programs : Ingest(B)
  PROVE  Migrating(task[Selector])'
<1>1. CASE MigrationEnds
  BY <1>1, MigrationEndsGoes, RestingMigrating DEF Idled
<1>2. CASE ~MigrationEnds
  <2> DEFINE r == task[Selector]
  <2>1. task'[Selector] = r
    BY <1>2, VerdictGoes, ReindexEndsGoes, StartReindexGoes, IngestGoes, Kinds DEF Calling, Others
  <2>2. \A p \in Programs, i \in Islands : There(p, i) => There(p, i)'
    BY CallersStay
  <2>3. \A p \in Programs : Lost(p) => Lost(p)'
    BY CallersLost
  <2>4. \A job \in r.todo : job.prog \in Programs /\ job.src \in Islands
    BY Job, Kinds DEF Sourced
  <2>5. r.pc \in Working => r.prog \in Programs /\ r.src \in Islands /\ r.on \in Islands
    BY Migrant
  <2> QED BY <2>1, <2>2, <2>3, <2>4, <2>5 DEF Migrating, Working, Adding, Removing
<1> QED BY <1>1, <1>2

-----------------------------------------------------------------------------
LEMMA NextKInv == ASSUME IInv, QInv, KInv, Next PROVE KInv'
<1> SUFFICES ASSUME Calm', crashes' = 0 PROVE Fresh' /\ Tidy' /\ Gone' /\ Keep'
  BY DEF KInv
<1>1. Once'
  BY DEF Once
<1>2. Once /\ crashes \in Nat /\ ~overlap'
  BY <1>1, CalmStep DEF Calm
<1>3. ~(Crash /\ crashes' = crashes + 1)
  BY <1>2
<1>4. crashes = 0 /\ Calm
  BY <1>1, <1>2, <1>3, CalmStep DEF Once
<1>5. Basis /\ Celled /\ Homed /\ Fresh /\ Tidy /\ Gone /\ Keep
  BY <1>2, <1>4 DEF QInv, KInv
<1>6. /\ Turns /\ Inverse /\ Mirror /\ Jobbed /\ New /\ Evicting /\ Sourced(task[Selector])
      /\ Left /\ Readds /\ Admitted /\ Remains /\ Clearing /\ Migrating(task[Selector])
  BY <1>5 DEF Basis, Homed, Gone, Keep
<1>7. CASE \E t \in Tasks : Tame(t) \/ Gather(t) \/ Add(t) \/ Exec(t)
  <2>1. PICK t \in Tasks : Tame(t) \/ Gather(t) \/ Add(t) \/ Exec(t)
    BY <1>7
  <2>2. Fresh'
    BY <1>5, <1>6, <2>1, TameFresh, StepFresh
  <2>3. Tidy'
    BY <1>5, <1>6, <2>1, StepTidy, FinishTidy DEF Tame
  <2>4. Left'
    BY <1>5, <1>6, <2>1, TameLeft, ExecLeft
  <2>5. Readds'
    BY <1>6, <2>1, TameReadds, StepReadds
  <2>6. Admitted'
    BY <1>5, <1>6, <2>1, TameAdmitted, ExecAdmitted
  <2>7. Remains' /\ Ingested(task[Ingestor])'
    BY <1>5, <1>6, <2>1, StepRemains, StepIngested
  <2>8. Clearing' /\ Migrating(task[Selector])'
    BY <1>5, <1>6, <2>1, StepClearing, StepMigrating
  <2> QED BY <2>2, <2>3, <2>4, <2>5, <2>6, <2>7, <2>8 DEF Gone, Keep
<1>8. CASE Calling \/ StartMigration \/ StartReindex \/ \E B \in SUBSET Programs : Ingest(B)
  <2>1. Fresh' /\ Tidy'
    BY <1>5, <1>6, <1>8, CallersFresh, CallersTidy
  <2>2. Gone'
    BY <1>5, <1>6, <1>8, CallersLeft, CallersReadds, CallersAdmitted DEF Gone
  <2>3. Remains' /\ Ingested(task[Ingestor])' /\ Clearing'
    BY <1>5, <1>6, <1>8, CallersRemain, CallersIngested, CallersClearing
  <2>4. Migrating(task[Selector])'
    BY <1>2, <1>5, <1>6, <1>8, CallersMigrating, StartMigrationMigrating
  <2> QED BY <2>1, <2>2, <2>3, <2>4 DEF Keep
<1> QED BY <1>1, <1>3, <1>7, <1>8, CalmStep

LEMMA InitKInv == ASSUME Init PROVE KInv
<1>1. \A t \in Tasks : task[t] = Idle /\ Idled(task[t])
  BY Idles DEF Init
<1>2. /\ \A i \in Islands, p \in Programs : rev[i][p] = None
      /\ \A p \in Programs : state[p] = "NEW" /\ home[p] = None
  BY DEF Init
<1>3. Fresh /\ Tidy
  BY <1>1, <1>2, Kinds DEF Fresh, Tidy, Idled, Adding
<1>4. Gone
  BY <1>1, <1>2, Kinds DEF Gone, Left, In, Readds, Admitted, Idled, Adding
<1>5. Remains /\ Ingested(task[Ingestor])
  BY <1>1, <1>2, Kinds DEF Remains, Ingested, Idled, Removing
<1>6. Clearing /\ Migrating(task[Selector])
  BY <1>1, Kinds DEF Clearing, Migrating, Idled, Adding, Removing
<1> QED BY <1>3, <1>4, <1>5, <1>6 DEF KInv, Keep

LEMMA StutterKInv == ASSUME KInv, UNCHANGED vars PROVE KInv'
<1>1. UNCHANGED <<rev, state, home, task, engine, faults, crashes, overlap, beaten>>
  BY DEF vars, redis, memory, blobs, counts
<1>2. Fresh /\ Tidy => Fresh' /\ Tidy'
  BY <1>1 DEF Fresh, Tidy
<1>3. Left => Left'
  BY <1>1 DEF Left, In, Leaving, LeavesSource, LeavesTarget
<1>4. Readds /\ Admitted => Readds' /\ Admitted'
  BY <1>1 DEF Readds, Admitted, In
<1>5. \A p : Lost(p) => Lost(p)'
  BY <1>1 DEF Lost, Out
<1>6. \A p, i : There(p, i) => There(p, i)'
  BY <1>1, <1>5 DEF There, In
<1>7. \A p : Somewhere(p) => Somewhere(p)'
  BY <1>1, <1>5 DEF Somewhere, In
<1>8. \A p : Readded(p) => Readded(p)'
  BY <1>1 DEF Readded, ReaddedBy
<1>9. Remains => Remains'
  BY <1>1, <1>7, <1>8 DEF Remains
<1>10. Ingested(task[Ingestor]) => Ingested(task[Ingestor])'
  BY <1>1, <1>6, <1>7 DEF Ingested
<1>11. Clearing => Clearing'
  BY <1>1 DEF Clearing, In
<1>12. Migrating(task[Selector]) => Migrating(task[Selector])'
  BY <1>1, <1>5, <1>6 DEF Migrating
<1> QED BY <1>1, <1>2, <1>3, <1>4, <1>9, <1>10, <1>11, <1>12 DEF KInv, Calm, Gone, Keep

(* While it is calm and no crash interrupts it, every program is where     *)
(* KInv says it is.                                                        *)
THEOREM KeptInductive == Spec => []KInv
<1>1. IInv /\ QInv /\ KInv /\ [Next]_vars => KInv'
  BY NextKInv, StutterKInv
<1> QED
  BY <1>1, InitKInv, Inductive, CalmInductive, PTL DEF Spec

LEMMA ArchivedIn ==
  ASSUME IInv, Inverse, NEW p \in Programs
  PROVE  Archived(p) <=> \E i \in Islands : In(p, i)
<1>1. ASSUME NEW i \in Islands, In(p, i) PROVE rev[i][p] \in Cells
  BY <1>1, InTypes DEF In
<1> QED BY <1>1, IslandsAssumption DEF Archived, In, Inverse

(* What the engine or an island's limit discards is in no archive when all *)
(* is at rest (MapElitesIsland._enforce_size_limit, the migration's        *)
(* remove_elite_by_id and its rollback, the engine's settling of a batch). *)
THEOREM DiscardedLeave == Spec => []NoDiscardedElite
<1>1. IInv /\ QInv /\ KInv => NoDiscardedElite
  <2> SUFFICES ASSUME IInv, QInv, KInv, Calm, crashes = 0, Resting(Tasks),
                      NEW p \in Programs, state[p] = "DISCARDED"
               PROVE  ~Archived(p)
    BY DEF NoDiscardedElite
  <2>1. Inverse /\ Left
    BY DEF QInv, Once, Basis, KInv, Gone
  <2>2. task[Selector].pc = "idle"
    BY Kinds DEF Resting
  <2> QED BY <2>1, <2>2, NoneLeaving, ArchivedIn
<1> QED
  BY <1>1, Inductive, CalmInductive, KeptInductive, PTL

(* No elite is lost: a program that is not discarded is in an archive, or  *)
(* being ingested or evicted, or lost its cell to a better one; a          *)
(* migration holds it in its source or its destination at every step.      *)
THEOREM ElitesAreKept == Spec => []Kept
<1>1. IInv /\ QInv /\ KInv => Kept
  <2> SUFFICES ASSUME IInv, QInv, KInv, Calm, crashes = 0, Resting(Helpers("reindex")),
                      NEW p \in Programs, state[p] = "DONE"
               PROVE  \/ Archived(p) \/ p \in beaten
                      \/ p \in task[Ingestor].batch
                      \/ \E t \in Tasks : task[t].why = "limit" /\ p \in task[t].out
    BY DEF Kept
  <2>1. Inverse /\ Turns /\ Remains
    BY DEF QInv, Once, Basis, KInv, Keep
  <2>2. Somewhere(p) \/ p \in task[Ingestor].batch
    BY <2>1, NotReadded DEF Remains
  <2> QED BY <2>1, <2>2, ArchivedIn DEF Somewhere, Lost, Out
<1> QED
  BY <1>1, Inductive, CalmInductive, KeptInductive, PTL

=============================================================================
