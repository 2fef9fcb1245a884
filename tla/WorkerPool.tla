---------------------------- MODULE WorkerPool -----------------------------
(***************************************************************************)
(* The pool of persistent worker processes in which stages run user code   *)
(* (gigaevo/programs/stages/python_executors: WorkerPool and               *)
(* run_exec_runner in wrapper.py, the worker's loop in exec_runner.py).    *)
(*                                                                         *)
(* A call borrows a worker, writes a request, reads the answer and gives   *)
(* the worker back.  A worker that times out or dies is killed and the     *)
(* code is run once more in a process of its own (one-shot).  The pool's   *)
(* lock is held across the start of a process; everything else that it     *)
(* guards is a single step.                                                *)
(*                                                                         *)
(* The answer is read as a length and a body.  When the length exceeds     *)
(* max_output_size the body is left in the pipe ("rest").  An answer that  *)
(* reports an error of the call's code counts as its value.                *)
(***************************************************************************)
EXTENDS Integers, Sequences, FiniteSets

CONSTANTS
  Calls,
  Workers,      \* bound: processes, those that are gone may be started again
  None,
  MaxWorkers,   \* max_workers
  Big,          \* calls whose answer exceeds max_output_size
  Loud,         \* calls whose code prints
  StderrRoom,   \* prints that fit in the worker's stderr, which nobody reads
  MaxTimeouts,  \* bound: timeouts of calls whose worker is not stuck
  MaxDeaths,    \* bound: workers that die (memory limit, crash)
  MaxCancels,   \* bound: cancellations (stage timeout, timeout of the DAG)
  MaxUnreaped   \* bound: killed processes that still run two seconds later

ASSUME PoolAssumption ==
  /\ Big \subseteq Calls /\ Loud \subseteq Calls
  /\ None \notin Calls \cup Workers
  /\ MaxWorkers \in Nat \ {0} /\ StderrRoom \in Nat
  /\ MaxTimeouts \in Nat /\ MaxDeaths \in Nat /\ MaxCancels \in Nat
  /\ MaxUnreaped \in Nat

VARIABLES
  pc,       \* where a call is
  worker,   \* the worker it has borrowed
  after,    \* what follows once its worker is discarded
  outcome,  \* how it ended: a kind, and the call whose answer was read
  queue,    \* idle workers
  count,    \* _count
  lock,     \* the call that holds _lock while it starts a process
  life,     \* "gone" | "alive" | "dead"
  request,  \* what a worker has yet to read
  out,      \* what it has written and nobody has read
  printed,  \* prints in its stderr pipe
  leaked,   \* history: processes that nobody owns or has discarded
  twice,    \* history: processes that were taken off _count twice
  timeouts, deaths, cancels, unreaped

pool == <<queue, count, lock>>
processes == <<life, request, out, printed>>
slips == <<leaked, twice, unreaped>>
mishaps == <<timeouts, deaths, cancels, slips>>
vars == <<pc, worker, after, outcome, pool, processes, mishaps>>

Kinds == {"none", "value", "too large", "garbage", "timeout", "cancelled"}
Ended(kind, d) == [kind |-> kind, of |-> d]
Open == Ended("none", None)

Places == {"idle", "starting", "waiting", "running", "discarding", "killing",
           "again", "finally", "oneshot", "ended"}

Token == [of : Calls, part : {"answer", "rest"}]

TypeOK ==
  /\ pc \in [Calls -> Places]
  /\ worker \in [Calls -> Workers \cup {None}]
  /\ after \in [Calls -> {"oneshot", "ended"}]
  /\ outcome \in [Calls -> [kind : Kinds, of : Calls \cup {None}]]
  /\ queue \in Seq(Workers) /\ count \in Int /\ lock \in Calls \cup {None}
  /\ life \in [Workers -> {"gone", "alive", "dead"}]
  /\ request \in [Workers -> Seq(Calls)]
  /\ out \in [Workers -> Seq(Token)]
  /\ printed \in [Workers -> 0..StderrRoom]
  /\ timeouts \in 0..MaxTimeouts
  /\ deaths \in 0..MaxDeaths /\ cancels \in 0..MaxCancels
  /\ leaked \in Nat /\ twice \in Nat /\ unreaped \in 0..MaxUnreaped

Init ==
  /\ pc = [c \in Calls |-> "idle"]
  /\ worker = [c \in Calls |-> None]
  /\ after = [c \in Calls |-> "ended"]
  /\ outcome = [c \in Calls |-> Open]
  /\ queue = << >> /\ count = 0 /\ lock = None
  /\ life = [w \in Workers |-> "gone"]
  /\ request = [w \in Workers |-> << >>]
  /\ out = [w \in Workers |-> << >>]
  /\ printed = [w \in Workers |-> 0]
  /\ leaked = 0 /\ twice = 0
  /\ timeouts = 0 /\ deaths = 0 /\ cancels = 0 /\ unreaped = 0

-----------------------------------------------------------------------------
(* get_worker.                                                             *)

(* A call that has a worker writes its request at once; a dead worker's    *)
(* pipe takes it too, or breaks: Broken covers both.                       *)
Send(c, w) ==
  /\ pc' = [pc EXCEPT ![c] = "running"]
  /\ worker' = [worker EXCEPT ![c] = w]
  /\ request' = [request EXCEPT ![w] = Append(@, c)]

TakeIdle(c) ==
  /\ queue # << >>
  /\ Send(c, Head(queue))
  /\ queue' = Tail(queue)
  /\ UNCHANGED <<after, outcome, count, lock, life, out, printed, mishaps>>

GetIdle(c) == pc[c] = "idle" /\ lock = None /\ TakeIdle(c)

GetNewUnlocked(c) ==  \* mutant: the lock is not held across the start
  /\ pc[c] = "idle" /\ lock = None /\ queue = << >> /\ count < MaxWorkers
  /\ pc' = [pc EXCEPT ![c] = "starting"]
  /\ UNCHANGED <<worker, after, outcome, pool, processes, mishaps>>

GetNew(c) ==
  /\ pc[c] = "idle" /\ lock = None /\ queue = << >> /\ count < MaxWorkers
  /\ lock' = c
  /\ pc' = [pc EXCEPT ![c] = "starting"]
  /\ UNCHANGED <<worker, after, outcome, queue, count, processes, mishaps>>

(* Nobody looks at _count again once a call waits for the queue.           *)
GetWait(c) ==
  /\ pc[c] = "idle" /\ lock = None /\ queue = << >> /\ count >= MaxWorkers
  /\ pc' = [pc EXCEPT ![c] = "waiting"]
  /\ UNCHANGED <<worker, after, outcome, pool, processes, mishaps>>

Started(c) ==
  /\ pc[c] = "starting"
  /\ \E w \in Workers :
       /\ life[w] = "gone"
       /\ Send(c, w)
       /\ life' = [life EXCEPT ![w] = "alive"]
  /\ count' = count + 1 /\ lock' = None
  /\ UNCHANGED <<after, outcome, queue, out, printed, mishaps>>

(* asyncio.Queue wakes one waiter; another call may be quicker.            *)
Take(c) == pc[c] = "waiting" /\ TakeIdle(c)

-----------------------------------------------------------------------------
(* The worker process.                                                     *)

Stuck(w) ==
  /\ life[w] = "alive" /\ request[w] # << >>
  /\ Head(request[w]) \in Loud /\ printed[w] = StderrRoom

Work(w) ==
  /\ life[w] = "alive" /\ request[w] # << >> /\ ~Stuck(w)
  /\ LET c == Head(request[w]) IN
       /\ out' = [out EXCEPT ![w] = Append(@, [of |-> c, part |-> "answer"])]
       /\ printed' = [printed EXCEPT ![w] = IF c \in Loud THEN @ + 1 ELSE @]
  /\ request' = [request EXCEPT ![w] = Tail(@)]
  /\ UNCHANGED <<pc, worker, after, outcome, pool, life, mishaps>>

Die(w) ==
  /\ life[w] = "alive" /\ deaths < MaxDeaths
  /\ life' = [life EXCEPT ![w] = "dead"]
  /\ deaths' = deaths + 1
  /\ UNCHANGED <<pc, worker, after, outcome, pool, request, out, printed,
                 timeouts, cancels, slips>>

-----------------------------------------------------------------------------
(* _run_via_worker and what run_exec_runner does with its outcome.         *)

(* return_worker: an idle worker, or, when its exit has been noticed, one  *)
(* to discard like any other.                                              *)
Return(c, o) ==
  LET w == worker[c] IN
  /\ outcome' = [outcome EXCEPT ![c] = o]
  /\ after' = [after EXCEPT ![c] = "ended"]
  /\ \/ /\ pc' = [pc EXCEPT ![c] = "ended"]
        /\ worker' = [worker EXCEPT ![c] = None]
        /\ queue' = Append(queue, w)
     \/ /\ life[w] = "dead"
        /\ pc' = [pc EXCEPT ![c] = "discarding"]
        /\ UNCHANGED <<worker, queue>>

ReadAnswerKept(c) ==  \* mutant: the worker is not given back after an error
  LET w == worker[c] d == Head(out[w]).of IN
  /\ pc[c] = "running" /\ out[w] # << >> /\ Head(out[w]).part = "answer"
  /\ IF d \in Big
       THEN /\ out' = [out EXCEPT ![w] = <<[of |-> d, part |-> "rest"]>> \o Tail(@)]
            /\ outcome' = [outcome EXCEPT ![c] = Ended("too large", d)]
            /\ pc' = [pc EXCEPT ![c] = "ended"]
            /\ UNCHANGED <<after, worker, queue>>
       ELSE /\ out' = [out EXCEPT ![w] = Tail(@)]
            /\ Return(c, Ended("value", d))
  /\ UNCHANGED <<count, lock, life, request, printed, mishaps>>

ReadAnswer(c) ==
  LET w == worker[c] d == Head(out[w]).of IN
  /\ pc[c] = "running" /\ out[w] # << >> /\ Head(out[w]).part = "answer"
  /\ IF d \in Big
       THEN /\ out' = [out EXCEPT ![w] = <<[of |-> d, part |-> "rest"]>> \o Tail(@)]
            /\ Return(c, Ended("too large", d))
       ELSE /\ out' = [out EXCEPT ![w] = Tail(@)]
            /\ Return(c, Ended("value", d))
  /\ UNCHANGED <<count, lock, life, request, printed, mishaps>>

(* The rest of a body taken for a length: a huge one, or a small one whose *)
(* body does not unpickle.  The second exception is not an ExecRunnerError *)
(* and the finally clause discards the worker.  Assumed: those bytes never *)
(* unpickle to a value (they begin within a body, at a pickle's opcodes).  *)
Misread(c) ==
  LET w == worker[c] d == Head(out[w]).of IN
  /\ pc[c] = "running" /\ out[w] # << >> /\ Head(out[w]).part = "rest"
  /\ \/ Return(c, Ended("too large", d))
     \/ /\ outcome' = [outcome EXCEPT ![c] = Ended("garbage", d)]
        /\ pc' = [pc EXCEPT ![c] = "finally"]
        /\ after' = [after EXCEPT ![c] = "ended"]
        /\ UNCHANGED <<worker, queue>>
  /\ UNCHANGED <<count, lock, processes, mishaps>>

KillAndRepeat(c) ==
  /\ life' = [life EXCEPT ![worker[c]] = "dead"]
  /\ pc' = [pc EXCEPT ![c] = "discarding"]
  /\ after' = [after EXCEPT ![c] = "oneshot"]
  /\ UNCHANGED <<worker, outcome, pool, request, out, printed, deaths, cancels,
                 slips>>

Broken(c) ==
  /\ pc[c] = "running" /\ life[worker[c]] = "dead" /\ out[worker[c]] = << >>
  /\ KillAndRepeat(c)
  /\ UNCHANGED timeouts

TimeoutReturns(c) ==  \* mutant: the late worker is given back alive
  /\ pc[c] = "running" /\ timeouts < MaxTimeouts
  /\ timeouts' = timeouts + 1
  /\ queue' = Append(queue, worker[c])
  /\ worker' = [worker EXCEPT ![c] = None]
  /\ pc' = [pc EXCEPT ![c] = "oneshot"]
  /\ UNCHANGED <<after, outcome, count, lock, processes, deaths, cancels, slips>>

Timeout(c) ==
  /\ pc[c] = "running"
  /\ \/ Stuck(worker[c]) /\ UNCHANGED timeouts
     \/ timeouts < MaxTimeouts /\ timeouts' = timeouts + 1
  /\ KillAndRepeat(c)

(* discard_worker, once the lock is free: the count goes down, the process *)
(* gets its SIGKILL, and its end is awaited, for two seconds at most.  Only *)
(* a process that was killed before and is still there makes the code wait *)
(* with a clause yet to come.  A discard wakes no waiter.                  *)
Discard(c) ==
  LET w == worker[c] IN
  /\ pc[c] \in {"discarding", "finally"} /\ lock = None
  /\ count' = count - 1
  /\ life' = [life EXCEPT ![w] = "gone"]
  /\ request' = [request EXCEPT ![w] = << >>]
  /\ out' = [out EXCEPT ![w] = << >>]
  /\ printed' = [printed EXCEPT ![w] = 0]
  /\ worker' = [worker EXCEPT ![c] = None]
  /\ \/ pc' = [pc EXCEPT ![c] = after[c]] /\ UNCHANGED unreaped
     \/ /\ after[c] = "oneshot" /\ unreaped < MaxUnreaped
        /\ unreaped' = unreaped + 1
        /\ pc' = [pc EXCEPT ![c] = "killing"]
  /\ UNCHANGED <<after, outcome, queue, lock, leaked, twice, timeouts, deaths,
                 cancels>>

Killed(c) ==
  /\ pc[c] = "killing"
  /\ pc' = [pc EXCEPT ![c] = after[c]]
  /\ UNCHANGED <<worker, after, outcome, pool, processes, mishaps>>

(* The finally clause of a call that was cancelled in the awaited kill:    *)
(* "returned" is still False, and its worker is discarded once more.       *)
DiscardAgain(c) ==
  /\ pc[c] = "again" /\ lock = None
  /\ count' = count - 1 /\ twice' = twice + 1
  /\ pc' = [pc EXCEPT ![c] = "ended"]
  /\ UNCHANGED <<worker, after, outcome, queue, lock, processes, timeouts, deaths,
                 cancels, leaked, unreaped>>

OneShot(c) ==
  /\ pc[c] = "oneshot"
  /\ \/ /\ outcome' = [outcome EXCEPT ![c] =
                         Ended(IF c \in Big THEN "too large" ELSE "value", c)]
        /\ UNCHANGED timeouts
     \/ /\ timeouts < MaxTimeouts /\ timeouts' = timeouts + 1
        /\ outcome' = [outcome EXCEPT ![c] = Ended("timeout", c)]
  /\ pc' = [pc EXCEPT ![c] = "ended"]
  /\ UNCHANGED <<worker, after, pool, processes, deaths, cancels, slips>>

(* The stage's own timeout cancels a call, the DAG's may cancel it again.  *)
(* Where the call has a worker, the finally clause discards it; before     *)
(* that nothing is owned but the lock.  The finally clause can itself be   *)
(* cancelled while it waits for the lock: the worker is then nobody's.     *)
Interrupted(p, w) ==
  IF p = "killing" THEN "again"
  ELSE IF p # "finally" /\ w # None THEN "finally" ELSE "ended"

Cancel(c) ==
  /\ pc[c] # "ended" /\ cancels < MaxCancels
  /\ pc[c] \in {"finally", "again"} => lock # None
  /\ outcome' = [outcome EXCEPT ![c] = Ended("cancelled", c)]
  /\ after' = [after EXCEPT ![c] = "ended"]
  /\ pc' = [pc EXCEPT ![c] = Interrupted(@, worker[c])]
  /\ IF pc[c] = "finally"
       THEN worker' = [worker EXCEPT ![c] = None] /\ leaked' = leaked + 1
       ELSE UNCHANGED <<worker, leaked>>
  /\ lock' = IF lock = c THEN None ELSE lock
  /\ cancels' = cancels + 1
  /\ UNCHANGED <<queue, count, processes, timeouts, deaths, twice, unreaped>>

-----------------------------------------------------------------------------
CallStep(c) ==
  \/ GetIdle(c) \/ GetNew(c) \/ GetWait(c) \/ Started(c) \/ Take(c)
  \/ ReadAnswer(c) \/ Misread(c) \/ Broken(c) \/ Discard(c) \/ Killed(c)
  \/ DiscardAgain(c) \/ OneShot(c)

Next ==
  \/ \E c \in Calls : CallStep(c) \/ Timeout(c) \/ Cancel(c)
  \/ \E w \in Workers : Work(w) \/ Die(w)

Spec == Init /\ [][Next]_vars

(* The event loop runs every coroutine that can run; a worker that is not  *)
(* stuck answers; the timeout of a call whose worker is stuck fires.       *)
FairSpec ==
  /\ Spec
  /\ \A c \in Calls : WF_vars(CallStep(c))
                      /\ WF_vars(Timeout(c) /\ Stuck(worker[c]))
  /\ \A w \in Workers : WF_vars(Work(w))

-----------------------------------------------------------------------------
(* The inductive invariant.                                                *)

Borrowed == {c \in Calls : worker[c] # None}
Live == {w \in Workers : life[w] # "gone"}

(* A process has at most one owner, a call or the queue.                   *)
Owned ==
  /\ \A c \in Calls : c \in Borrowed <=> pc[c] \in {"running", "discarding", "finally"}
  /\ \A c, d \in Borrowed : worker[c] = worker[d] => c = d
  /\ \A i, j \in 1..Len(queue) : queue[i] = queue[j] => i = j
  /\ \A c \in Borrowed : \A i \in 1..Len(queue) : worker[c] # queue[i]
  /\ \A c \in Borrowed : worker[c] \in Live
  /\ \A i \in 1..Len(queue) : queue[i] \in Live

(* The lock reserves room for the process that is being started.           *)
Counted ==
  /\ \A c \in Calls : lock = c <=> pc[c] = "starting"
  /\ count <= MaxWorkers /\ (lock # None => count < MaxWorkers)
  /\ IsFiniteSet(Borrowed)
  /\ count = Len(queue) + Cardinality(Borrowed) + leaked - twice
  /\ IsFiniteSet(Live) /\ count = Cardinality(Live) - twice

(* Half an answer at the front of a pipe stays there until the worker is   *)
(* discarded: nothing behind it is ever read.                              *)
Poisoned(w) == out[w] # << >> /\ Head(out[w]).part = "rest"
Clean(w) == request[w] = << >> /\ out[w] = << >>

(* Other pipes hold what the borrower has asked for and not yet got.       *)
Serves(w, c) ==
  \/ Poisoned(w)
  \/ request[w] = <<c>> /\ out[w] = << >>
  \/ request[w] = << >> /\ out[w] = <<[of |-> c, part |-> "answer"]>>

Pipes ==
  /\ \A w \in Workers \ Live : Clean(w)
  /\ \A i \in 1..Len(queue) : Poisoned(queue[i]) \/ Clean(queue[i])
  /\ \A c \in Calls : pc[c] = "running" => Serves(worker[c], c)

-----------------------------------------------------------------------------
(* A call that returns a value returns what its own code computed, however *)
(* workers were shared, timed out, died or were given back half read.      *)
AnswersOwn == \A c \in Calls : outcome[c].kind = "value" => outcome[c].of = c

IInv == TypeOK /\ Owned /\ Counted /\ Pipes /\ AnswersOwn

(* The pool's arithmetic, whatever is cancelled where.  _count is the      *)
(* number of processes, less those that a cancellation of the awaited kill *)
(* has made the pool count off twice; each of them has one owner, a call   *)
(* or the queue, but for those whose discard was itself cancelled; and the *)
(* pool never counts more than max_workers.                                *)
Accounted ==
  LET processesLeft == Cardinality({w \in Workers : life[w] # "gone"}) IN
  /\ processesLeft = Len(queue) + Cardinality(Borrowed) + leaked
  /\ count = processesLeft - twice /\ count <= MaxWorkers
  /\ \A c \in Borrowed : life[worker[c]] # "gone"
  /\ \A i \in 1..Len(queue) : life[queue[i]] # "gone"

(* A call that waits for a worker gets one, or is cancelled, unless no     *)
(* worker is left that somebody could give back.                           *)
Served ==
  \A c \in Calls :
    pc[c] = "waiting" ~> (pc[c] # "waiting" \/ (queue = << >> /\ Borrowed = {}))

(* Refuted: there are never more processes than max_workers.               *)
ProcessesBounded == Cardinality(Live) <= MaxWorkers

(* Refuted: a process that is not gone has an owner who will see to it.    *)
NothingLeaked == leaked = 0

(* Refuted: a call fails as too large, or with bytes it cannot read, only  *)
(* because of its own answer.                                              *)
FailsOfItsOwn ==
  \A c \in Calls : outcome[c].kind \in {"too large", "garbage"} => outcome[c].of = c

(* Refuted: whoever waits for a worker waits for one that may come back.   *)
NobodyWaitsInVain == \A c \in Calls : pc[c] = "waiting" => count > 0
=============================================================================
