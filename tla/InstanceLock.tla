---------------------------- MODULE InstanceLock ----------------------------
(***************************************************************************)
(* RedisInstanceLock (gigaevo/database/redis/locking.py): one key per      *)
(* Redis prefix, set with an expiry by the instance that starts, renewed   *)
(* by a background task and deleted when the storage is closed.  The       *)
(* server's commands are the steps; time passes in ticks.                  *)
(*                                                                         *)
(* An operation is a RedisConnection.execute: its commands, run again from *)
(* the first one when an attempt fails or a reply is lost.  Nothing bounds *)
(* its time (five attempts, 60 s until one times out); "late" records that *)
(* one took longer than OpTime ticks.  run.py closes the storage from two  *)
(* coroutines at once (Closers), the engine's stop and the DAG runner's.   *)
(***************************************************************************)
EXTENDS Integers, FiniteSets

CONSTANTS
  Instances,   \* processes that use one prefix
  Closers,     \* concurrent calls of close() in an instance
  Expiry,      \* lock_expiry_secs
  Renewal,     \* lock_renewal_secs
  OpTime,      \* ticks an operation takes, its retries included, or is late
  MaxFailures  \* bound: operations that fail for good

(* The code checks no relation between the times.                          *)
ASSUME LockAssumption ==
  /\ {"nobody", "dead"} \cap Instances = {}
  /\ Expiry \in Nat \ {0} /\ Renewal \in Nat \ {0} /\ OpTime \in Nat
  /\ MaxFailures \in Nat

VARIABLES
  holder,   \* the instance in the key's value; "dead": of an earlier process
  ttl,      \* what is left of the key's expiry
  pc,       \* pc[i]: where instance i is
  age,      \* age[i]: ticks since its sleep or its operation began
  closer,   \* closer[i][c]: one call of release()
  failures,
  overlap,  \* history: two releases of one instance have been under way
  late      \* history: a sleep or an operation has taken longer than it should

vars == <<holder, ttl, pc, age, closer, failures, overlap, late>>
faults == <<failures, overlap, late>>

Renewing == {"reading", "own", "free", "renewed"}  \* points of renew()
Acquiring == {"asking", "granted"}                 \* points of acquire()

LockTypeOK ==
  /\ holder \in Instances \cup {"nobody", "dead"}
  /\ ttl \in 0..Expiry /\ (holder = "nobody" <=> ttl = 0)
  /\ pc \in [Instances -> {"off", "refused", "using", "blind", "stopping"}
                            \cup Acquiring \cup Renewing]
  /\ age \in [Instances -> 0..(Renewal + OpTime)]
  /\ closer \in [Instances -> [Closers -> {"idle", "read", "del", "done"}]]
  /\ failures \in 0..MaxFailures /\ overlap \in BOOLEAN /\ late \in BOOLEAN

Init ==
  /\ holder = "nobody" /\ ttl = 0
  /\ pc = [i \in Instances |-> "off"] /\ age = [i \in Instances |-> 0]
  /\ closer = [i \in Instances |-> [c \in Closers |-> "idle"]]
  /\ failures = 0 /\ overlap = FALSE /\ late = FALSE

Goto(i, point) == pc' = [pc EXCEPT ![i] = point]
Reset(i) == age' = [age EXCEPT ![i] = 0]

Take(i) == holder' = i /\ ttl' = Expiry  \* SET ... EX
Free == holder' = "nobody" /\ ttl' = 0   \* DEL, or the expiry
KeepKey == UNCHANGED <<holder, ttl>>

(* The process ends.  Its key, if it is still there, carries an instance   *)
(* id that no process has.                                                 *)
End(i) ==
  /\ Goto(i, "off") /\ Reset(i)
  /\ closer' = [closer EXCEPT ![i] = [c \in Closers |-> "idle"]]
  /\ holder' = IF holder = i THEN "dead" ELSE holder
  /\ UNCHANGED ttl

-----------------------------------------------------------------------------
(* acquire().                                                              *)

Start(i) ==
  /\ pc[i] = "off"
  /\ Goto(i, "asking") /\ Reset(i)
  /\ KeepKey /\ UNCHANGED <<closer, faults>>

AcquireSet(i) ==
  /\ pc[i] = "asking" /\ holder = "nobody"
  /\ Take(i) /\ Goto(i, "granted")
  /\ UNCHANGED <<age, closer, faults>>

AcquireLost(i) ==  \* the reply is lost: the operation runs again
  /\ pc[i] = "granted"
  /\ Goto(i, "asking")
  /\ KeepKey /\ UNCHANGED <<age, closer, faults>>

Acquired(i) ==  \* the renewal task starts with a sleep
  /\ pc[i] = "granted"
  /\ Goto(i, "using") /\ Reset(i)
  /\ KeepKey /\ UNCHANGED <<closer, faults>>

RefuseExtending(i) ==  \* mutant: the refused instance sets the expiry again
  /\ pc[i] = "asking" /\ holder # "nobody"
  /\ Goto(i, "refused") /\ Reset(i)
  /\ ttl' = Expiry /\ UNCHANGED <<holder, closer, faults>>

Refuse(i) ==  \* "another instance is using Redis prefix"
  /\ pc[i] = "asking" /\ holder # "nobody"
  /\ Goto(i, "refused") /\ Reset(i)
  /\ KeepKey /\ UNCHANGED <<closer, faults>>

GiveUp(i) ==  \* without a token the release does nothing
  /\ pc[i] = "refused"
  /\ End(i)
  /\ UNCHANGED faults

-----------------------------------------------------------------------------
(* renew(), from the renewal task.                                         *)

RenewStart(i) ==
  /\ pc[i] = "using" /\ age[i] = Renewal
  /\ Goto(i, "reading") /\ Reset(i)
  /\ KeepKey /\ UNCHANGED <<closer, faults>>

RenewGet(i) ==
  /\ pc[i] = "reading"
  /\ Goto(i, IF holder = i THEN "own" ELSE IF holder = "nobody" THEN "free" ELSE "blind")
  /\ KeepKey /\ UNCHANGED <<age, closer, faults>>

RenewSetKeepingTtl(i) ==  \* mutant: SET without a new expiry
  /\ pc[i] = "own"
  /\ holder' = i /\ ttl' = (IF ttl = 0 THEN Expiry ELSE ttl) /\ Goto(i, "renewed")
  /\ UNCHANGED <<age, closer, faults>>

RenewSet(i) ==  \* a plain SET: whose key it is was checked by the GET
  /\ pc[i] = "own"
  /\ Take(i) /\ Goto(i, "renewed")
  /\ UNCHANGED <<age, closer, faults>>

RenewNx(i) ==
  /\ pc[i] = "free"
  /\ \/ holder = "nobody" /\ Take(i) /\ Goto(i, "renewed")
     \/ holder # "nobody" /\ KeepKey /\ Goto(i, "blind")
  /\ UNCHANGED <<age, closer, faults>>

RenewAgain(i) ==  \* an attempt fails, or its reply is lost
  /\ pc[i] \in Renewing
  /\ Goto(i, "reading")
  /\ KeepKey /\ UNCHANGED <<age, closer, faults>>

Renewed(i) ==
  /\ pc[i] = "renewed"
  /\ Goto(i, "using") /\ Reset(i)
  /\ KeepKey /\ UNCHANGED <<closer, faults>>

(* A renewal that fails for good, or that finds another's key, ends the    *)
(* renewal task.  The instance goes on.                                    *)
RenewFails(i) ==
  /\ pc[i] \in Renewing
  /\ failures < MaxFailures /\ failures' = failures + 1
  /\ Goto(i, "blind")
  /\ KeepKey /\ UNCHANGED <<age, closer, overlap, late>>

-----------------------------------------------------------------------------
(* release(), from each call of close().                                   *)

Running(i) == pc[i] \in {"using", "blind"} \cup Renewing

(* The renewal task is cancelled first; a SET on its way may be applied.   *)
CloseFirst(i, c) ==
  /\ Running(i)
  /\ Goto(i, "stopping") /\ Reset(i)
  /\ closer' = [closer EXCEPT ![i][c] = "read"]
  /\ \/ KeepKey
     \/ pc[i] = "own" /\ Take(i)
     \/ pc[i] = "free" /\ holder = "nobody" /\ Take(i)
  /\ UNCHANGED faults

(* A second call returns at once when the token is gone.                   *)
CloseNext(i, c) ==
  /\ pc[i] = "stopping" /\ closer[i][c] = "idle"
  /\ IF "done" \in {closer[i][d] : d \in Closers}
       THEN closer' = [closer EXCEPT ![i][c] = "done"] /\ UNCHANGED overlap
       ELSE closer' = [closer EXCEPT ![i][c] = "read"] /\ overlap' = TRUE
  /\ Reset(i)
  /\ KeepKey /\ UNCHANGED <<pc, failures, late>>

ReleaseGet(i, c) ==
  /\ closer[i][c] = "read"
  /\ closer' = [closer EXCEPT ![i][c] = IF holder = i THEN "del" ELSE "done"]
  /\ KeepKey /\ UNCHANGED <<pc, age, faults>>

ReleaseDel(i, c) ==  \* a plain DEL: whose key it is was checked by the GET
  /\ closer[i][c] = "del"
  /\ Free
  /\ closer' = [closer EXCEPT ![i][c] = "done"]
  /\ UNCHANGED <<pc, age, faults>>

(* The failure is logged.  Once another call has closed the connection     *)
(* every operation is refused.                                             *)
ReleaseFails(i, c) ==
  /\ closer[i][c] \in {"read", "del"}
  /\ \/ failures < MaxFailures /\ failures' = failures + 1
     \/ "done" \in {closer[i][d] : d \in Closers} /\ UNCHANGED failures
  /\ closer' = [closer EXCEPT ![i][c] = "done"]
  /\ KeepKey /\ UNCHANGED <<pc, age, overlap, late>>

Exit(i) ==
  /\ pc[i] = "stopping" /\ \A c \in Closers : closer[i][c] = "done"
  /\ End(i)
  /\ UNCHANGED faults

-----------------------------------------------------------------------------
(* The environment.                                                        *)

Crash(i) ==
  /\ pc[i] # "off"
  /\ End(i)
  /\ UNCHANGED faults

(* How long a sleep or an operation takes when it is not late.             *)
Limit(i) ==
  CASE pc[i] = "using" -> Renewal
    [] pc[i] \in Acquiring \cup Renewing -> OpTime
    [] \E c \in Closers : closer[i][c] \in {"read", "del"} -> OpTime
    [] OTHER -> -1  \* not timed

(* Nothing holds time back: an attempt may time out after a minute, and    *)
(* a busy event loop lets the renewal oversleep.                           *)
Tick ==
  /\ late' = (late \/ \E i \in Instances : age[i] = Limit(i))
  /\ age' = [i \in Instances |-> IF Limit(i) = -1 THEN 0
                                 ELSE IF age[i] = Limit(i) THEN age[i] ELSE age[i] + 1]
  /\ IF ttl <= 1 THEN Free ELSE ttl' = ttl - 1 /\ UNCHANGED holder
  /\ UNCHANGED <<pc, closer, failures, overlap>>

Acquire(i) == AcquireSet(i) \/ AcquireLost(i) \/ Acquired(i) \/ Refuse(i) \/ GiveUp(i)

Renew(i) ==
  \/ RenewStart(i) \/ RenewGet(i) \/ RenewSet(i) \/ RenewNx(i)
  \/ RenewAgain(i) \/ Renewed(i) \/ RenewFails(i)

Release(i) ==
  \/ \E c \in Closers : CloseNext(i, c) \/ ReleaseGet(i, c) \/ ReleaseDel(i, c)
                          \/ ReleaseFails(i, c)
  \/ Exit(i)

Process(i) == Acquire(i) \/ Renew(i) \/ Release(i)

Next ==
  \/ \E i \in Instances : Start(i) \/ Process(i) \/ Crash(i)
  \/ \E i \in Instances, c \in Closers : CloseFirst(i, c)
  \/ Tick

Spec == Init /\ [][Next]_vars

(* Time passes; nothing is assumed of the instances.                       *)
FairSpec == Spec /\ WF_vars(Tick)

-----------------------------------------------------------------------------
(* Properties.                                                             *)

(* An instance uses the prefix until its release has let go of the key.    *)
Uses(i) ==
  \/ Running(i)
  \/ pc[i] = "stopping" /\ \A c \in Closers : closer[i][c] # "done"

(* Three things end the protection for good: an operation that fails, as   *)
(* its instance goes on without a renewal; a second release that runs      *)
(* beside the first, as both may find the key and both delete it; and an   *)
(* operation that is late, as the key may expire under it.                 *)
Calm == failures = 0 /\ ~overlap /\ ~late

(* When being late is what it takes: see LeaseIsExclusive.                 *)
SafeTiming == Expiry > Renewal + OpTime + OpTime + OpTime

(* The docstring of RedisInstanceLock: it "prevents multiple instances     *)
(* from using the same Redis prefix".                                      *)
Exclusive ==
  \A i, j \in Instances : Uses(i) /\ Uses(j) => i = j

(* It does, through lost replies, crashes and restarts, until one of the   *)
(* three happens.                                                          *)
CalmExclusive == Calm => Exclusive

(* The test test_only_deletes_own_lock: a release "does NOT delete a lock  *)
(* held by another instance", although another command may run between     *)
(* its GET and its DEL (again, as long as it is calm).                     *)
OwnDelete ==
  [][\A i \in Instances, c \in Closers :
        Calm /\ ReleaseDel(i, c) => holder \in {i, "nobody"}]_vars

(* The docstring of acquire_instance_lock: it fails when "another instance *)
(* holds the lock"; an instance never refuses itself.                      *)
RefusedByAnother ==
  [][\A i \in Instances : Refuse(i) => holder # i]_vars

(* Liveness: the key of a process that has ended does not keep others out  *)
(* for ever.                                                               *)
StaleKeyExpires == holder = "dead" ~> holder # "dead"
=============================================================================
