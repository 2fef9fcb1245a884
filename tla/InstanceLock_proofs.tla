------------------------ MODULE InstanceLock_proofs ------------------------
(***************************************************************************)
(* The lease theorem of InstanceLock: two instances use one prefix, or a   *)
(* release deletes another's key, only after an operation has failed for   *)
(* good, two releases of one instance have overlapped, or a sleep or an    *)
(* operation was late.  It holds for any number of instances and of        *)
(* concurrent closes, and for every OpTime of which three and a renewal    *)
(* fit into the expiry: with the code's defaults of 300 s and 120 s, late  *)
(* is an operation of a minute or more.  No operation is assumed to be     *)
(* quick.                                                                  *)
(***************************************************************************)
EXTENDS InstanceLock, TLAPS

Points == {"off", "refused", "using", "blind", "stopping"} \cup Acquiring \cup Renewing
Phases == {"idle", "read", "del", "done"}

StateOK ==
  /\ holder \in Instances \cup {"nobody", "dead"}
  /\ ttl \in Nat /\ ttl <= Expiry
  /\ pc \in [Instances -> Points]
  /\ age \in [Instances -> Nat]
  /\ closer \in [Instances -> [Closers -> Phases]]
  /\ Calm

Releasing(i) == pc[i] = "stopping" /\ \E c \in Closers : closer[i][c] \in {"read", "del"}

(* Times are kept: a sleep or an operation is not longer than its limit.   *)
OnTime(i) ==
  /\ pc[i] = "using" => age[i] <= Renewal
  /\ pc[i] \in Acquiring \cup Renewing => age[i] <= OpTime
  /\ Releasing(i) => age[i] <= OpTime

(* A release is under way only in an instance that stops, and the others   *)
(* wait until it has ended.                                                *)
ClosersOK(i) ==
  /\ pc[i] # "stopping" => \A c \in Closers : closer[i][c] = "idle"
  /\ pc[i] = "stopping" => \E c \in Closers : closer[i][c] # "idle"
  /\ \A c, d \in Closers :
       closer[i][c] \in {"read", "del"} /\ d # c => closer[i][d] = "idle"

(* The key is the instance's, with this much time left at least.           *)
Leased(i, left) == holder = i /\ ttl >= left

(* What an instance knows of the key, by where it is.                      *)
Lease(i) ==
  /\ pc[i] \in {"granted", "renewed"} => Leased(i, Expiry - age[i])
  /\ pc[i] = "using" => Leased(i, Expiry - OpTime - age[i])
  /\ pc[i] \in {"reading", "own"} => Leased(i, Expiry - OpTime - Renewal - age[i])
  /\ Releasing(i) => Leased(i, Expiry - OpTime - OpTime - Renewal - age[i])
  /\ pc[i] \notin {"free", "blind"}

Sound(i) == OnTime(i) /\ ClosersOK(i) /\ Lease(i)

LeaseInv == StateOK /\ \A i \in Instances : Sound(i)

Inv == failures \in Nat /\ (Calm => LeaseInv)

-----------------------------------------------------------------------------
(* Initially nobody holds the key.                                         *)
LEMMA LeaseInit == SafeTiming /\ Init => LeaseInv
BY LockAssumption DEF SafeTiming, Init, LeaseInv, StateOK, Sound, OnTime, ClosersOK,
   Lease, Releasing, Leased, Calm, Points, Phases, Acquiring, Renewing

(* A step of one instance, which leaves the key alone or finds it to be    *)
(* its own or nobody's, changes nothing for the others.                    *)
LEMMA Others ==
  ASSUME LeaseInv, NEW i \in Instances,
         \A j \in Instances \ {i} : /\ pc'[j] = pc[j] /\ age'[j] = age[j]
                                     /\ closer'[j] = closer[j],
         (UNCHANGED <<holder, ttl>>) \/ holder \in {i, "nobody"},
         StateOK', Sound(i)'
  PROVE  LeaseInv'
<1> SUFFICES ASSUME NEW j \in Instances \ {i} PROVE Sound(j)'
  BY DEF LeaseInv
<1>1. /\ pc'[j] = pc[j] /\ age'[j] = age[j] /\ closer'[j] = closer[j]
      /\ j # "nobody" /\ Sound(j)
  BY LockAssumption DEF LeaseInv
<1>2. Releasing(j)' <=> Releasing(j)
  BY <1>1 DEF Releasing
<1> QED BY <1>1, <1>2 DEF Sound, OnTime, ClosersOK, Lease, Leased

(* A process that ends holds nothing.                                      *)
LEMMA Ended ==
  ASSUME LeaseInv, NEW i \in Instances, End(i), UNCHANGED faults
  PROVE  LeaseInv'
<1>1. StateOK'
  BY DEF LeaseInv, StateOK, Calm, faults, End, Goto, Reset, Points, Phases
<1>2. pc'[i] = "off" /\ \A c \in Closers : closer'[i][c] = "idle"
  BY DEF LeaseInv, StateOK, End, Goto
<1>3. Sound(i)'
  BY <1>2 DEF Sound, OnTime, ClosersOK, Lease, Releasing, Acquiring, Renewing
<1> QED BY <1>1, <1>3, Others DEF End, Goto, Reset, LeaseInv, StateOK

(* Every step after which it is still calm keeps the invariant.            *)
LEMMA LeaseStep == SafeTiming /\ LeaseInv /\ [Next]_vars /\ Calm' => LeaseInv'
<1> SUFFICES ASSUME SafeTiming, LeaseInv, [Next]_vars, Calm' PROVE LeaseInv'
  OBVIOUS
<1>1. ASSUME NEW i \in Instances, Start(i) PROVE LeaseInv'
  <2>1. StateOK'
    BY <1>1, LockAssumption DEF Start, Goto, Reset, KeepKey, LeaseInv, StateOK, Calm, faults, Points, Phases, Acquiring, Renewing
  <2>2. Sound(i)'
    BY <1>1, LockAssumption DEF Start, Goto, Reset, KeepKey, Sound, OnTime, ClosersOK, Lease, Leased, Releasing,
       SafeTiming, LeaseInv, StateOK, Calm, faults, Points, Phases, Acquiring, Renewing
  <2> QED BY <1>1, <2>1, <2>2, Others DEF Start, Goto, Reset, KeepKey, LeaseInv, StateOK
<1>2. ASSUME NEW i \in Instances, Acquire(i) PROVE LeaseInv'
  <2>1. CASE AcquireSet(i)
    <3>1. StateOK'
      BY <2>1, LockAssumption DEF AcquireSet, Take, Goto, LeaseInv, StateOK, Calm, faults, Points, Phases, Acquiring, Renewing
    <3>2. Sound(i)'
      BY <2>1, LockAssumption DEF AcquireSet, Take, Goto, Sound, OnTime, ClosersOK, Lease, Leased, Releasing,
         SafeTiming, LeaseInv, StateOK, Calm, faults, Points, Phases, Acquiring, Renewing
    <3> QED BY <2>1, <3>1, <3>2, Others DEF AcquireSet, Take, Goto, LeaseInv, StateOK
  <2>2. CASE AcquireLost(i)
    <3>1. StateOK'
      BY <2>2, LockAssumption DEF AcquireLost, Goto, KeepKey, LeaseInv, StateOK, Calm, faults, Points, Phases, Acquiring, Renewing
    <3>2. Sound(i)'
      BY <2>2, LockAssumption DEF AcquireLost, Goto, KeepKey, Sound, OnTime, ClosersOK, Lease, Leased, Releasing,
         SafeTiming, LeaseInv, StateOK, Calm, faults, Points, Phases, Acquiring, Renewing
    <3> QED BY <2>2, <3>1, <3>2, Others DEF AcquireLost, Goto, KeepKey, LeaseInv, StateOK
  <2>3. CASE Acquired(i)
    <3>1. StateOK'
      BY <2>3, LockAssumption DEF Acquired, Goto, Reset, KeepKey, LeaseInv, StateOK, Calm, faults, Points, Phases, Acquiring, Renewing
    <3>2. Sound(i)'
      BY <2>3, LockAssumption DEF Acquired, Goto, Reset, KeepKey, Sound, OnTime, ClosersOK, Lease, Leased, Releasing,
         SafeTiming, LeaseInv, StateOK, Calm, faults, Points, Phases, Acquiring, Renewing
    <3> QED BY <2>3, <3>1, <3>2, Others DEF Acquired, Goto, Reset, KeepKey, LeaseInv, StateOK
  <2>4. CASE Refuse(i)
    <3>1. StateOK'
      BY <2>4, LockAssumption DEF Refuse, Goto, Reset, KeepKey, LeaseInv, StateOK, Calm, faults, Points, Phases, Acquiring, Renewing
    <3>2. Sound(i)'
      BY <2>4, LockAssumption DEF Refuse, Goto, Reset, KeepKey, Sound, OnTime, ClosersOK, Lease, Leased, Releasing,
         SafeTiming, LeaseInv, StateOK, Calm, faults, Points, Phases, Acquiring, Renewing
    <3> QED BY <2>4, <3>1, <3>2, Others DEF Refuse, Goto, Reset, KeepKey, LeaseInv, StateOK
  <2>5. CASE GiveUp(i)
    BY <2>5, Ended DEF GiveUp
  <2> QED BY <1>2, <2>1, <2>2, <2>3, <2>4, <2>5 DEF Acquire
<1>3. ASSUME NEW i \in Instances, Renew(i) PROVE LeaseInv'
  <2>1. CASE RenewStart(i)
    <3>1. StateOK'
      BY <2>1, LockAssumption DEF RenewStart, Goto, Reset, KeepKey, LeaseInv, StateOK, Calm, faults, Points, Phases, Acquiring, Renewing
    <3>2. Sound(i)'
      BY <2>1, LockAssumption DEF RenewStart, Goto, Reset, KeepKey, Sound, OnTime, ClosersOK, Lease, Leased, Releasing,
         SafeTiming, LeaseInv, StateOK, Calm, faults, Points, Phases, Acquiring, Renewing
    <3> QED BY <2>1, <3>1, <3>2, Others DEF RenewStart, Goto, Reset, KeepKey, LeaseInv, StateOK
  <2>2. CASE RenewGet(i)
    <3>1. StateOK'
      BY <2>2, LockAssumption DEF RenewGet, Goto, KeepKey, LeaseInv, StateOK, Calm, faults, Points, Phases, Acquiring, Renewing
    <3>2. Sound(i)'
      BY <2>2, LockAssumption DEF RenewGet, Goto, KeepKey, Sound, OnTime, ClosersOK, Lease, Leased, Releasing,
         SafeTiming, LeaseInv, StateOK, Calm, faults, Points, Phases, Acquiring, Renewing
    <3> QED BY <2>2, <3>1, <3>2, Others DEF RenewGet, Goto, KeepKey, LeaseInv, StateOK
  <2>3. CASE RenewSet(i)
    <3>1. StateOK'
      BY <2>3, LockAssumption DEF RenewSet, Take, Goto, LeaseInv, StateOK, Calm, faults, Points, Phases, Acquiring, Renewing
    <3>2. Sound(i)'
      BY <2>3, LockAssumption DEF RenewSet, Take, Goto, Sound, OnTime, ClosersOK, Lease, Leased, Releasing,
         SafeTiming, LeaseInv, StateOK, Calm, faults, Points, Phases, Acquiring, Renewing
    <3>3. holder = i
      BY <2>3 DEF RenewSet, LeaseInv, Sound, Lease, Leased
    <3> QED BY <2>3, <3>1, <3>2, <3>3, Others DEF RenewSet, Take, Goto, LeaseInv, StateOK
  <2>4. CASE RenewAgain(i)
    <3>1. StateOK'
      BY <2>4, LockAssumption DEF RenewAgain, Goto, KeepKey, LeaseInv, StateOK, Calm, faults, Points, Phases, Acquiring, Renewing
    <3>2. Sound(i)'
      BY <2>4, LockAssumption DEF RenewAgain, Goto, KeepKey, Sound, OnTime, ClosersOK, Lease, Leased, Releasing,
         SafeTiming, LeaseInv, StateOK, Calm, faults, Points, Phases, Acquiring, Renewing
    <3> QED BY <2>4, <3>1, <3>2, Others DEF RenewAgain, Goto, KeepKey, LeaseInv, StateOK
  <2>5. CASE Renewed(i)
    <3>1. StateOK'
      BY <2>5, LockAssumption DEF Renewed, Goto, Reset, KeepKey, LeaseInv, StateOK, Calm, faults, Points, Phases, Acquiring, Renewing
    <3>2. Sound(i)'
      BY <2>5, LockAssumption DEF Renewed, Goto, Reset, KeepKey, Sound, OnTime, ClosersOK, Lease, Leased, Releasing,
         SafeTiming, LeaseInv, StateOK, Calm, faults, Points, Phases, Acquiring, Renewing
    <3> QED BY <2>5, <3>1, <3>2, Others DEF Renewed, Goto, Reset, KeepKey, LeaseInv, StateOK
  <2>6. ~RenewNx(i) /\ ~RenewFails(i)
    BY DEF RenewNx, RenewFails, Calm, LeaseInv, StateOK, Sound, Lease
  <2> QED BY <1>3, <2>1, <2>2, <2>3, <2>4, <2>5, <2>6 DEF Renew
<1>4. ASSUME NEW i \in Instances, Release(i) PROVE LeaseInv'
  <2>1. ASSUME NEW c \in Closers, ReleaseGet(i, c) PROVE LeaseInv'
    <3>1. StateOK'
      BY <2>1, LockAssumption DEF ReleaseGet, KeepKey, LeaseInv, StateOK, Calm, faults, Points, Phases, Acquiring, Renewing
    <3>2. Sound(i)'
      BY <2>1, LockAssumption DEF ReleaseGet, KeepKey, Sound, OnTime, ClosersOK, Lease, Leased, Releasing,
         SafeTiming, LeaseInv, StateOK, Calm, faults, Points, Phases, Acquiring, Renewing
    <3> QED BY <2>1, <3>1, <3>2, Others DEF ReleaseGet, KeepKey, LeaseInv, StateOK
  <2>2. ASSUME NEW c \in Closers, ReleaseDel(i, c) PROVE LeaseInv'
    <3>1. StateOK'
      BY <2>2, LockAssumption DEF ReleaseDel, Free, LeaseInv, StateOK, Calm, faults, Points, Phases, Acquiring, Renewing
    <3>2. Sound(i)'
      BY <2>2, LockAssumption DEF ReleaseDel, Free, Sound, OnTime, ClosersOK, Lease, Leased, Releasing,
         SafeTiming, LeaseInv, StateOK, Calm, faults, Points, Phases, Acquiring, Renewing
    <3>3. holder = i /\ holder' = "nobody" /\ ttl' = 0
      BY <2>2 DEF ReleaseDel, Free, LeaseInv, StateOK, Sound, ClosersOK, Lease, Leased, Releasing
    <3>4. /\ pc' = pc /\ age' = age
          /\ \A j \in Instances \ {i} : closer'[j] = closer[j]
      BY <2>2 DEF ReleaseDel, LeaseInv, StateOK
    <3> QED BY <3>1, <3>2, <3>3, <3>4, Others
  <2>3. ASSUME NEW c \in Closers, CloseNext(i, c) PROVE LeaseInv'
    <3>1. /\ pc[i] = "stopping" /\ closer[i][c] = "idle"
          /\ "done" \in {closer[i][d] : d \in Closers}
          /\ closer' = [closer EXCEPT ![i][c] = "done"] /\ UNCHANGED <<holder, ttl, pc, faults>>
          /\ age' = [age EXCEPT ![i] = 0]
      BY <2>3 DEF CloseNext, Reset, KeepKey, faults, Calm
    <3>2. StateOK'
      BY <3>1 DEF LeaseInv, StateOK, Calm, faults, Points, Phases
    <3>3. \A d \in Closers : closer'[i][d] \in {"idle", "done"}
      BY <3>1 DEF LeaseInv, StateOK, Sound, ClosersOK, Phases
    <3>4. pc'[i] = "stopping" /\ closer'[i][c] = "done"
      BY <3>1 DEF LeaseInv, StateOK
    <3>5. Sound(i)'
      BY <3>3, <3>4 DEF Sound, OnTime, ClosersOK, Lease, Releasing, Acquiring, Renewing
    <3> QED BY <3>1, <3>2, <3>5, Others DEF LeaseInv, StateOK
  <2>4. ASSUME NEW c \in Closers PROVE ~ReleaseFails(i, c)
    BY DEF ReleaseFails, Calm, LeaseInv, StateOK, Sound, ClosersOK
  <2>5. CASE Exit(i)
    BY <2>5, Ended DEF Exit
  <2> QED BY <1>4, <2>1, <2>2, <2>3, <2>4, <2>5 DEF Release
<1>5. ASSUME NEW i \in Instances, Crash(i) PROVE LeaseInv'
  BY <1>5, Ended DEF Crash
<1>6. ASSUME NEW i \in Instances, NEW c \in Closers, CloseFirst(i, c) PROVE LeaseInv'
  <2>1. /\ pc' = [pc EXCEPT ![i] = "stopping"] /\ age' = [age EXCEPT ![i] = 0]
        /\ closer' = [closer EXCEPT ![i][c] = "read"] /\ UNCHANGED faults
        /\ pc[i] \in {"using", "reading", "own", "renewed"}
        /\ KeepKey \/ (pc[i] = "own" /\ Take(i))
    BY <1>6 DEF CloseFirst, Running, Goto, Reset, Renewing, LeaseInv, Sound, Lease
  <2>2. StateOK'
    BY <2>1, LockAssumption DEF KeepKey, Take, LeaseInv, StateOK, Calm, faults, Points, Phases
  <2>3. /\ pc'[i] = "stopping" /\ age'[i] = 0 /\ closer'[i][c] = "read"
        /\ \A d \in Closers \ {c} : closer'[i][d] = "idle"
    BY <1>6, <2>1 DEF LeaseInv, StateOK, Sound, ClosersOK, CloseFirst, Running, Renewing
  <2>4. holder = i /\ ttl \in Nat /\ ttl >= Expiry - OpTime - OpTime - Renewal
    BY <2>1, LockAssumption DEF LeaseInv, StateOK, Sound, OnTime, Lease, Leased,
       Acquiring, Renewing
  <2>5. holder' = i /\ ttl' >= Expiry - OpTime - OpTime - Renewal
    BY <2>1, <2>4, LockAssumption DEF KeepKey, Take
  <2>6. Sound(i)'
    BY <2>3, <2>5, LockAssumption DEF Sound, OnTime, ClosersOK, Lease, Leased,
       Releasing, Acquiring, Renewing
  <2> QED BY <2>1, <2>2, <2>4, <2>6, Others DEF LeaseInv, StateOK
<1>7. CASE Tick
  <2>1. StateOK'
    BY <1>7, LockAssumption DEF Tick, Limit, Free, LeaseInv, StateOK, Calm
  <2>2. ASSUME NEW i \in Instances PROVE Sound(i)'
    <3>1. Sound(i) /\ age[i] # Limit(i) /\ age[i] \in Nat /\ ttl \in Nat
      BY <1>7 DEF Tick, LeaseInv, StateOK, Calm
    <3>2. /\ pc'[i] = pc[i] /\ closer'[i] = closer[i]
          /\ age'[i] = (IF Limit(i) = -1 THEN 0 ELSE age[i] + 1)
      BY <1>7, <3>1 DEF Tick
    <3>3. Releasing(i)' <=> Releasing(i)
      BY <3>2 DEF Releasing
    <3>4. Limit(i) = IF pc[i] = "using" THEN Renewal
                     ELSE IF pc[i] \in Acquiring \cup Renewing THEN OpTime
                     ELSE IF Releasing(i) THEN OpTime ELSE -1
      BY <3>1 DEF Limit, Releasing, Sound, ClosersOK, Acquiring, Renewing
    <3>5. OnTime(i)' /\ ClosersOK(i)'
      <4>1. Releasing(i) => pc[i] = "stopping"
        BY DEF Releasing
      <4>2. ClosersOK(i)'
        BY <3>1, <3>2 DEF Sound, ClosersOK
      <4> QED BY <3>1, <3>2, <3>3, <3>4, <4>1, <4>2, LockAssumption
              DEF Sound, OnTime, Acquiring, Renewing
    <3>6. ttl >= 2 => holder' = holder /\ ttl' = ttl - 1
      BY <1>7, <3>1 DEF Tick
    <3>7. Lease(i)'
      <4>1. CASE pc[i] \in {"granted", "renewed"}
        <5>1. holder = i /\ ttl >= Expiry - age[i] /\ age'[i] = age[i] + 1 /\ age[i] < OpTime
          BY <3>1, <3>2, <3>4, <4>1, LockAssumption DEF Sound, Lease, Leased, OnTime, Acquiring, Renewing
        <5>2. holder' = i /\ ttl' >= Expiry - age'[i]
          BY <3>1, <3>6, <5>1, LockAssumption DEF SafeTiming
        <5> QED BY <3>2, <4>1, <5>2 DEF Lease, Leased, Releasing
      <4>2. CASE pc[i] = "using"
        <5>1. /\ holder = i /\ ttl >= Expiry - OpTime - age[i]
              /\ age'[i] = age[i] + 1 /\ age[i] < Renewal
          BY <3>1, <3>2, <3>4, <4>2, LockAssumption DEF Sound, Lease, Leased, OnTime
        <5>2. holder' = i /\ ttl' >= Expiry - OpTime - age'[i]
          BY <3>1, <3>6, <5>1, LockAssumption DEF SafeTiming
        <5> QED BY <3>2, <4>2, <5>2 DEF Lease, Leased, Releasing
      <4>3. CASE pc[i] \in {"reading", "own"}
        <5>1. /\ holder = i /\ ttl >= Expiry - OpTime - Renewal - age[i]
              /\ age'[i] = age[i] + 1 /\ age[i] < OpTime
          BY <3>1, <3>2, <3>4, <4>3, LockAssumption DEF Sound, Lease, Leased, OnTime, Acquiring, Renewing
        <5>2. holder' = i /\ ttl' >= Expiry - OpTime - Renewal - age'[i]
          BY <3>1, <3>6, <5>1, LockAssumption DEF SafeTiming
        <5> QED BY <3>2, <4>3, <5>2 DEF Lease, Leased, Releasing
      <4>4. CASE Releasing(i)
        <5>0. pc[i] = "stopping"
          BY <4>4 DEF Releasing
        <5>1. /\ holder = i /\ ttl >= Expiry - OpTime - OpTime - Renewal - age[i]
              /\ age'[i] = age[i] + 1 /\ age[i] < OpTime
          BY <3>1, <3>2, <3>4, <4>4, <5>0, LockAssumption DEF Sound, Lease, Leased, OnTime, Acquiring, Renewing
        <5>2. holder' = i /\ ttl' >= Expiry - OpTime - OpTime - Renewal - age'[i]
          BY <3>1, <3>6, <5>1, LockAssumption DEF SafeTiming
        <5> QED BY <3>2, <5>0, <5>2 DEF Lease, Leased
      <4>5. CASE ~Releasing(i) /\ pc[i] \notin {"granted", "renewed", "using", "reading", "own"}
        BY <3>1, <3>2, <3>3, <4>5 DEF Sound, Lease
      <4> QED BY <4>1, <4>2, <4>3, <4>4, <4>5
    <3> QED BY <3>5, <3>7 DEF Sound
  <2> QED BY <2>1, <2>2 DEF LeaseInv
<1>8. CASE UNCHANGED vars
  BY <1>8 DEF vars, LeaseInv, StateOK, Calm, Sound, OnTime, ClosersOK, Lease, Leased, Releasing
<1> QED
  BY <1>1, <1>2, <1>3, <1>4, <1>5, <1>6, <1>7, <1>8 DEF Next, Process

(* Calm, once lost, never comes back.                                      *)
LEMMA CalmStep == ASSUME failures \in Nat, [Next]_vars
                  PROVE  failures' \in Nat /\ (Calm' => Calm)
<1>1. ASSUME NEW i \in Instances, Process(i)
      PROVE  failures' \in {failures, failures + 1} /\ (overlap => overlap') /\ late' = late
  BY <1>1 DEF Process, Acquire, AcquireSet, AcquireLost, Acquired, Refuse, GiveUp,
     Renew, RenewStart, RenewGet, RenewSet, RenewNx, RenewAgain, Renewed, RenewFails,
     Release, CloseNext, ReleaseGet, ReleaseDel, ReleaseFails, Exit, faults
<1>2. CASE UNCHANGED faults
  BY <1>2 DEF faults, Calm
<1>3. CASE Tick
  BY <1>3 DEF Tick, Calm
<1>4. ASSUME NEW i \in Instances, Start(i) \/ Crash(i) \/ \E c \in Closers : CloseFirst(i, c)
      PROVE  UNCHANGED faults
  BY <1>4 DEF Start, Crash, CloseFirst
<1>5. CASE \E i \in Instances : Process(i)
  BY <1>1, <1>5 DEF Calm
<1> QED
  BY <1>2, <1>3, <1>4, <1>5 DEF Next, vars, faults

(* The invariant holds as long as it is calm.                              *)
LEMMA LeaseHolds == ASSUME SafeTiming PROVE Spec => []Inv
<1>1. Init => Inv
  BY LeaseInit DEF Inv, Init
<1>2. Inv /\ [Next]_vars => Inv'
  BY LeaseStep, CalmStep DEF Inv
<1> QED BY <1>1, <1>2, PTL DEF Spec

(* RedisInstanceLock keeps its promise while it is calm: two instances     *)
(* never use the prefix at a time, from acquire() until release() lets go  *)
(* of the key.                                                             *)
THEOREM LeaseIsExclusive == ASSUME SafeTiming PROVE Spec => []CalmExclusive
<1>1. ASSUME LeaseInv, NEW i \in Instances, Uses(i) PROVE holder = i
  <2>1. CASE Running(i)
    BY <1>1, <2>1 DEF Running, Renewing, LeaseInv, Sound, Lease, Leased
  <2>2. CASE pc[i] = "stopping" /\ \A c \in Closers : closer[i][c] # "done"
    <3>1. Releasing(i)
      BY <1>1, <2>2 DEF LeaseInv, StateOK, Sound, ClosersOK, Releasing, Phases
    <3> QED BY <1>1, <3>1 DEF LeaseInv, Sound, Lease, Leased
  <2> QED BY <1>1, <2>1, <2>2 DEF Uses
<1>2. Inv => CalmExclusive
  BY <1>1 DEF Inv, CalmExclusive, Exclusive
<1> QED BY <1>2, LeaseHolds, PTL

(* While it is calm, the DEL of release() deletes no key but the           *)
(* instance's own, although another command may run after its GET.         *)
THEOREM ReleaseDeletesOwn == ASSUME SafeTiming PROVE Spec => OwnDelete
<1>1. ASSUME LeaseInv, NEW i \in Instances, NEW c \in Closers, ReleaseDel(i, c)
      PROVE  holder \in {i, "nobody"}
  <2>1. pc[i] = "stopping" /\ closer[i][c] = "del"
    BY <1>1 DEF LeaseInv, StateOK, Sound, ClosersOK, ReleaseDel
  <2> QED BY <1>1, <2>1 DEF LeaseInv, Sound, Lease, Leased, Releasing
<1>2. Inv /\ [Next]_vars =>
        [\A i \in Instances, c \in Closers :
           Calm /\ ReleaseDel(i, c) => holder \in {i, "nobody"}]_vars
  BY <1>1 DEF Inv
<1> QED BY <1>2, LeaseHolds, PTL DEF Spec, OwnDelete
=============================================================================
