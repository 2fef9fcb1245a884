-------------------------- MODULE WorkerPool_proofs --------------------------
(***************************************************************************)
(* Theorems about WorkerPool, for any number of calls, of processes, of    *)
(* timeouts, deaths and cancellations: no call returns the value of        *)
(* another, and the pool's count is right.                                 *)
(***************************************************************************)
EXTENDS WorkerPool, FiniteSetTheorems, TLAPS

(* How the borrowers and the live processes are counted.                   *)
LEMMA BorrowedMore ==
  ASSUME TypeOK, IsFiniteSet(Borrowed), NEW c \in Calls, NEW w \in Workers,
         c \notin Borrowed, worker' = [worker EXCEPT ![c] = w]
  PROVE  /\ Borrowed' = Borrowed \cup {c} /\ IsFiniteSet(Borrowed')
         /\ Cardinality(Borrowed') = Cardinality(Borrowed) + 1
<1>1. Borrowed' = Borrowed \cup {c}
  BY PoolAssumption DEF Borrowed, TypeOK
<1> QED BY <1>1, FS_AddElement

LEMMA BorrowedLess ==
  ASSUME TypeOK, IsFiniteSet(Borrowed), NEW c \in Borrowed,
         worker' = [worker EXCEPT ![c] = None]
  PROVE  /\ Borrowed' = Borrowed \ {c} /\ IsFiniteSet(Borrowed')
         /\ Cardinality(Borrowed') = Cardinality(Borrowed) - 1
<1>1. Borrowed' = Borrowed \ {c}
  BY PoolAssumption DEF Borrowed, TypeOK
<1> QED BY <1>1, FS_RemoveElement

LEMMA LiveMore ==
  ASSUME TypeOK, IsFiniteSet(Live), NEW w \in Workers \ Live,
         life' = [life EXCEPT ![w] = "alive"]
  PROVE  /\ Live' = Live \cup {w} /\ IsFiniteSet(Live')
         /\ Cardinality(Live') = Cardinality(Live) + 1
<1>1. Live' = Live \cup {w}
  BY DEF Live, TypeOK
<1> QED BY <1>1, FS_AddElement

LEMMA LiveLess ==
  ASSUME TypeOK, IsFiniteSet(Live), NEW w \in Live, life' = [life EXCEPT ![w] = "gone"]
  PROVE  /\ Live' = Live \ {w} /\ IsFiniteSet(Live')
         /\ Cardinality(Live') = Cardinality(Live) - 1
<1>1. Live' = Live \ {w}
  BY DEF Live, TypeOK
<1> QED BY <1>1, FS_RemoveElement

LEMMA Numbers ==
  ASSUME TypeOK, Counted
  PROVE  /\ Cardinality(Borrowed) \in Nat /\ Cardinality(Live) \in Nat
         /\ Len(queue) \in Nat /\ leaked \in Nat /\ twice \in Nat
         /\ count \in Int /\ MaxWorkers \in Nat
         /\ count = Len(queue) + Cardinality(Borrowed) + leaked - twice
         /\ count = Cardinality(Live) - twice
         /\ count <= MaxWorkers /\ (lock # None => count < MaxWorkers)
<1>1. Cardinality(Borrowed) \in Nat /\ Cardinality(Live) \in Nat
  BY FS_CardinalityType DEF Counted
<1>2. queue \in Seq(Workers) /\ leaked \in Nat /\ twice \in Nat /\ count \in Int
  BY DEF TypeOK
<1>3. Len(queue) \in Nat
  BY <1>2
<1> QED BY <1>1, <1>2, <1>3, PoolAssumption DEF Counted

-----------------------------------------------------------------------------
(* Types.                                                                  *)

LEMMA SendTyped ==
  ASSUME TypeOK, NEW c \in Calls, NEW w \in Workers, Send(c, w)
  PROVE  /\ pc' \in [Calls -> Places]
         /\ worker' \in [Calls -> Workers \cup {None}]
         /\ request' \in [Workers -> Seq(Calls)]
BY DEF TypeOK, Send, Places

LEMMA ReturnTyped ==
  ASSUME TypeOK, NEW c \in Calls, worker[c] \in Workers,
         NEW k \in Kinds, NEW d \in Calls, Return(c, Ended(k, d))
  PROVE  /\ pc' \in [Calls -> Places]
         /\ worker' \in [Calls -> Workers \cup {None}]
         /\ after' \in [Calls -> {"oneshot", "ended"}]
         /\ outcome' \in [Calls -> [kind : Kinds, of : Calls \cup {None}]]
         /\ queue' \in Seq(Workers)
<1>1. Ended(k, d) \in [kind : Kinds, of : Calls \cup {None}]
  BY DEF Ended
<1>2. outcome' \in [Calls -> [kind : Kinds, of : Calls \cup {None}]]
  BY <1>1 DEF TypeOK, Return
<1>3. after' \in [Calls -> {"oneshot", "ended"}]
  BY DEF TypeOK, Return
<1>4. pc' \in [Calls -> Places]
      /\ worker' \in [Calls -> Workers \cup {None}]
  BY DEF TypeOK, Return, Places
<1>5. queue' = queue \/ queue' = Append(queue, worker[c])
  BY DEF Return
<1>6. queue' \in Seq(Workers)
  <2>1. queue \in Seq(Workers)
    BY DEF TypeOK
  <2> QED BY <2>1, <1>5
<1> QED BY <1>2, <1>3, <1>4, <1>6

LEMMA TypeInit == Init => TypeOK
BY PoolAssumption DEF Init, TypeOK, Open, Ended, Kinds, Places

(* A call that is served has a worker.                                     *)
LEMMA Served1 ==
  ASSUME TypeOK, Owned, NEW c \in Calls, pc[c] \in {"running", "discarding", "finally"}
  PROVE  c \in Borrowed /\ worker[c] \in Workers /\ worker[c] \in Live
BY DEF TypeOK, Owned, Borrowed

LEMMA TypeStep == TypeOK /\ Owned /\ [Next]_vars => TypeOK'
<1> SUFFICES ASSUME TypeOK, Owned, [Next]_vars PROVE TypeOK'
  OBVIOUS
<1> USE PoolAssumption DEF Places
<1>1. ASSUME NEW c \in Calls, GetIdle(c) \/ Take(c) PROVE TypeOK'
  <2>1. TakeIdle(c)
    BY <1>1 DEF GetIdle, Take
  <2>2. Head(queue) \in Workers /\ Tail(queue) \in Seq(Workers)
    BY <2>1 DEF TakeIdle, TypeOK
  <2> QED BY <2>1, <2>2, SendTyped DEF TakeIdle, TypeOK, mishaps, slips
<1>2. ASSUME NEW c \in Calls, GetNew(c) \/ GetWait(c) PROVE TypeOK'
  BY <1>2 DEF GetNew, GetWait, TypeOK, mishaps, slips, processes, pool
<1>3. ASSUME NEW c \in Calls, Started(c) PROVE TypeOK'
  <2>1. PICK w \in Workers : Send(c, w) /\ life' = [life EXCEPT ![w] = "alive"]
    BY <1>3 DEF Started
  <2> QED BY <1>3, <2>1, SendTyped DEF Started, TypeOK, mishaps, slips
<1>4. ASSUME NEW c \in Calls, ReadAnswer(c) PROVE TypeOK'
  <2> DEFINE w == worker[c]
             d == Head(out[w]).of
  <2>1. w \in Workers /\ out[w] \in Seq(Token) /\ out[w] # << >> /\ Head(out[w]) \in Token
    <3>1. w \in Workers /\ out[w] # << >>
      BY <1>4, Served1 DEF ReadAnswer
    <3>2. out[w] \in Seq(Token)
      BY <3>1 DEF TypeOK
    <3> QED BY <3>1, <3>2
  <2>2. d \in Calls /\ [of |-> d, part |-> "rest"] \in Token /\ Tail(out[w]) \in Seq(Token)
    BY <2>1 DEF Token
  <2>3. out' \in [Workers -> Seq(Token)]
    <3>1. <<[of |-> d, part |-> "rest"]>> \o Tail(out[w]) \in Seq(Token)
      BY <2>2
    <3>2. \/ out' = [out EXCEPT ![w] = <<[of |-> d, part |-> "rest"]>> \o Tail(@)]
          \/ out' = [out EXCEPT ![w] = Tail(@)]
      BY <1>4 DEF ReadAnswer
    <3>3. out \in [Workers -> Seq(Token)]
      BY DEF TypeOK
    <3> QED BY <2>1, <2>2, <3>1, <3>2, <3>3
  <2>4. PICK k \in Kinds : Return(c, Ended(k, d))
    BY <1>4 DEF ReadAnswer, Kinds
  <2> QED BY <1>4, <2>1, <2>2, <2>3, <2>4, ReturnTyped DEF ReadAnswer, TypeOK, mishaps, slips
<1>5. ASSUME NEW c \in Calls, Misread(c) PROVE TypeOK'
  <2> DEFINE w == worker[c]
             d == Head(out[w]).of
  <2>1. w \in Workers /\ Head(out[w]) \in Token /\ d \in Calls
    <3>1. w \in Workers /\ out[w] # << >>
      BY <1>5, Served1 DEF Misread
    <3>2. out[w] \in Seq(Token)
      BY <3>1 DEF TypeOK
    <3>3. Head(out[w]) \in Token
      BY <3>1, <3>2
    <3> QED BY <3>1, <3>3 DEF Token
  <2>2. CASE Return(c, Ended("too large", d))
    BY <1>5, <2>1, <2>2, ReturnTyped DEF Misread, TypeOK, mishaps, slips, processes, Kinds
  <2>3. CASE /\ outcome' = [outcome EXCEPT ![c] = Ended("garbage", d)]
             /\ pc' = [pc EXCEPT ![c] = "finally"]
             /\ after' = [after EXCEPT ![c] = "ended"]
             /\ UNCHANGED <<worker, queue>>
    BY <1>5, <2>1, <2>3 DEF Misread, TypeOK, mishaps, slips, processes, Kinds, Ended
  <2> QED BY <1>5, <2>2, <2>3 DEF Misread
<1>6. ASSUME NEW c \in Calls, Broken(c) \/ Timeout(c) PROVE TypeOK'
  <2>1. KillAndRepeat(c) /\ timeouts' \in 0..MaxTimeouts
    BY <1>6 DEF Broken, Timeout, TypeOK
  <2> QED BY <2>1 DEF KillAndRepeat, TypeOK, pool, slips
<1>7. ASSUME NEW c \in Calls, Discard(c) PROVE TypeOK'
  <2>1. life' \in [Workers -> {"gone", "alive", "dead"}]
    BY <1>7 DEF Discard, TypeOK
  <2>2. 0 \in 0..StderrRoom
    OBVIOUS
  <2>3. printed' \in [Workers -> 0..StderrRoom]
    BY <1>7, <2>2 DEF Discard, TypeOK
  <2>4. << >> \in Seq(Calls) /\ << >> \in Seq(Token)
    OBVIOUS
  <2>5. request' \in [Workers -> Seq(Calls)] /\ out' \in [Workers -> Seq(Token)]
    BY <1>7, <2>4 DEF Discard, TypeOK
  <2>6. worker' \in [Calls -> Workers \cup {None}] /\ count' \in Int
    BY <1>7 DEF Discard, TypeOK
  <2>7. pc' \in [Calls -> Places]
    <3>1. after[c] \in Places /\ "killing" \in Places
      BY DEF TypeOK
    <3>2. PICK p \in Places : pc' = [pc EXCEPT ![c] = p]
      BY <1>7, <3>1 DEF Discard
    <3> QED BY <3>2 DEF TypeOK
  <2>8. unreaped' \in 0..MaxUnreaped
    BY <1>7 DEF Discard, TypeOK
  <2> QED BY <1>7, <2>1, <2>6, <2>7, <2>8, <2>5, <2>3 DEF Discard, TypeOK
<1>8. ASSUME NEW c \in Calls, OneShot(c) PROVE TypeOK'
  <2>1. PICK k \in Kinds : outcome' = [outcome EXCEPT ![c] = Ended(k, c)]
    BY <1>8 DEF OneShot, Kinds
  <2>2. outcome' \in [Calls -> [kind : Kinds, of : Calls \cup {None}]]
    BY <2>1 DEF TypeOK, Ended
  <2>3. timeouts' \in 0..MaxTimeouts
    <3>1. timeouts' = timeouts \/ (timeouts < MaxTimeouts /\ timeouts' = timeouts + 1)
      BY <1>8 DEF OneShot
    <3> QED BY <3>1 DEF TypeOK
  <2> QED BY <1>8, <2>2, <2>3 DEF OneShot, TypeOK, pool, processes, slips
<1>9. ASSUME NEW c \in Calls, Cancel(c) PROVE TypeOK'
  <2>1. Ended("cancelled", c) \in [kind : Kinds, of : Calls \cup {None}]
    BY DEF Ended, Kinds
  <2>2. outcome' \in [Calls -> [kind : Kinds, of : Calls \cup {None}]]
    BY <1>9, <2>1 DEF Cancel, TypeOK
  <2>3. cancels' \in 0..MaxCancels
    BY <1>9 DEF Cancel, TypeOK
  <2>4. pc' \in [Calls -> Places] /\ worker' \in [Calls -> Workers \cup {None}]
        /\ leaked' \in Nat
    BY <1>9 DEF Cancel, TypeOK, Interrupted
  <2> QED BY <1>9, <2>2, <2>3, <2>4 DEF Cancel, TypeOK, processes
<1>10. ASSUME NEW w \in Workers, Work(w) PROVE TypeOK'
  <2>1. request[w] \in Seq(Calls) /\ request[w] # << >> /\ out[w] \in Seq(Token)
    BY <1>10 DEF Work, TypeOK
  <2>2. Head(request[w]) \in Calls /\ Tail(request[w]) \in Seq(Calls)
    BY <2>1
  <2>3. [of |-> Head(request[w]), part |-> "answer"] \in Token
    BY <2>2 DEF Token
  <2>4. Append(out[w], [of |-> Head(request[w]), part |-> "answer"]) \in Seq(Token)
    BY <2>1, <2>3
  <2>5. printed' \in [Workers -> 0..StderrRoom]
    <3>1. printed[w] \in 0..StderrRoom
      BY DEF TypeOK
    <3>2. Head(request[w]) \in Loud => printed[w] + 1 \in 0..StderrRoom
      BY <1>10, <3>1 DEF Work, Stuck
    <3> QED BY <1>10, <3>1, <3>2 DEF Work, TypeOK
  <2> QED BY <1>10, <2>2, <2>4, <2>5 DEF Work, TypeOK, mishaps, slips, pool
<1>11. ASSUME NEW w \in Workers, Die(w) PROVE TypeOK'
  BY <1>11 DEF Die, TypeOK, pool, slips
<1>12. ASSUME NEW c \in Calls, Killed(c) \/ DiscardAgain(c) PROVE TypeOK'
  <2>1. PICK p \in Places : pc' = [pc EXCEPT ![c] = p]
    BY <1>12 DEF Killed, DiscardAgain, TypeOK
  <2>2. pc' \in [Calls -> Places] /\ count' \in Int /\ twice' \in Nat
    BY <1>12, <2>1 DEF Killed, DiscardAgain, TypeOK, pool, mishaps, slips
  <2> QED BY <1>12, <2>2
          DEF Killed, DiscardAgain, TypeOK, pool, processes, mishaps, slips
<1>13. CASE UNCHANGED vars
  BY <1>13 DEF vars, pool, processes, mishaps, slips, TypeOK
<1> QED BY <1>1, <1>2, <1>3, <1>4, <1>5, <1>6, <1>7, <1>8, <1>9, <1>10, <1>11, <1>12,
           <1>13
        DEF Next, CallStep

-----------------------------------------------------------------------------
(* Owners and pipes.  A worker changes hands in four ways: it is lent, it  *)
(* is given back, it is condemned (its call keeps it until it has the      *)
(* lock), and it is discarded.                                             *)
Kept == Owned /\ Counted /\ Pipes

(* A step changes the pipes of one worker only.                            *)
LEMMA PipesStep ==
  ASSUME TypeOK, TypeOK', Pipes, Owned', NEW w \in Workers,
         \A v \in Workers \ {w} :
           request'[v] = request[v] /\ out'[v] = out[v] /\ (v \in Live' <=> v \in Live),
         \A d \in Calls : pc'[d] = "running" /\ worker'[d] # w =>
           pc[d] = "running" /\ worker'[d] = worker[d],
         \A i \in 1..Len(queue') :
           queue'[i] # w => \E j \in 1..Len(queue) : queue'[i] = queue[j],
         w \notin Live' => Clean(w)',
         \A i \in 1..Len(queue') : queue'[i] = w => Poisoned(w)' \/ Clean(w)',
         \A d \in Calls : pc'[d] = "running" /\ worker'[d] = w => Serves(w, d)'
  PROVE  Pipes'
<1>1. \A v \in Workers \ {w} :
        /\ (Clean(v)' <=> Clean(v)) /\ (Poisoned(v)' <=> Poisoned(v))
        /\ \A d \in Calls : Serves(v, d)' <=> Serves(v, d)
  BY DEF Clean, Poisoned, Serves
<1>2. \A v \in Workers \ Live' : Clean(v)'
  BY <1>1 DEF Pipes
<1>3. \A i \in 1..Len(queue') : \A v \in Workers :
        v = queue'[i] => Poisoned(v)' \/ Clean(v)'
  BY <1>1 DEF Pipes
<1>4. \A d \in Calls : \A v \in Workers :
        v = worker'[d] /\ pc'[d] = "running" => Serves(v, d)'
  BY <1>1 DEF Pipes
<1>5. \A i \in 1..Len(queue') : queue'[i] \in Workers
  <2>1. queue' \in Seq(Workers)
    BY DEF TypeOK
  <2> QED BY <2>1
<1>6. \A d \in Calls : pc'[d] = "running" => worker'[d] \in Workers
  BY DEF Owned, Borrowed, TypeOK
<1>7. /\ \A i \in 1..Len(queue') : (Poisoned(queue[i]) \/ Clean(queue[i]))'
      /\ \A d \in Calls : pc'[d] = "running" => Serves(worker[d], d)'
  BY <1>3, <1>4, <1>5, <1>6 DEF Poisoned, Clean, Serves
<1> QED BY <1>2, <1>7 DEF Pipes

(* Lent: the head of the queue goes to a call without a worker.            *)
LEMMA Lent ==
  ASSUME TypeOK, TypeOK', Kept, NEW c \in Calls, pc[c] \in {"idle", "waiting"},
         TakeIdle(c)
  PROVE  Kept'
<1> USE DEF Kept
<1>0. PICK w \in Workers : w = Head(queue)
  <2>1. queue \in Seq(Workers) /\ queue # << >>
    BY DEF TakeIdle, TypeOK
  <2> QED BY <2>1
<1>1. /\ queue \in Seq(Workers) /\ queue # << >> /\ w = queue[1] /\ w \in Workers
      /\ Len(queue) \in Nat /\ 1 \in 1..Len(queue) /\ queue' = Tail(queue)
  <2>1. queue \in Seq(Workers) /\ queue # << >> /\ queue' = Tail(queue)
    BY DEF TakeIdle, TypeOK
  <2> QED BY <1>0, <2>1
<1>2. Len(queue') = Len(queue) - 1 /\ \A i \in 1..Len(queue') : queue'[i] = queue[i + 1]
  BY <1>1
<1>3. /\ pc' = [pc EXCEPT ![c] = "running"] /\ worker' = [worker EXCEPT ![c] = w]
      /\ request' = [request EXCEPT ![w] = Append(@, c)]
      /\ UNCHANGED <<count, lock, life, out, leaked, twice>>
  BY <1>0 DEF TakeIdle, Send, mishaps, slips
<1>4. c \notin Borrowed /\ w \in Live /\ Live' = Live
  BY <1>1, <1>3 DEF Owned, Live
<1>5. /\ Borrowed' = Borrowed \cup {c} /\ IsFiniteSet(Borrowed')
      /\ Cardinality(Borrowed') = Cardinality(Borrowed) + 1
  BY <1>1, <1>3, <1>4, BorrowedMore DEF Counted
<1>6. \A d \in Borrowed : worker[d] # w /\ worker'[d] = worker[d]
  BY <1>1, <1>3, <1>4 DEF Owned, Borrowed, TypeOK
<1>7. \A i \in 1..Len(queue') : queue'[i] # w /\ i + 1 \in 1..Len(queue)
  BY <1>1, <1>2 DEF Owned
<1>8. worker'[c] = w /\ pc'[c] = "running"
  BY <1>3 DEF TypeOK
<1>9. Owned'
  <2>1. \A d \in Calls : d \in Borrowed' <=> pc'[d] \in {"running", "discarding", "finally"}
    BY <1>3, <1>5 DEF Owned, TypeOK
  <2>2. \A d, e \in Borrowed' : worker'[d] = worker'[e] => d = e
    BY <1>5, <1>6, <1>8 DEF Owned
  <2>3. \A i, j \in 1..Len(queue') : queue'[i] = queue'[j] => i = j
    <3> SUFFICES ASSUME NEW i \in 1..Len(queue'), NEW j \in 1..Len(queue'),
                        queue'[i] = queue'[j]
                 PROVE  i = j
      OBVIOUS
    <3>1. i + 1 = j + 1
      BY <1>2, <1>7 DEF Owned
    <3> QED BY <1>1, <1>2, <3>1
  <2>4. \A d \in Borrowed' : \A i \in 1..Len(queue') : worker'[d] # queue'[i]
    <3>1. \A i \in 1..Len(queue') : w # queue'[i]
      BY <1>7
    <3>2. \A d \in Borrowed : \A i \in 1..Len(queue') : worker[d] # queue'[i]
      BY <1>2, <1>7 DEF Owned
    <3> QED BY <1>5, <1>6, <1>8, <3>1, <3>2
  <2>5. \A d \in Borrowed' : worker'[d] \in Live'
    BY <1>4, <1>5, <1>6, <1>8 DEF Owned
  <2>6. \A i \in 1..Len(queue') : queue'[i] \in Live'
    BY <1>2, <1>4, <1>7 DEF Owned
  <2> QED BY <2>1, <2>2, <2>3, <2>4, <2>5, <2>6 DEF Owned
<1>10. Counted'
  <2>2. \A d \in Calls : lock' = d <=> pc'[d] = "starting"
    BY <1>3 DEF Counted, TypeOK
  <2>3. count' = Len(queue') + Cardinality(Borrowed') + leaked' - twice'
    BY <1>1, <1>2, <1>3, <1>5, Numbers
  <2> QED BY <1>3, <1>4, <1>5, <2>2, <2>3 DEF Counted
<1>11. Pipes'
  <2>1. \A v \in Workers \ {w} :
          request'[v] = request[v] /\ out'[v] = out[v] /\ (v \in Live' <=> v \in Live)
    BY <1>3, <1>4 DEF TypeOK
  <2>2. \A d \in Calls : pc'[d] = "running" /\ worker'[d] # w =>
                         pc[d] = "running" /\ worker'[d] = worker[d]
    BY <1>3, <1>8 DEF TypeOK
  <2>3. \A i \in 1..Len(queue') : \E j \in 1..Len(queue) : queue'[i] = queue[j]
    BY <1>2, <1>7
  <2>4. \A d \in Calls : pc'[d] = "running" /\ worker'[d] = w => d = c
    <3>1. \A d \in Calls : d # c /\ pc'[d] = "running" => d \in Borrowed
      BY <1>3 DEF TypeOK, Owned
    <3> QED BY <3>1, <1>6
  <2>5. Serves(w, c)'
    <3>1. out'[w] = out[w] /\ request'[w] = Append(request[w], c)
      BY <1>1, <1>3 DEF TypeOK
    <3>2. Poisoned(w) \/ Clean(w)
      BY <1>1 DEF Pipes
    <3>3. CASE Poisoned(w)
      BY <3>1, <3>3 DEF Poisoned, Serves
    <3>4. CASE Clean(w)
      <4>1. request'[w] = <<c>>
        BY <3>1, <3>4 DEF Clean
      <4> QED BY <3>1, <3>4, <4>1 DEF Clean, Serves
    <3> QED BY <3>2, <3>3, <3>4
  <2>6. \A d \in Calls : pc'[d] = "running" /\ worker'[d] = w => Serves(w, d)'
    BY <2>4, <2>5 DEF Serves, Poisoned
  <2>7. /\ w \notin Live' => Clean(w)'
        /\ \A i \in 1..Len(queue') : queue'[i] = w => Poisoned(w)' \/ Clean(w)'
    BY <1>4, <1>7
  <2> QED BY <1>1, <1>9, <2>1, <2>2, <2>3, <2>6, <2>7, PipesStep
<1> QED BY <1>9, <1>10, <1>11

(* Given back: it joins the queue, with an empty pipe or half an answer.   *)
LEMMA GivenBack ==
  ASSUME TypeOK, TypeOK', Kept, NEW c \in Calls, pc[c] = "running",
         NEW w \in Workers, w = worker[c],
         pc' = [pc EXCEPT ![c] = "ended"], worker' = [worker EXCEPT ![c] = None],
         queue' = Append(queue, w), UNCHANGED <<count, lock, leaked, twice>>,
         Live' = Live,
         \A v \in Workers \ {w} : request'[v] = request[v] /\ out'[v] = out[v],
         Poisoned(w)' \/ Clean(w)'
  PROVE  Kept'
<1> USE DEF Kept
<1>1. c \in Borrowed /\ w \in Live
  BY Served1
<1>2. queue \in Seq(Workers) /\ Len(queue) \in Nat
  BY DEF TypeOK
<1>3. /\ Len(queue') = Len(queue) + 1 /\ queue'[Len(queue) + 1] = w
      /\ \A i \in 1..Len(queue) : queue'[i] = queue[i]
  BY <1>2
<1>4. /\ Borrowed' = Borrowed \ {c} /\ IsFiniteSet(Borrowed')
      /\ Cardinality(Borrowed') = Cardinality(Borrowed) - 1
  BY <1>1, BorrowedLess DEF Counted
<1>5. \A d \in Borrowed' : d \in Borrowed /\ worker[d] # w /\ worker'[d] = worker[d]
  BY <1>1, <1>4 DEF Owned, Borrowed, TypeOK
<1>6. \A i \in 1..Len(queue) : queue[i] # w
  BY <1>1 DEF Owned
<1>7. Owned'
  <2>1. \A d \in Calls : d \in Borrowed' <=> pc'[d] \in {"running", "discarding", "finally"}
    BY <1>4 DEF Owned, TypeOK
  <2>2. \A d, e \in Borrowed' : worker'[d] = worker'[e] => d = e
    BY <1>5 DEF Owned
  <2>3. \A i, j \in 1..Len(queue') : queue'[i] = queue'[j] => i = j
    BY <1>2, <1>3, <1>6 DEF Owned
  <2>4. \A d \in Borrowed' : \A i \in 1..Len(queue') : worker'[d] # queue'[i]
    BY <1>2, <1>3, <1>5 DEF Owned
  <2>5. \A d \in Borrowed' : worker'[d] \in Live'
    BY <1>5 DEF Owned
  <2>6. \A i \in 1..Len(queue') : queue'[i] \in Live'
    BY <1>1, <1>2, <1>3 DEF Owned
  <2> QED BY <2>1, <2>2, <2>3, <2>4, <2>5, <2>6 DEF Owned
<1>8. Counted'
  <2>2. \A d \in Calls : lock' = d <=> pc'[d] = "starting"
    BY DEF Counted, TypeOK
  <2>3. count' = Len(queue') + Cardinality(Borrowed') + leaked' - twice'
    BY <1>2, <1>3, <1>4, Numbers
  <2> QED BY <1>4, <2>2, <2>3 DEF Counted
<1>9. Pipes'
  <2>1. \A d \in Calls : pc'[d] = "running" =>
                         pc[d] = "running" /\ worker'[d] = worker[d] /\ worker'[d] # w
    BY <1>5, <1>7 DEF TypeOK, Owned
  <2>2. \A i \in 1..Len(queue') :
          queue'[i] # w => \E j \in 1..Len(queue) : queue'[i] = queue[j]
    BY <1>2, <1>3
  <2> QED BY <1>1, <1>7, <2>1, <2>2, PipesStep
<1> QED BY <1>7, <1>8, <1>9

(* Condemned: its call keeps it, and reads it no more.                     *)
LEMMA Condemned ==
  ASSUME TypeOK, TypeOK', Kept, NEW c \in Borrowed,
         NEW p \in {"discarding", "finally"}, pc' = [pc EXCEPT ![c] = p],
         UNCHANGED <<worker, queue, count, lock, leaked, twice>>, Live' = Live,
         \A v \in Workers \ {worker[c]} : request'[v] = request[v] /\ out'[v] = out[v]
  PROVE  Kept'
<1> USE DEF Kept
<1>1. /\ c \in Calls /\ pc[c] \in {"running", "discarding", "finally"}
      /\ worker[c] \in Workers /\ worker[c] \in Live
  BY DEF Owned, Borrowed, TypeOK
<1>2. PICK w \in Workers : w = worker[c]
  BY <1>1
<1>3. Borrowed' = Borrowed
  BY DEF Borrowed
<1>4. Owned'
  <2>1. \A d \in Calls : d \in Borrowed' <=> pc'[d] \in {"running", "discarding", "finally"}
    BY <1>1, <1>3 DEF Owned, TypeOK
  <2>2. worker' = worker /\ queue' = queue
    OBVIOUS
  <2> QED BY <1>3, <2>1, <2>2 DEF Owned
<1>5. Counted'
  BY <1>1, <1>3 DEF Counted, TypeOK
<1>6. Pipes'
  <2>1. \A i \in 1..Len(queue') : queue'[i] # w /\ queue'[i] = queue[i] /\ i \in 1..Len(queue)
    BY <1>2 DEF Owned
  <2>2. \A d \in Calls : pc'[d] = "running" =>
                         pc[d] = "running" /\ worker'[d] = worker[d] /\ worker'[d] # w
    BY <1>1, <1>2 DEF TypeOK, Owned
  <2> QED BY <1>1, <1>2, <1>4, <2>1, <2>2, PipesStep
<1> QED BY <1>4, <1>5, <1>6

(* Discarded: the process is gone.                                         *)
LEMMA Discarded ==
  ASSUME TypeOK, TypeOK', Kept, NEW c \in Calls, Discard(c)
  PROVE  Kept'
<1> USE DEF Kept
<1>1. c \in Borrowed /\ worker[c] \in Workers /\ worker[c] \in Live
  BY Served1 DEF Discard
<1>2. PICK w \in Workers : w = worker[c]
  BY <1>1
<1>3. /\ count' = count - 1 /\ lock = None /\ lock' = None /\ queue' = queue
      /\ life' = [life EXCEPT ![w] = "gone"]
      /\ request' = [request EXCEPT ![w] = << >>] /\ out' = [out EXCEPT ![w] = << >>]
      /\ worker' = [worker EXCEPT ![c] = None] /\ UNCHANGED <<leaked, twice>>
  BY <1>2 DEF Discard
<1>a. PICK p \in {"oneshot", "ended", "killing"} : pc' = [pc EXCEPT ![c] = p]
  BY DEF Discard, TypeOK
<1>4. /\ Borrowed' = Borrowed \ {c} /\ IsFiniteSet(Borrowed')
      /\ Cardinality(Borrowed') = Cardinality(Borrowed) - 1
  BY <1>1, <1>3, BorrowedLess DEF Counted
<1>5. /\ Live' = Live \ {w} /\ IsFiniteSet(Live')
      /\ Cardinality(Live') = Cardinality(Live) - 1
  BY <1>1, <1>2, <1>3, LiveLess DEF Counted
<1>6. \A d \in Borrowed' : d \in Borrowed /\ worker[d] # w /\ worker'[d] = worker[d]
  BY <1>1, <1>2, <1>3, <1>4 DEF Owned, Borrowed, TypeOK
<1>7. \A i \in 1..Len(queue) : queue[i] # w
  BY <1>1, <1>2 DEF Owned
<1>8. Owned'
  <2>1. \A d \in Calls : d \in Borrowed' <=> pc'[d] \in {"running", "discarding", "finally"}
    BY <1>3, <1>4, <1>a DEF Owned, TypeOK
  <2> QED BY <1>3, <1>5, <1>6, <1>7, <2>1 DEF Owned
<1>9. Counted'
  <2>2. \A d \in Calls : lock' = d <=> pc'[d] = "starting"
    <3>1. pc[c] # "starting" /\ p # "starting"
      BY DEF Discard
    <3> QED BY <1>3, <1>a, <3>1 DEF Counted, TypeOK
  <2>3. count' = Len(queue') + Cardinality(Borrowed') + leaked' - twice'
        /\ count' = Cardinality(Live') - twice' /\ count' <= MaxWorkers
    <3>1. count' = Len(queue') + Cardinality(Borrowed') + leaked' - twice'
      BY <1>3, <1>4, <1>5, Numbers
    <3>2. count' = Cardinality(Live') - twice'
      BY <1>3, <1>4, <1>5, Numbers
    <3>3. count' <= MaxWorkers
      BY <1>3, <1>4, <1>5, Numbers
    <3> QED BY <3>1, <3>2, <3>3
  <2> QED BY <1>3, <1>4, <1>5, <2>2, <2>3 DEF Counted
<1>10. Pipes'
  <2>1. \A v \in Workers \ {w} :
          request'[v] = request[v] /\ out'[v] = out[v] /\ (v \in Live' <=> v \in Live)
    BY <1>3, <1>5 DEF TypeOK
  <2>2. Clean(w)'
    BY <1>3 DEF Clean, TypeOK
  <2>3. \A d \in Calls : pc'[d] = "running" =>
                         pc[d] = "running" /\ worker'[d] = worker[d] /\ worker'[d] # w
    BY <1>3, <1>6, <1>8, <1>a DEF TypeOK, Owned
  <2> QED BY <1>3, <1>7, <1>8, <2>1, <2>2, <2>3, PipesStep
<1> QED BY <1>8, <1>9, <1>10

(* Started: a new process goes to the call that holds the lock.            *)
LEMMA StartedStep ==
  ASSUME TypeOK, TypeOK', Kept, NEW c \in Calls, Started(c)
  PROVE  Kept'
<1> USE DEF Kept
<1>1. PICK w \in Workers : /\ life[w] = "gone" /\ Send(c, w)
                            /\ life' = [life EXCEPT ![w] = "alive"]
  BY DEF Started
<1>2. /\ pc[c] = "starting" /\ count' = count + 1 /\ lock' = None /\ queue' = queue
      /\ out' = out /\ pc' = [pc EXCEPT ![c] = "running"]
      /\ UNCHANGED <<leaked, twice>>
      /\ worker' = [worker EXCEPT ![c] = w]
      /\ request' = [request EXCEPT ![w] = Append(@, c)]
  BY <1>1 DEF Started, Send, mishaps, slips
<1>3. c \notin Borrowed /\ w \in Workers \ Live /\ lock = c
  BY <1>1, <1>2 DEF Owned, Live, Counted
<1>4. /\ Borrowed' = Borrowed \cup {c} /\ IsFiniteSet(Borrowed')
      /\ Cardinality(Borrowed') = Cardinality(Borrowed) + 1
  BY <1>2, <1>3, BorrowedMore DEF Counted
<1>5. /\ Live' = Live \cup {w} /\ IsFiniteSet(Live')
      /\ Cardinality(Live') = Cardinality(Live) + 1
  BY <1>1, <1>3, LiveMore DEF Counted
<1>6. \A d \in Borrowed : worker[d] # w /\ worker'[d] = worker[d]
  <2>1. \A d \in Calls \ {c} : worker'[d] = worker[d]
    BY <1>2 DEF TypeOK
  <2> QED BY <1>3, <2>1 DEF Owned, Borrowed
<1>7. \A i \in 1..Len(queue) : queue[i] # w
  BY <1>3 DEF Owned
<1>8. worker'[c] = w /\ pc'[c] = "running"
  BY <1>2 DEF TypeOK
<1>9. Owned'
  <2>1. \A d \in Calls : d \in Borrowed' <=> pc'[d] \in {"running", "discarding", "finally"}
    BY <1>2, <1>4 DEF Owned, TypeOK
  <2>2. \A d, e \in Borrowed' : worker'[d] = worker'[e] => d = e
    BY <1>4, <1>6, <1>8 DEF Owned
  <2> QED BY <1>2, <1>4, <1>5, <1>6, <1>7, <1>8, <2>1, <2>2 DEF Owned
<1>10. Counted'
  <2>2. lock # None /\ lock' \notin Calls
    BY <1>2, <1>3, PoolAssumption
  <2>3. \A d \in Calls : lock' = d <=> pc'[d] = "starting"
    BY <1>2, <1>3, <2>2 DEF Counted, TypeOK
  <2>4. count' = Len(queue') + Cardinality(Borrowed') + leaked' - twice'
        /\ count' = Cardinality(Live') - twice' /\ count' <= MaxWorkers
    <3>1. count' = Len(queue') + Cardinality(Borrowed') + leaked' - twice'
      BY <1>2, <1>3, <1>4, <1>5, <2>2, Numbers
    <3>2. count' = Cardinality(Live') - twice'
      BY <1>2, <1>3, <1>4, <1>5, <2>2, Numbers
    <3>3. count' <= MaxWorkers
      BY <1>2, <1>3, <1>4, <1>5, <2>2, Numbers
    <3> QED BY <3>1, <3>2, <3>3
  <2> QED BY <1>2, <1>4, <1>5, <2>2, <2>3, <2>4 DEF Counted
<1>11. Pipes'
  <2>1. \A v \in Workers \ {w} :
          request'[v] = request[v] /\ out'[v] = out[v] /\ (v \in Live' <=> v \in Live)
    BY <1>2, <1>5 DEF TypeOK
  <2>2. \A d \in Calls : pc'[d] = "running" /\ d # c =>
                         pc[d] = "running" /\ worker'[d] = worker[d] /\ worker'[d] # w
    BY <1>2, <1>6 DEF TypeOK, Owned
  <2>3. Serves(w, c)'
    <3>1. Clean(w)
      BY <1>3 DEF Pipes
    <3>2. request'[w] = <<c>> /\ out'[w] = << >>
      BY <1>2, <3>1 DEF TypeOK, Clean
    <3> QED BY <3>2 DEF Serves
  <2> QED BY <1>2, <1>5, <1>7, <1>8, <1>9, <2>1, <2>2, <2>3, PipesStep
<1> QED BY <1>9, <1>10, <1>11

(* Leaked: a process loses its owner and is still counted.                 *)
LEMMA LeakStep ==
  ASSUME TypeOK, TypeOK', Kept, NEW c \in Calls, pc[c] = "finally",
         pc' = [pc EXCEPT ![c] = "ended"], worker' = [worker EXCEPT ![c] = None],
         leaked' = leaked + 1, lock' = IF lock = c THEN None ELSE lock,
         UNCHANGED <<queue, count, life, request, out, twice>>
  PROVE  Kept'
<1> USE DEF Kept
<1>1. c \in Borrowed /\ lock # c /\ lock' = lock /\ Live' = Live
  BY Served1 DEF Counted, Live
<1>2. /\ Borrowed' = Borrowed \ {c} /\ IsFiniteSet(Borrowed')
      /\ Cardinality(Borrowed') = Cardinality(Borrowed) - 1
  BY <1>1, BorrowedLess DEF Counted
<1>3. \A d \in Borrowed' : d \in Borrowed /\ worker'[d] = worker[d]
  BY <1>1, <1>2 DEF Borrowed, TypeOK
<1>4. Owned'
  <2>1. \A d \in Calls : d \in Borrowed' <=> pc'[d] \in {"running", "discarding", "finally"}
    BY <1>2 DEF Owned, TypeOK
  <2> QED BY <1>1, <1>3, <2>1 DEF Owned
<1>5. Counted'
  <2>2. \A d \in Calls : lock' = d <=> pc'[d] = "starting"
    BY <1>1 DEF Counted, TypeOK
  <2>3. count' = Len(queue') + Cardinality(Borrowed') + leaked' - twice'
        /\ count' = Cardinality(Live') - twice' /\ count' <= MaxWorkers
    <3>1. count' = Len(queue') + Cardinality(Borrowed') + leaked' - twice'
      BY <1>1, <1>2, Numbers
    <3>2. count' = Cardinality(Live') - twice'
      BY <1>1, <1>2, Numbers
    <3>3. count' <= MaxWorkers
      BY <1>1, <1>2, Numbers
    <3> QED BY <3>1, <3>2, <3>3
  <2> QED BY <1>1, <1>2, <2>2, <2>3 DEF Counted
<1>6. Pipes'
  <2>1. \A d \in Calls : pc'[d] = "running" => pc[d] = "running" /\ worker'[d] = worker[d]
    BY <1>2, <1>3, <1>4 DEF Owned, TypeOK
  <2> QED BY <1>1, <2>1 DEF Pipes, Poisoned, Clean, Serves
<1> QED BY <1>4, <1>5, <1>6

(* Discarded twice: the count goes down and no process.                    *)
LEMMA DiscardAgainStep ==
  ASSUME TypeOK, TypeOK', Kept, NEW c \in Calls, DiscardAgain(c)
  PROVE  Kept'
<1> USE DEF Kept
<1>1. /\ pc[c] = "again" /\ pc' = [pc EXCEPT ![c] = "ended"]
      /\ count' = count - 1 /\ twice' = twice + 1 /\ lock = None
      /\ UNCHANGED <<worker, queue, lock, life, request, out, leaked>>
  BY DEF DiscardAgain, processes
<1>2. Borrowed' = Borrowed /\ Live' = Live
  BY <1>1 DEF Borrowed, Live
<1>3. Owned'
  <2>1. \A d \in Calls : d \in Borrowed' <=> pc'[d] \in {"running", "discarding", "finally"}
    BY <1>1, <1>2 DEF Owned, TypeOK
  <2> QED BY <1>1, <1>2, <2>1 DEF Owned
<1>4. Counted'
  <2>2. \A d \in Calls : lock' = d <=> pc'[d] = "starting"
    BY <1>1 DEF Counted, TypeOK
  <2>3. count' = Len(queue') + Cardinality(Borrowed') + leaked' - twice'
        /\ count' = Cardinality(Live') - twice' /\ count' <= MaxWorkers
    <3>1. count' = Len(queue') + Cardinality(Borrowed') + leaked' - twice'
      BY <1>1, <1>2, Numbers
    <3>2. count' = Cardinality(Live') - twice'
      BY <1>1, <1>2, Numbers
    <3>3. count' <= MaxWorkers
      BY <1>1, <1>2, Numbers
    <3> QED BY <3>1, <3>2, <3>3
  <2> QED BY <1>1, <1>2, <2>2, <2>3 DEF Counted
<1>5. Pipes'
  <2>1. \A d \in Calls : pc'[d] = "running" => pc[d] = "running"
    BY <1>1 DEF TypeOK
  <2> QED BY <1>1, <1>2, <2>1 DEF Pipes, Poisoned, Clean, Serves
<1> QED BY <1>3, <1>4, <1>5

(* Steps that change no owner and no pipe.                                 *)
LEMMA Elsewhere ==
  ASSUME TypeOK, Kept, Live' = Live,
         UNCHANGED <<worker, queue, count, request, out, leaked, twice>>,
         NEW c \in Calls, c \notin Borrowed,
         pc'[c] \notin {"running", "discarding", "finally"},
         \A d \in Calls \ {c} : pc'[d] = pc[d],
         \A d \in Calls : lock' = d <=> pc'[d] = "starting",
         lock' # None => count < MaxWorkers
  PROVE  Kept'
<1> USE DEF Kept
<1>1. /\ Borrowed' = Borrowed /\ worker' = worker /\ queue' = queue /\ count' = count
      /\ request' = request /\ out' = out /\ UNCHANGED <<leaked, twice>>
  BY DEF Borrowed
<1>2. Owned'
  BY <1>1 DEF Owned
<1>3. Counted'
  BY <1>1 DEF Counted
<1>4. Pipes'
  <2>1. \A d \in Calls : pc'[d] = "running" => pc[d] = "running"
    OBVIOUS
  <2> QED BY <1>1, <2>1 DEF Pipes, Poisoned, Clean, Serves
<1> QED BY <1>2, <1>3, <1>4

(* A worker answers, or dies.                                              *)
LEMMA WorkerStep ==
  ASSUME TypeOK, TypeOK', Kept, NEW w \in Workers, Work(w) \/ Die(w)
  PROVE  Kept'
<1> USE DEF Kept
<1>1. UNCHANGED <<pc, worker, queue, count, lock, leaked, twice>>
  BY DEF Work, Die, pool, mishaps, slips
<1>2. w \in Live /\ Live' = Live
  BY DEF Work, Die, Live, TypeOK
<1>3. Owned' /\ Counted'
  BY <1>1, <1>2 DEF Owned, Counted, Borrowed
<1>4. Pipes'
  <2>1. \A v \in Workers \ {w} : request'[v] = request[v] /\ out'[v] = out[v]
    BY DEF Work, Die, TypeOK
  <2>2. Poisoned(w) => Poisoned(w)'
    <3>1. CASE Work(w)
      <4>1. out[w] \in Seq(Token) /\ out'[w] = Append(out[w],
              [of |-> Head(request[w]), part |-> "answer"])
        BY <3>1 DEF Work, TypeOK
      <4> QED BY <4>1 DEF Poisoned
    <3>2. CASE Die(w)
      BY <3>2 DEF Die, Poisoned
    <3> QED BY <3>1, <3>2
  <2>3. Clean(w) => Clean(w)'
    BY DEF Work, Die, Clean
  <2>4. ASSUME NEW d \in Calls, Serves(w, d) PROVE Serves(w, d)'
    <3>1. CASE Work(w)
      <4>1. /\ request[w] # << >> /\ request'[w] = Tail(request[w])
            /\ out'[w] = Append(out[w], [of |-> Head(request[w]), part |-> "answer"])
        BY <3>1 DEF Work, TypeOK
      <4>2. CASE Poisoned(w)
        BY <2>2, <4>2 DEF Serves
      <4>3. CASE request[w] = <<d>> /\ out[w] = << >>
        <5>1. request'[w] = << >> /\ out'[w] = <<[of |-> d, part |-> "answer"]>>
          BY <4>1, <4>3
        <5> QED BY <5>1 DEF Serves
      <4> QED BY <2>4, <4>1, <4>2, <4>3 DEF Serves
    <3>2. CASE Die(w)
      BY <2>4, <3>2 DEF Die, Serves, Poisoned
    <3> QED BY <3>1, <3>2
  <2>5. \A i \in 1..Len(queue') : queue'[i] = queue[i] /\ i \in 1..Len(queue)
    BY <1>1
  <2>6. \A i \in 1..Len(queue') : queue'[i] = w => Poisoned(w)' \/ Clean(w)'
    BY <2>2, <2>3, <2>5 DEF Pipes
  <2>7. \A d \in Calls : pc'[d] = "running" /\ worker'[d] = w => Serves(w, d)'
    BY <1>1, <2>4 DEF Pipes
  <2> QED BY <1>1, <1>2, <1>3, <2>1, <2>5, <2>6, <2>7, PipesStep
<1> QED BY <1>3, <1>4

(* A call that returns gives its worker back or condemns it.               *)
LEMMA ReturnStep ==
  ASSUME TypeOK, TypeOK', Kept, NEW c \in Calls, pc[c] = "running",
         NEW o, Return(c, o), UNCHANGED <<count, lock, life, request, leaked, twice>>,
         NEW w \in Workers, w = worker[c],
         \A v \in Workers \ {w} : out'[v] = out[v],
         Poisoned(w)' \/ Clean(w)'
  PROVE  Kept'
<1>1. Live' = Live
  BY DEF Live
<1>2. CASE /\ pc' = [pc EXCEPT ![c] = "ended"]
           /\ worker' = [worker EXCEPT ![c] = None]
           /\ queue' = Append(queue, worker[c])
  BY <1>1, <1>2, GivenBack
<1>3. CASE pc' = [pc EXCEPT ![c] = "discarding"] /\ UNCHANGED <<worker, queue>>
  BY <1>1, <1>3, Condemned, Served1 DEF Kept
<1> QED BY <1>2, <1>3 DEF Return

(* An answer is read from an unpoisoned pipe: it is the caller's own.      *)
LEMMA ReadStep ==
  ASSUME TypeOK, TypeOK', Kept, NEW c \in Calls, ReadAnswer(c)
  PROVE  Kept' /\ Head(out[worker[c]]).of = c
<1> USE DEF Kept
<1>1. PICK w \in Workers : w = worker[c]
  BY Served1 DEF ReadAnswer
<1>2. pc[c] = "running" /\ out[w] # << >> /\ Head(out[w]).part = "answer"
  BY <1>1 DEF ReadAnswer
<1>3. request[w] = << >> /\ out[w] = <<[of |-> c, part |-> "answer"]>>
  <2>1. Serves(w, c) /\ ~Poisoned(w)
    BY <1>1, <1>2 DEF Pipes, Poisoned
  <2> QED BY <1>2, <2>1 DEF Serves
<1>4. Head(out[w]).of = c /\ Tail(out[w]) = << >>
  BY <1>3
<1>5. PICK o : Return(c, o)
  BY DEF ReadAnswer
<1>6. UNCHANGED <<count, lock, life, request, leaked, twice>>
  BY DEF ReadAnswer, mishaps, slips
<1>7. \/ out' = [out EXCEPT ![w] = <<[of |-> c, part |-> "rest"]>> \o Tail(@)]
      \/ out' = [out EXCEPT ![w] = Tail(@)]
  BY <1>1, <1>4 DEF ReadAnswer
<1>8. \A v \in Workers \ {w} : out'[v] = out[v]
  BY <1>7 DEF TypeOK
<1>9. Poisoned(w)' \/ Clean(w)'
  <2>1. out'[w] = <<[of |-> c, part |-> "rest"]>> \/ out'[w] = << >>
    <3>1. \/ out'[w] = <<[of |-> c, part |-> "rest"]>> \o Tail(out[w])
          \/ out'[w] = Tail(out[w])
      BY <1>7 DEF TypeOK
    <3>2. <<[of |-> c, part |-> "rest"]>> \o << >> = <<[of |-> c, part |-> "rest"]>>
      OBVIOUS
    <3> QED BY <1>4, <3>1, <3>2
  <2>2. CASE out'[w] = <<[of |-> c, part |-> "rest"]>>
    BY <2>2 DEF Poisoned
  <2>3. CASE out'[w] = << >>
    BY <1>3, <1>6, <2>3 DEF Clean
  <2> QED BY <2>1, <2>2, <2>3
<1>10. Kept'
  BY <1>1, <1>2, <1>5, <1>6, <1>8, <1>9, ReturnStep
<1> QED BY <1>1, <1>4, <1>10

(* What is misread stays in the pipe.                                      *)
LEMMA MisreadStep ==
  ASSUME TypeOK, TypeOK', Kept, NEW c \in Calls, Misread(c)
  PROVE  Kept'
<1> USE DEF Kept
<1>1. PICK w \in Workers : w = worker[c]
  BY Served1 DEF Misread
<1>2. pc[c] = "running" /\ out[w] # << >> /\ Head(out[w]).part = "rest"
  BY <1>1 DEF Misread
<1>3. UNCHANGED <<count, lock, life, request, out, leaked, twice>>
  BY DEF Misread, processes, mishaps, slips
<1>4. Poisoned(w)'
  BY <1>2, <1>3 DEF Poisoned
<1>5. CASE Return(c, Ended("too large", Head(out[w]).of))
  BY <1>1, <1>2, <1>3, <1>4, <1>5, ReturnStep
<1>6. CASE pc' = [pc EXCEPT ![c] = "finally"] /\ UNCHANGED <<worker, queue>>
  <2>1. Live' = Live
    BY <1>3 DEF Live
  <2> QED BY <1>2, <1>3, <1>6, <2>1, Condemned, Served1
<1> QED BY <1>1, <1>5, <1>6 DEF Misread

(* So does what a killed worker has written, until it is discarded.        *)
LEMMA KillStep ==
  ASSUME TypeOK, TypeOK', Kept, NEW c \in Calls, pc[c] = "running", KillAndRepeat(c)
  PROVE  Kept'
<1>1. c \in Borrowed /\ worker[c] \in Live
  BY Served1 DEF Kept
<1>2. Live' = Live
  BY <1>1 DEF KillAndRepeat, Live, TypeOK
<1> QED BY <1>1, <1>2, Condemned DEF KillAndRepeat, pool, slips

LEMMA CancelStep ==
  ASSUME TypeOK, TypeOK', Kept, NEW c \in Calls, Cancel(c)
  PROVE  Kept'
<1> USE DEF Kept
<1>1. /\ Live' = Live /\ UNCHANGED <<queue, count, request, out, twice>>
      /\ pc' = [pc EXCEPT ![c] = Interrupted(@, worker[c])]
  BY DEF Cancel, processes, Live
<1>2. CASE pc[c] = "finally"
  BY <1>1, <1>2, LeakStep DEF Cancel, Interrupted, processes
<1>3. CASE pc[c] # "finally" /\ worker[c] # None
  <2>1. c \in Borrowed /\ lock # c /\ pc[c] # "killing"
    BY <1>3 DEF Borrowed, Owned, Counted
  <2>2. /\ pc' = [pc EXCEPT ![c] = "finally"]
        /\ UNCHANGED <<worker, lock, leaked>>
    BY <1>1, <1>3, <2>1 DEF Cancel, Interrupted
  <2> QED BY <1>1, <2>1, <2>2, Condemned
<1>4. CASE pc[c] # "finally" /\ worker[c] = None
  <2>1. c \notin Borrowed
    BY <1>4 DEF Borrowed
  <2>2. PICK p \in {"again", "ended"} : pc' = [pc EXCEPT ![c] = p]
    BY <1>1, <1>4 DEF Interrupted
  <2>3. lock' = IF lock = c THEN None ELSE lock
    BY DEF Cancel
  <2>4. UNCHANGED <<worker, leaked>>
    BY <1>4 DEF Cancel
  <2>5. pc'[c] = p /\ \A d \in Calls \ {c} : pc'[d] = pc[d]
    BY <2>2 DEF TypeOK
  <2>6. \A d \in Calls : lock' = d <=> pc'[d] = "starting"
    BY <2>3, <2>5, PoolAssumption DEF Counted
  <2>7. lock' # None => count < MaxWorkers
    BY <2>3 DEF Counted
  <2> QED BY <1>1, <2>1, <2>4, <2>5, <2>6, <2>7, Elsewhere
<1> QED BY <1>2, <1>3, <1>4

(* Every step keeps owners, count and pipes.                               *)
LEMMA KeptStep == TypeOK /\ TypeOK' /\ Kept /\ [Next]_vars => Kept'
<1> SUFFICES ASSUME TypeOK, TypeOK', Kept, [Next]_vars PROVE Kept'
  OBVIOUS
<1>1. ASSUME NEW c \in Calls, GetIdle(c) \/ Take(c) PROVE Kept'
  BY <1>1, Lent DEF GetIdle, Take
<1>2. ASSUME NEW c \in Calls, GetNew(c) \/ GetWait(c) \/ OneShot(c) \/ Killed(c)
      PROVE  Kept'
  <2>1. /\ UNCHANGED <<worker, queue, count, request, out, leaked, twice>>
        /\ Live' = Live /\ pc[c] \in {"idle", "oneshot", "killing"}
    BY <1>2 DEF GetNew, GetWait, OneShot, Killed, pool, processes, mishaps, slips, Live
  <2>2. PICK p \in {"starting", "waiting", "oneshot", "ended"} :
          /\ pc' = [pc EXCEPT ![c] = p]
          /\ \/ p = "starting" /\ lock = None /\ lock' = c
             \/ p # "starting" /\ lock' = lock
    BY <1>2 DEF GetNew, GetWait, OneShot, Killed, pool, TypeOK
  <2>3. pc'[c] = p /\ \A d \in Calls \ {c} : pc'[d] = pc[d]
    BY <2>2 DEF TypeOK
  <2>4. c \notin Borrowed
    BY <2>1 DEF Kept, Owned
  <2>5. \A d \in Calls : lock' = d <=> pc'[d] = "starting"
    <3>1. \A d \in Calls : lock = d <=> pc[d] = "starting"
      BY DEF Kept, Counted
    <3> QED BY <2>1, <2>2, <2>3, <3>1, PoolAssumption
  <2>6. lock' # None => count < MaxWorkers
    BY <1>2 DEF GetNew, GetWait, OneShot, Killed, pool, Kept, Counted
  <2> QED BY <2>1, <2>5, <2>6, <2>3, <2>4, Elsewhere
<1>3. ASSUME NEW c \in Calls, Started(c) PROVE Kept'
  BY <1>3, StartedStep
<1>4. ASSUME NEW c \in Calls, ReadAnswer(c) PROVE Kept'
  BY <1>4, ReadStep
<1>5. ASSUME NEW c \in Calls, Misread(c) PROVE Kept'
  BY <1>5, MisreadStep
<1>6. ASSUME NEW c \in Calls, Broken(c) \/ Timeout(c) PROVE Kept'
  BY <1>6, KillStep DEF Broken, Timeout
<1>7. ASSUME NEW c \in Calls, Discard(c) PROVE Kept'
  BY <1>7, Discarded
<1>8. ASSUME NEW c \in Calls, Cancel(c) PROVE Kept'
  BY <1>8, CancelStep
<1>9. ASSUME NEW w \in Workers, Work(w) \/ Die(w) PROVE Kept'
  BY <1>9, WorkerStep
<1>10. ASSUME NEW c \in Calls, DiscardAgain(c) PROVE Kept'
  BY <1>10, DiscardAgainStep
<1>11. CASE UNCHANGED vars
  BY <1>11 DEF vars, pool, processes, mishaps, slips, Kept, Owned, Counted, Pipes,
               Borrowed, Live, Poisoned, Clean, Serves
<1> QED BY <1>1, <1>2, <1>3, <1>4, <1>5, <1>6, <1>7, <1>8, <1>9, <1>10, <1>11
        DEF Next, CallStep

LEMMA KeptInit == Init => Kept
<1> SUFFICES ASSUME Init PROVE Kept
  OBVIOUS
<1>1. Borrowed = {} /\ Live = {} /\ Len(queue) = 0 /\ 1..Len(queue) = {}
  BY DEF Init, Borrowed, Live
<1>2. Owned
  BY <1>1 DEF Init, Owned
<1>3. Counted
  BY <1>1, FS_EmptySet, PoolAssumption DEF Init, Counted
<1>4. Pipes
  BY <1>1 DEF Init, Pipes, Clean
<1> QED BY <1>2, <1>3, <1>4 DEF Kept

-----------------------------------------------------------------------------
(* Only the caller's own answer becomes its value.                         *)
LEMMA OwnStep ==
  TypeOK /\ TypeOK' /\ Kept /\ AnswersOwn /\ [Next]_vars => AnswersOwn'
<1> SUFFICES ASSUME TypeOK, TypeOK', Kept, AnswersOwn, [Next]_vars PROVE AnswersOwn'
  OBVIOUS
<1>1. ASSUME NEW c \in Calls, NEW o, outcome' = [outcome EXCEPT ![c] = o],
             o.kind = "value" => o.of = c
      PROVE  AnswersOwn'
  BY <1>1 DEF AnswersOwn, TypeOK
<1>2. ASSUME outcome' = outcome PROVE AnswersOwn'
  BY <1>2 DEF AnswersOwn
<1>3. ASSUME NEW c \in Calls, ReadAnswer(c) PROVE AnswersOwn'
  <2>1. Head(out[worker[c]]).of = c
    BY <1>3, ReadStep
  <2>2. PICK k \in Kinds : outcome' = [outcome EXCEPT ![c] = Ended(k, c)]
    BY <1>3, <2>1 DEF ReadAnswer, Return, Kinds
  <2> QED BY <2>2, <1>1 DEF Ended
<1>4. ASSUME NEW c \in Calls, Misread(c) PROVE AnswersOwn'
  <2>1. \E k \in {"too large", "garbage"} : \E d : outcome' = [outcome EXCEPT ![c] = Ended(k, d)]
    BY <1>4 DEF Misread, Return
  <2> QED BY <2>1, <1>1 DEF Ended
<1>5. ASSUME NEW c \in Calls, OneShot(c) \/ Cancel(c) PROVE AnswersOwn'
  <2>1. PICK k \in Kinds : outcome' = [outcome EXCEPT ![c] = Ended(k, c)]
    BY <1>5 DEF OneShot, Cancel, Kinds
  <2> QED BY <2>1, <1>1 DEF Ended
<1>6. ASSUME NEW c \in Calls, \/ GetIdle(c) \/ GetNew(c) \/ GetWait(c) \/ Started(c)
                              \/ Take(c) \/ Broken(c) \/ Discard(c) \/ Timeout(c)
                              \/ Killed(c) \/ DiscardAgain(c)
      PROVE  AnswersOwn'
  BY <1>2, <1>6 DEF GetIdle, GetNew, GetWait, Started, Take, TakeIdle, Broken, Discard,
                    Timeout, KillAndRepeat, Killed, DiscardAgain
<1>7. ASSUME NEW w \in Workers, Work(w) \/ Die(w) PROVE AnswersOwn'
  BY <1>2, <1>7 DEF Work, Die
<1>8. CASE UNCHANGED vars
  BY <1>2, <1>8 DEF vars
<1> QED BY <1>3, <1>4, <1>5, <1>6, <1>7, <1>8 DEF Next, CallStep

(* The inductive invariant.                                                *)
THEOREM Inductive == Spec => []IInv
<1>1. Init => IInv
  BY TypeInit, KeptInit DEF IInv, Kept, Init, AnswersOwn, Open, Ended
<1>2. IInv /\ [Next]_vars => IInv'
  BY TypeStep, KeptStep, OwnStep DEF IInv, Kept
<1> QED BY <1>1, <1>2, PTL DEF Spec

(* A call that returns a value returns the answer to its own request: a    *)
(* worker that timed out is never lent again, and one with half an answer  *)
(* in its pipe never gets a value across (_run_via_worker).                *)
THEOREM ValuesAreOwn == Spec => []AnswersOwn
<1>1. IInv => AnswersOwn
  BY DEF IInv
<1> QED BY <1>1, Inductive, PTL

(* Every process has one owner or was leaked by a cancelled discard, and   *)
(* _count is their number less those that a cancelled kill counted off     *)
(* twice; it never exceeds max_workers, although the lock is released      *)
(* between borrowing, giving back and discarding (get_worker,              *)
(* return_worker, discard_worker).                                         *)
THEOREM PoolIsAccounted == Spec => []Accounted
<1>1. IInv => Accounted
  <2> SUFFICES ASSUME IInv PROVE Accounted
    OBVIOUS
  <2>2. /\ Cardinality(Live) = Len(queue) + Cardinality(Borrowed) + leaked
        /\ count = Cardinality(Live) - twice /\ count <= MaxWorkers
    BY Numbers DEF IInv, Counted
  <2> QED BY <2>2 DEF IInv, Owned, Accounted, Live
<1> QED BY <1>1, Inductive, PTL
==============================================================================
