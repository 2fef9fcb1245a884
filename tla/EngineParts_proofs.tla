------------------------- MODULE EngineParts_proofs -------------------------
(***************************************************************************)
(* Theorems about two parts of the engine, each with a specification of    *)
(* its own.                                                                *)
(*   ParentRecord: for every set of children and number of refreshes, a    *)
(*     discarded parent stays discarded, and a child recorded while nobody *)
(*     else held a copy is never lost.                                     *)
(*   Stopper: for every window, delta and sequence of bests, a plateau is  *)
(*     reported only when it has lasted (asked once a generation, about a  *)
(*     metric to be maximised), and is never missed, however often the     *)
(*     stopper is asked.                                                   *)
(***************************************************************************)
EXTENDS ParentRecord, Stopper, TLAPS

Processing == {"QUEUED", "RUNNING"}

(* Of two states one may follow the other: merge_states never raises.      *)
LEMMA MergeIsTotal ==
  \A s, t \in States : IsValidTransition(s, t) \/ IsValidTransition(t, s)
BY DEF States, IsValidTransition, VALID_TRANSITIONS

(* A merge returns one of its arguments, and a discarded one if there is.  *)
LEMMA MergeKeepsDiscarded ==
  ASSUME NEW s \in States, NEW t \in States
  PROVE  /\ MergeStates(s, t) \in {s, t}
         /\ MergeStates(s, t) = "DISCARDED" <=> "DISCARDED" \in {s, t}
BY DEF States, TERMINAL_STATES, MergeStates, IsValidTransition, VALID_TRANSITIONS

(* Initially every variable has its type.                                  *)
LEMMA TypeInit == Init => ParentTypeOK
BY ParentAssumption DEF Init, ParentTypeOK, Record, States

(* Every step keeps the types.                                             *)
LEMMA TypeStep == ParentTypeOK /\ [Next]_vars => ParentTypeOK'
<1> SUFFICES ASSUME ParentTypeOK, [Next]_vars PROVE ParentTypeOK'
  OBVIOUS
<1> USE DEF ParentTypeOK, Record
<1>1. ASSUME NEW c \in Children, ReadParent(c) PROVE ParentTypeOK'
  BY <1>1 DEF ReadParent, runner, engine
<1>2. ASSUME NEW c \in Children, UpdateParent(c) PROVE ParentTypeOK'
  <2>1. MergeStates(rec.state, Recorded(c).state) \in States
    BY MergeKeepsDiscarded DEF Recorded
  <2>2. rec' \in Record
    BY <1>2, <2>1 DEF UpdateParent, UpdateWith, Recorded
  <2> QED BY <1>2, <2>2 DEF UpdateParent, UpdateWith, runner, engine
<1>3. CASE RefreshRead
  BY <1>3, ParentAssumption DEF RefreshRead, tasks, runner
<1>4. CASE RefreshWrite
  BY <1>4 DEF RefreshWrite, Move, States, tasks, runner
<1>5. CASE RefreshSkipped
  BY <1>5 DEF RefreshSkipped, tasks, runner
<1>6. CASE Launch
  BY <1>6 DEF Launch, LaunchWith, tasks, engine
<1>7. CASE MarkRead
  BY <1>7 DEF MarkRead, States, tasks, engine
<1>8. CASE MarkWrite
  BY <1>8 DEF MarkWrite, Move, States, tasks, engine
<1>9. CASE StageWrite
  BY <1>9 DEF StageWrite, tasks, runner, engine
<1>10. ASSUME NEW o \in {"DONE", "DISCARDED"}, Finish(o) PROVE ParentTypeOK'
  BY <1>10 DEF Finish, Move, States, tasks, engine
<1>11. CASE UNCHANGED vars
  BY <1>11 DEF vars, tasks, runner, engine
<1> QED
  BY <1>1, <1>2, <1>3, <1>4, <1>5, <1>6, <1>7, <1>8, <1>9, <1>10, <1>11 DEF Next

(* Every variable keeps its type.                                          *)
THEOREM TypeCorrect == Spec => []ParentTypeOK
BY TypeInit, TypeStep, PTL DEF Spec

-----------------------------------------------------------------------------
(* Recorded children.  Whoever holds a copy that may still be written over *)
(* the record took it when the safe children were there, and none becomes  *)
(* safe while a copy is held.                                              *)
CopiesKeep ==
  /\ safe \subseteq rec.children
  /\ refresher = "patching" => safe \subseteq patch.children
  /\ dag # "idle" => safe \subseteq memory.children
  /\ dag = "marking" => safe \subseteq mark.children

(* Every step keeps the copies complete.                                   *)
LEMMA CopiesStep ==
  ParentTypeOK /\ CopiesKeep /\ [Next]_vars => CopiesKeep'
<1> SUFFICES ASSUME ParentTypeOK, CopiesKeep, [Next]_vars PROVE CopiesKeep'
  OBVIOUS
<1> USE DEF ParentTypeOK, Record, CopiesKeep
<1>1. ASSUME NEW c \in Children, ReadParent(c) PROVE CopiesKeep'
  BY <1>1 DEF ReadParent, runner, engine
<1>2. ASSUME NEW c \in Children, UpdateParent(c) PROVE CopiesKeep'
  <2>1. rec'.children = rec.children \cup copy[c].children \cup {c}
    BY <1>2 DEF UpdateParent, UpdateWith, Recorded
  <2> QED BY <1>2, <2>1 DEF UpdateParent, UpdateWith, runner, engine
<1>3. CASE RefreshRead
  BY <1>3 DEF RefreshRead, tasks, runner
<1>4. CASE RefreshWrite
  BY <1>4 DEF RefreshWrite, tasks, runner
<1>5. CASE RefreshSkipped
  BY <1>5 DEF RefreshSkipped, tasks, runner
<1>6. CASE Launch
  BY <1>6 DEF Launch, LaunchWith, tasks, engine
<1>7. CASE MarkRead
  BY <1>7 DEF MarkRead, tasks, engine
<1>8. CASE MarkWrite
  BY <1>8 DEF MarkWrite, tasks, engine
<1>9. CASE StageWrite
  BY <1>9 DEF StageWrite, tasks, runner, engine
<1>10. ASSUME NEW o \in {"DONE", "DISCARDED"}, Finish(o) PROVE CopiesKeep'
  BY <1>10 DEF Finish, tasks, engine
<1>11. CASE UNCHANGED vars
  BY <1>11 DEF vars, tasks, runner, engine
<1> QED
  BY <1>1, <1>2, <1>3, <1>4, <1>5, <1>6, <1>7, <1>8, <1>9, <1>10, <1>11 DEF Next

(* A child whose lineage update ran while neither the refresh nor the      *)
(* scheduler held a copy stays in the parent's record for ever.            *)
THEOREM SafeChildrenAreKept == Spec => []SafeChildrenKept
<1>1. Init => CopiesKeep
  BY DEF Init, CopiesKeep
<1>2. CopiesKeep => SafeChildrenKept
  BY DEF CopiesKeep, SafeChildrenKept
<1> QED BY <1>1, <1>2, CopiesStep, TypeCorrect, PTL DEF Spec

-----------------------------------------------------------------------------
(* Discarded parents.                                                      *)

(* A copy is discarded only if the record is; nobody is about to write     *)
(* over a discarded record; the refresh patches only when the scheduler is *)
(* idle and nothing is left for it to launch.                              *)
Quiet ==
  /\ \A c \in Children : copy[c].state = "DISCARDED" => rec.state = "DISCARDED"
  /\ rec.state = "DISCARDED" => dag \in {"idle", "loaded"} /\ refresher # "patching"
  /\ refresher = "patching" => dag = "idle" /\ statusSets \cap Processing = {}
  /\ dag # "idle" => statusSets \cap Processing # {}
  /\ dag = "running" => memory.state = "RUNNING"

(* Every step keeps that, and leaves a discarded record discarded.         *)
LEMMA QuietStep ==
  ASSUME ParentTypeOK, Quiet, [Next]_vars
  PROVE  Quiet' /\ (rec.state = "DISCARDED" => rec'.state = "DISCARDED")
<1> DEFINE Goal == Quiet' /\ (rec.state = "DISCARDED" => rec'.state = "DISCARDED")
<1> SUFFICES Goal
  OBVIOUS
<1> USE DEF ParentTypeOK, Record, Quiet, Processing
<1>1. ASSUME NEW c \in Children, ReadParent(c) PROVE Goal
  BY <1>1 DEF ReadParent, runner, engine
<1>2. ASSUME NEW c \in Children, UpdateParent(c) PROVE Goal
  <2>1. copy[c].state \in States /\ Recorded(c).state = copy[c].state
    BY DEF Recorded
  <2>2. rec'.state = MergeStates(rec.state, copy[c].state)
    BY <1>2, <2>1 DEF UpdateParent, UpdateWith
  <2>3. rec'.state = "DISCARDED" <=> rec.state = "DISCARDED"
    BY <2>1, <2>2, MergeKeepsDiscarded
  <2> QED BY <1>2, <2>3 DEF UpdateParent, UpdateWith, runner, engine
<1>3. CASE RefreshRead
  BY <1>3 DEF RefreshRead, tasks, runner
<1>4. CASE RefreshWrite
  BY <1>4 DEF RefreshWrite, Move, tasks, runner
<1>5. CASE RefreshSkipped
  BY <1>5 DEF RefreshSkipped, tasks, runner
<1>6. CASE Launch
  BY <1>6 DEF Launch, LaunchWith, tasks, engine
<1>7. CASE MarkRead
  BY <1>7 DEF MarkRead, tasks, engine
<1>8. CASE MarkWrite
  BY <1>8 DEF MarkWrite, Move, tasks, engine
<1>9. CASE StageWrite
  BY <1>9 DEF StageWrite, tasks, runner, engine
<1>10. ASSUME NEW o \in {"DONE", "DISCARDED"}, Finish(o) PROVE Goal
  BY <1>10 DEF Finish, Move, tasks, engine
<1>11. CASE UNCHANGED vars
  BY <1>11 DEF vars, tasks, runner, engine
<1> QED
  BY <1>1, <1>2, <1>3, <1>4, <1>5, <1>6, <1>7, <1>8, <1>9, <1>10, <1>11 DEF Next

(* A parent that was discarded stays so, whatever copies of it the lineage *)
(* updates, the refresh and the scheduler hold.                            *)
THEOREM DiscardIsFinal == Spec => DiscardedIsFinal
<1>1. Init => Quiet
  BY DEF Init, Quiet
<1>2. ParentTypeOK /\ Quiet /\ [Next]_vars =>
        Quiet' /\ [rec.state = "DISCARDED" => rec'.state = "DISCARDED"]_vars
  BY QuietStep
<1> QED BY <1>1, <1>2, TypeCorrect, PTL DEF Spec, DiscardedIsFinal

-----------------------------------------------------------------------------
(* The plateau stopper, asked once a generation.                           *)

(* The engine for which the stopper was written.                           *)
OncePerGeneration == asks = 0 /\ failures = 0

Values == Fitness \cup {NoFitness}

HistOK ==
  /\ hist \in Seq(Values)
  /\ \A j, k \in 1..Len(hist) : j <= k /\ hist[j] # NoFitness => hist[k] # NoFitness

CountersOK ==
  /\ seen \in Values /\ stagnant \in Nat /\ plateau \in BOOLEAN
  /\ pc \in {"ask", "step", "stopped"} /\ OncePerGeneration

(* The generations about which the stopper has been asked.                 *)
asked == IF pc = "ask" THEN Len(hist) - 1 ELSE Len(hist)

(* _best_seen is the best of the generation _stagnant_count before the     *)
(* last one asked about, and none since is MinDelta better.                *)
Counted ==
  /\ seen = NoFitness =>
       stagnant = 0 /\ \A k \in 1..Len(hist) : k <= asked => hist[k] = NoFitness
  /\ seen # NoFitness =>
       /\ asked - stagnant \in 1..Len(hist) /\ hist[asked - stagnant] = seen
       /\ \A k \in 1..Len(hist) :
            k > asked - stagnant /\ k <= asked => hist[k] - seen < MinDelta
  /\ plateau /\ pc # "ask" => seen # NoFitness /\ stagnant >= Window

CountInv == HistOK /\ CountersOK /\ Counted

(* A question keeps the count.                                             *)
LEMMA AskKeepsCount == ASSUME CountInv, Ask PROVE CountInv'
<1> USE StopperAssumption DEF Values, NoFitness, OncePerGeneration
<1>1. /\ hist' = hist /\ pc = "ask" /\ pc' \in {"step", "stopped"}
      /\ asks' = asks /\ failures' = failures /\ asked = Len(hist) - 1 /\ asked' = Len(hist)
      /\ Len(hist) \in Nat /\ stagnant \in Nat /\ hist \in Seq(Values)
  BY DEF Ask, asked, CountInv, HistOK, CountersOK
<1>2. HistOK'
  BY <1>1 DEF CountInv, HistOK
<1>3. CASE best = NoFitness
  <2>1. seen' = seen /\ stagnant' = stagnant /\ plateau' = FALSE
    BY <1>3 DEF Ask, Plateau, PlateauWith
  <2>2. \A k \in 1..Len(hist) : hist[k] = NoFitness
    BY <1>1, <1>3 DEF best, generations, CountInv, HistOK
  <2>3. seen = NoFitness
    BY <1>1, <2>2 DEF CountInv, Counted
  <2> QED BY <1>1, <1>2, <2>1, <2>2, <2>3 DEF CountInv, CountersOK, Counted
<1>4. CASE best # NoFitness
  <2>1. Len(hist) >= 1 /\ best = hist[Len(hist)] /\ best \in Values
    BY <1>1, <1>4 DEF best, generations
  <2>2. CASE improves
    <3>1. seen' = best /\ stagnant' = 0 /\ plateau' = FALSE
      <4>1. PlateauWith(improves, 0, Window)
        BY DEF Ask, Plateau
      <4>2. seen' = best /\ stagnant' = 0
        BY <1>4, <2>2, <4>1 DEF PlateauWith
      <4>3. ~(0 >= Window)
        OBVIOUS
      <4> QED BY <4>1, <4>2, <4>3 DEF PlateauWith
    <3>2. CountersOK'
      BY <1>1, <2>1, <3>1 DEF CountInv, CountersOK
    <3>3. asked' - stagnant' = Len(hist) /\ hist'[Len(hist)] = seen'
      BY <1>1, <2>1, <3>1
    <3>4. Counted'
      BY <1>1, <1>4, <2>1, <3>1, <3>3 DEF Counted
    <3> QED BY <1>2, <3>2, <3>4 DEF CountInv
  <2>3. CASE ~improves
    <3>1. /\ seen' = seen /\ stagnant' = stagnant + 1
          /\ plateau' = (stagnant' >= Window)
      BY <1>4, <2>3 DEF Ask, Plateau, PlateauWith
    <3>2. seen # NoFitness /\ best - seen < MinDelta
      BY <2>1, <2>3 DEF improves, CountInv, CountersOK
    <3>3. CountersOK'
      BY <1>1, <3>1 DEF CountInv, CountersOK
    <3>4. Counted'
      <4>1. /\ asked - stagnant \in 1..Len(hist) /\ hist[asked - stagnant] = seen
            /\ \A k \in 1..Len(hist) :
                 k > asked - stagnant /\ k <= asked => hist[k] - seen < MinDelta
        BY <3>2 DEF CountInv, Counted
      <4>2. asked' - stagnant' = asked - stagnant
        BY <1>1, <3>1
      <4>3. ASSUME NEW k \in 1..Len(hist), k > asked - stagnant, k <= Len(hist)
            PROVE  hist[k] - seen < MinDelta
        <5>1. CASE k = Len(hist)
          BY <2>1, <3>2, <5>1
        <5>2. CASE k # Len(hist)
          BY <1>1, <4>1, <4>3, <5>2
        <5> QED BY <5>1, <5>2
      <4> QED BY <1>1, <3>1, <3>2, <4>1, <4>2, <4>3 DEF Counted
    <3> QED BY <1>2, <3>3, <3>4 DEF CountInv
  <2> QED BY <2>2, <2>3
<1> QED BY <1>3, <1>4

(* So does the end of a generation.                                        *)
LEMMA EndKeepsCount == ASSUME CountInv, GenerationEnds PROVE CountInv'
<1> USE DEF Values, NoFitness, OncePerGeneration
<1>1. PICK b \in Fitness \cup {best} : hist' = Append(hist, b)
  BY DEF GenerationEnds
<1>2. hist \in Seq(Values) /\ best \in Values /\ b \in Values
  BY DEF CountInv, HistOK, best, generations
<1>3. /\ hist' \in Seq(Values) /\ Len(hist') = Len(hist) + 1 /\ Len(hist) \in Nat
      /\ hist'[Len(hist) + 1] = b
      /\ \A k \in 1..Len(hist) : hist'[k] = hist[k]
  BY <1>1, <1>2
<1>4. \A k \in 1..Len(hist) : hist[k] # NoFitness => b # NoFitness
  <2> SUFFICES ASSUME NEW k \in 1..Len(hist), hist[k] # NoFitness PROVE b # NoFitness
    OBVIOUS
  <2>1. best # NoFitness
    BY <1>3 DEF best, generations, CountInv, HistOK
  <2>2. \A f \in Fitness : f # NoFitness
    BY StopperAssumption
  <2> QED BY <2>1, <2>2
<1>5. HistOK'
  <2> SUFFICES ASSUME NEW j \in 1..(Len(hist) + 1), NEW k \in 1..(Len(hist) + 1),
                      j <= k, hist'[j] # NoFitness
               PROVE  hist'[k] # NoFitness
    BY <1>3 DEF HistOK
  <2>1. CASE k = Len(hist) + 1
    BY <1>3, <1>4, <2>1
  <2>2. CASE k # Len(hist) + 1
    BY <1>3, <2>2 DEF CountInv, HistOK
  <2> QED BY <2>1, <2>2
<1>6. /\ seen' = seen /\ stagnant' = stagnant /\ plateau' = plateau
      /\ asks' = asks /\ failures' = failures /\ pc = "step" /\ pc' = "ask"
  BY DEF GenerationEnds
<1>7. CountersOK'
  BY <1>6 DEF CountInv, CountersOK
<1>8. asked = Len(hist) /\ asked' = Len(hist)
  BY <1>3, <1>6 DEF asked
<1>9. Counted'
  <2>1. Counted /\ stagnant \in Nat
    BY DEF CountInv, CountersOK
  <2> QED BY <1>3, <1>6, <1>8, <2>1 DEF Counted
<1> QED BY <1>5, <1>7, <1>9 DEF CountInv

(* Further questions and failed steps are never forgotten.                 *)
LEMMA OnceStep ==
  ASSUME asks \in Nat, failures \in Nat, [StopperNext]_stopperVars
  PROVE  /\ asks' \in Nat /\ failures' \in Nat
         /\ OncePerGeneration' => OncePerGeneration
         /\ AskAgain \/ StepFails => ~OncePerGeneration'
  BY DEF OncePerGeneration, StopperNext, stopperVars, Ask, AskAgain, GenerationEnds, StepFails

(* Every step keeps it until the stopper is asked once more.               *)
LEMMA CountHolds == StopperSpec => [](OncePerGeneration => CountInv)
<1> DEFINE J == asks \in Nat /\ failures \in Nat /\ (OncePerGeneration => CountInv)
<1>1. StopperInit => J
  <2> SUFFICES ASSUME StopperInit PROVE CountInv /\ asks \in Nat /\ failures \in Nat
    OBVIOUS
  <2>1. hist \in Seq(Values) /\ Len(hist) = 0 /\ 1..Len(hist) = {}
    BY DEF StopperInit
  <2>2. HistOK
    BY <2>1 DEF HistOK
  <2>3. CountersOK
    BY DEF StopperInit, CountersOK, Values, OncePerGeneration
  <2> QED BY <2>1, <2>2, <2>3 DEF StopperInit, CountInv, Counted
<1>2. J /\ [StopperNext]_stopperVars => J'
  <2> SUFFICES ASSUME J, [StopperNext]_stopperVars, OncePerGeneration' PROVE CountInv'
    BY OnceStep
  <2>1. CountInv /\ ~AskAgain /\ ~StepFails
    BY OnceStep
  <2>2. CASE UNCHANGED stopperVars
    BY <2>1, <2>2 DEF stopperVars, CountInv, HistOK, CountersOK, OncePerGeneration, Counted, asked
  <2> QED BY <2>1, <2>2, AskKeepsCount, EndKeepsCount DEF StopperNext
<1> QED BY <1>1, <1>2, PTL DEF StopperSpec

(* Asked once a generation about a metric to be maximised,                 *)
(* FitnessPlateauStopper reports a plateau only when that many generations *)
(* have ended without an improvement of min_delta.                         *)
THEOREM PlateauIsReal == ASSUME HigherIsBetter PROVE StopperSpec => []PlateauLastedOnce
<1>1. CountInv => PlateauLasted
  <2> SUFFICES ASSUME CountInv, plateau, pc # "ask"
               PROVE  \E old \in 1..(Len(hist) - Window) :
                        /\ hist[old] # NoFitness
                        /\ \A g \in Last(Window) : Gain(hist[g], hist[old]) < MinDelta
    BY DEF PlateauLasted, generations
  <2> DEFINE old == Len(hist) - stagnant
  <2>1. /\ Len(hist) \in Nat /\ stagnant \in Nat /\ stagnant >= Window
        /\ seen # NoFitness /\ old \in 1..Len(hist) /\ hist[old] = seen
        /\ \A k \in 1..Len(hist) : k > old => hist[k] - seen < MinDelta
    BY DEF CountInv, HistOK, CountersOK, Counted, asked
  <2>2. old \in 1..(Len(hist) - Window)
    BY <2>1, StopperAssumption
  <2>3. ASSUME NEW g \in Last(Window) PROVE Gain(hist[g], hist[old]) < MinDelta
    <3>1. g \in 1..Len(hist) /\ g > old
      BY <2>1, <2>2, StopperAssumption DEF Last, generations
    <3> QED BY <2>1, <3>1 DEF Gain
  <2> QED BY <2>1, <2>2, <2>3
<1>2. (OncePerGeneration => CountInv) => PlateauLastedOnce
  BY <1>1 DEF OncePerGeneration, PlateauLastedOnce
<1> QED BY <1>2, CountHolds, PTL

-----------------------------------------------------------------------------
(* The plateau stopper, asked any number of times.                         *)

(* When the last n + 1 of the first m generations have the same best,      *)
(* n of the questions about them have counted.                             *)
Streak(m) ==
  \A n \in Nat :
    /\ n < m /\ hist[m] # NoFitness
    /\ \A k \in (m - n)..m : hist[k] = hist[m]
    => seen # NoFitness /\ hist[m] - seen < MinDelta /\ stagnant >= n

(* A question may have been asked about the last generation although it    *)
(* is to be asked again: its step failed.                                  *)
StreakInv ==
  /\ hist \in Seq(Values) /\ seen \in Values /\ stagnant \in Nat
  /\ pc \in {"ask", "step", "stopped"}
  /\ pc = "ask" => Streak(Len(hist) - 1) \/ Streak(Len(hist))
  /\ pc # "ask" => Streak(Len(hist))
  /\ pc = "step" /\ Mode = "any" => best = NoFitness \/ stagnant < Window

(* Whatever has been asked before, a question brings the count up to date. *)
LEMMA QuestionCounts ==
  ASSUME StreakInv, Plateau, hist' = hist, pc' = IF stops THEN "stopped" ELSE "step"
  PROVE  StreakInv'
<1> USE StopperAssumption DEF Values, NoFitness
<1> DEFINE m == Len(hist)
<1>1. /\ hist \in Seq(Values) /\ m \in Nat /\ seen \in Values /\ stagnant \in Nat
      /\ Streak(m - 1) \/ Streak(m)
  BY DEF StreakInv
<1>2. CASE best = NoFitness
  <2>1. seen' = seen /\ stagnant' = stagnant
    BY <1>2 DEF Plateau, PlateauWith
  <2>2. Streak(m)'
    BY <1>1, <1>2 DEF Streak, best, generations
  <2> QED BY <1>1, <1>2, <2>1, <2>2 DEF StreakInv, best, generations
<1>3. CASE best # NoFitness
  <2>1. m >= 1 /\ best = hist[m] /\ best \in Values /\ best \in Nat
    <3>1. m >= 1 /\ best = hist[m] /\ hist[m] \in Values
      BY <1>1, <1>3 DEF best, generations
    <3> QED BY <1>3, <3>1
  <2>2. ASSUME NEW n \in Nat, n < m, n # 0, \A k \in (m - n)..m : hist[k] = hist[m]
        PROVE  seen # NoFitness /\ best - seen < MinDelta /\ stagnant >= n - 1
    <3>1. CASE Streak(m)
      BY <1>1, <1>3, <2>1, <2>2, <3>1 DEF Streak
    <3>2. CASE Streak(m - 1)
      <4>1. /\ n - 1 \in Nat /\ n - 1 < m - 1 /\ hist[m - 1] = best
            /\ \A k \in ((m - 1) - (n - 1))..(m - 1) : hist[k] = hist[m - 1]
        BY <1>1, <2>1, <2>2
      <4> QED BY <1>3, <3>2, <4>1 DEF Streak
    <3> QED BY <1>1, <3>1, <3>2
  <2>3. /\ seen' # NoFitness /\ seen' \in Values /\ stagnant' \in Nat
        /\ best - seen' < MinDelta
        /\ \A n \in Nat : n < m /\ (\A k \in (m - n)..m : hist[k] = hist[m]) => stagnant' >= n
    <3>1. CASE improves
      <4>1. seen' = best /\ stagnant' = 0
        BY <1>3, <3>1 DEF Plateau, PlateauWith
      <4>2. \A n \in Nat : n < m /\ (\A k \in (m - n)..m : hist[k] = hist[m]) => n = 0
        BY <2>2, <3>1, <1>1, <2>1 DEF improves
      <4> QED BY <1>3, <2>1, <4>1, <4>2
    <3>2. CASE ~improves
      <4>1. seen' = seen /\ stagnant' = stagnant + 1
        BY <1>3, <3>2 DEF Plateau, PlateauWith
      <4>2. seen # NoFitness /\ best - seen < MinDelta
        BY <1>1, <2>1, <3>2 DEF improves
      <4>3. \A n \in Nat : n < m /\ (\A k \in (m - n)..m : hist[k] = hist[m]) =>
              stagnant + 1 >= n
        BY <1>1, <2>2
      <4> QED BY <1>1, <4>1, <4>2, <4>3
    <3> QED BY <3>1, <3>2
  <2>4. Streak(m)'
    BY <1>1, <2>1, <2>3 DEF Streak
  <2>5. pc' = "step" /\ Mode = "any" => stagnant' < Window
    <3>1. pc' = "step" /\ Mode = "any" => ~plateau'
      BY Zenon DEF stops
    <3>2. ~plateau' => ~(stagnant' >= Window)
      BY <1>3, Zenon DEF Plateau, PlateauWith
    <3> QED BY <2>3, <3>1, <3>2
  <2> QED BY <1>1, <2>3, <2>4, <2>5 DEF StreakInv
<1> QED BY <1>2, <1>3

(* A generation that ends leaves the count one question behind.            *)
LEMMA StreakStep == StreakInv /\ [StopperNext]_stopperVars => StreakInv'
<1> SUFFICES ASSUME StreakInv, [StopperNext]_stopperVars PROVE StreakInv'
  OBVIOUS
<1>1. CASE Ask
  BY <1>1, QuestionCounts DEF Ask
<1>2. CASE AskAgain
  BY <1>2, QuestionCounts DEF AskAgain
<1>3. CASE GenerationEnds
  <2>1. PICK b \in Fitness \cup {best} : hist' = Append(hist, b)
    BY <1>3 DEF GenerationEnds
  <2>2. hist \in Seq(Values) /\ b \in Values
    BY <2>1 DEF StreakInv, best, generations, Values
  <2>3. /\ hist' \in Seq(Values) /\ Len(hist') = Len(hist) + 1 /\ Len(hist) \in Nat
        /\ \A k \in 1..Len(hist) : hist'[k] = hist[k]
    BY <2>1, <2>2
  <2>4. Streak(Len(hist)) /\ seen' = seen /\ stagnant' = stagnant /\ pc' = "ask"
    BY <1>3 DEF GenerationEnds, StreakInv
  <2>5. Streak(Len(hist) - 1)'
    <3> SUFFICES ASSUME NEW n \in Nat, n < Len(hist), hist'[Len(hist)] # NoFitness,
                        \A k \in (Len(hist) - n)..Len(hist) : hist'[k] = hist'[Len(hist)]
                 PROVE  seen # NoFitness /\ hist'[Len(hist)] - seen < MinDelta /\ stagnant >= n
      BY <2>3, <2>4 DEF Streak
    <3>1. \A k \in (Len(hist) - n)..Len(hist) : hist[k] = hist'[k]
      BY <2>3
    <3>2. \A k \in (Len(hist) - n)..Len(hist) : hist[k] = hist[Len(hist)]
      BY <2>3, <3>1
    <3> QED BY <2>3, <2>4, <3>1, <3>2 DEF Streak
  <2> QED BY <2>3, <2>4, <2>5 DEF StreakInv
<1>4. CASE StepFails
  BY <1>4 DEF StepFails, StreakInv, Streak, best, generations
<1>5. CASE UNCHANGED stopperVars
  BY <1>5 DEF stopperVars, StreakInv, Streak, best, generations
<1> QED BY <1>1, <1>2, <1>3, <1>4, <1>5 DEF StopperNext

(* However often the stopper is asked, in whatever direction the metric    *)
(* goes, and whatever steps fail, no generation begins on a fitness that   *)
(* has not moved for the window.                                           *)
THEOREM PlateauIsCaught == StopperSpec => []PlateauCaught
<1>1. StopperInit => StreakInv
  BY DEF StopperInit, StreakInv, Streak, Values
<1>2. StreakInv => PlateauCaught
  <2> SUFFICES ASSUME StreakInv, pc = "step", Mode = "any", generations > Window,
                      best # NoFitness, \A g \in Last(Window + 1) : hist[g] = best
               PROVE  FALSE
    BY DEF PlateauCaught
  <2>1. hist \in Seq(Values) /\ Len(hist) \in Nat /\ Window \in Nat /\ stagnant \in Nat
    BY StopperAssumption DEF StreakInv
  <2>2. best = hist[Len(hist)]
    BY DEF best, generations
  <2>3. \A k \in (Len(hist) - Window)..Len(hist) : hist[k] = hist[Len(hist)]
    BY <2>1, <2>2 DEF Last, generations
  <2>4. stagnant >= Window
    BY <2>1, <2>2, <2>3 DEF StreakInv, Streak, generations
  <2> QED BY <2>1, <2>4 DEF StreakInv
<1> QED BY <1>1, <1>2, StreakStep, PTL DEF StopperSpec
=============================================================================
