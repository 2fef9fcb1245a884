------------------------------ MODULE Stopper ------------------------------
(***************************************************************************)
(* FitnessPlateauStopper and MaxGenerationsStopper under a                 *)
(* CompositeStopper (gigaevo/evolution/engine/stopper.py), asked by an     *)
(* engine.  should_stop changes the stopper: each question counts as one   *)
(* generation without progress.                                            *)
(*                                                                         *)
(* The generational engine asks once per turn of its loop, also after a    *)
(* step() that raised.  The steady-state engine asks in both its loops, at *)
(* every turn of each.                                                     *)
(***************************************************************************)
EXTENDS Integers, Sequences

CONSTANTS
  Window, MinDelta,  \* of FitnessPlateauStopper
  MaxGenerations,    \* of MaxGenerationsStopper
  Mode,              \* of CompositeStopper
  Fitness,           \* values of the primary metric
  HigherIsBetter,    \* its direction
  MaxAsks,           \* bound: further questions, within a generation
  MaxFailures,       \* bound: steps that raise
  MaxHist            \* bound: generations; "all" goes on beyond MaxGenerations

ASSUME StopperAssumption ==
  /\ Window \in Nat \ {0} /\ MinDelta \in Nat \ {0} /\ MaxGenerations \in Nat
  /\ Mode \in {"any", "all"} /\ Fitness \subseteq Nat
  /\ HigherIsBetter \in BOOLEAN
  /\ MaxAsks \in Nat /\ MaxFailures \in Nat /\ MaxHist \in Nat

VARIABLES
  hist,      \* the archive's best after each completed generation
  seen,      \* _best_seen
  stagnant,  \* _stagnant_count
  plateau,   \* the plateau stopper's last decision
  pc,        \* the engine: "ask", "step", "stopped"
  asks, failures

stopperVars == <<hist, seen, stagnant, plateau, pc, asks, failures>>

NoFitness == -1

generations == Len(hist)

(* _best_fitness_for_stopping                                              *)
best == IF hist = <<>> THEN NoFitness ELSE hist[generations]

StopperInit ==
  /\ hist = <<>> /\ seen = NoFitness /\ stagnant = 0 /\ plateau = FALSE
  /\ pc = "ask" /\ asks = 0 /\ failures = 0

(* FitnessPlateauStopper.should_stop; a fitness of None is not counted.    *)
PlateauWith(improved, reset, limit) ==
  /\ seen' = IF best # NoFitness /\ improved THEN best ELSE seen
  /\ stagnant' = IF best = NoFitness THEN stagnant
                 ELSE IF improved THEN reset ELSE stagnant + 1
  /\ plateau' = (best # NoFitness /\ stagnant' >= limit)

improves == seen = NoFitness \/ best - seen >= MinDelta

PlateauKeepingCount == PlateauWith(improves, stagnant, Window)  \* mutant: no reset

PlateauLate == PlateauWith(improves, 0, Window + 1)  \* mutant: > for >=

Plateau == PlateauWith(improves, 0, Window)

(* CompositeStopper.should_stop asks every child before it decides.        *)
stops ==
  LET capped == generations >= MaxGenerations IN
  IF Mode = "any" THEN capped \/ plateau' ELSE capped /\ plateau'

Ask ==
  /\ pc = "ask"
  /\ Plateau
  /\ pc' = IF stops THEN "stopped" ELSE "step"
  /\ UNCHANGED <<hist, asks, failures>>

(* The steady-state engine asks again while an epoch is under way.         *)
AskAgain ==
  /\ pc = "step" /\ asks < MaxAsks
  /\ Plateau
  /\ pc' = IF stops THEN "stopped" ELSE "step"
  /\ asks' = asks + 1
  /\ UNCHANGED <<hist, failures>>

(* A generation ends.  Its best comes from the archive, which may have     *)
(* lost elites; it stays what it was when none can be read.                *)
GenerationEnds ==
  /\ pc = "step" /\ generations < MaxHist
  /\ \E b \in Fitness \cup {best} : hist' = Append(hist, b)
  /\ pc' = "ask"
  /\ UNCHANGED <<seen, stagnant, plateau, asks, failures>>

(* step() raises; the exception is logged and the loop goes on.            *)
StepFails ==
  /\ pc = "step" /\ failures < MaxFailures
  /\ failures' = failures + 1 /\ pc' = "ask"
  /\ UNCHANGED <<hist, seen, stagnant, plateau, asks>>

StopperNext == Ask \/ AskAgain \/ GenerationEnds \/ StepFails

StopperSpec == StopperInit /\ [][StopperNext]_stopperVars

-----------------------------------------------------------------------------
(* Properties.                                                             *)

Gain(new, old) == IF HigherIsBetter THEN new - old ELSE old - new

Last(n) == (generations - n + 1)..generations

(* The stopper's reason: "no improvement >= min_delta for window           *)
(* generations".  When it says so, that many generations have ended and    *)
(* none of them improved that much on some generation before them.         *)
PlateauLasted ==
  plateau /\ pc # "ask" =>
    \E old \in 1..(generations - Window) :
      /\ hist[old] # NoFitness
      /\ \A g \in Last(Window) : Gain(hist[g], hist[old]) < MinDelta

(* It is right, for a metric to be maximised, as long as it has been asked *)
(* once per generation: the generational engine without a failed step.     *)
PlateauLastedOnce == asks = 0 /\ failures = 0 => PlateauLasted

(* The engine does not begin another generation when the fitness has not   *)
(* moved for that many.                                                    *)
PlateauCaught ==
  pc = "step" /\ Mode = "any" =>
    ~ /\ generations > Window /\ best # NoFitness
      /\ \A g \in Last(Window + 1) : hist[g] = best
=============================================================================
