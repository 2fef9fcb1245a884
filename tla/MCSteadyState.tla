--------------------------- MODULE MCSteadyState ---------------------------
(* Small instances of SteadyState for TLC.                                 *)
EXTENDS SteadyState, TLC

MutantSymmetry == Permutations(Mutants)
=============================================================================
