---------------------------- MODULE MCDagRunner ----------------------------
(* Small instances of DagRunner for TLC.                                   *)
EXTENDS DagRunner, TLC

ProgramSymmetry == Permutations(Programs)
=============================================================================
