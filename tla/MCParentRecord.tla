--------------------------- MODULE MCParentRecord ---------------------------
(* Small instances of ParentRecord for TLC.                                *)
EXTENDS ParentRecord, TLC

ChildSymmetry == Permutations(Children)
=============================================================================
