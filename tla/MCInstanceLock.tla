--------------------------- MODULE MCInstanceLock ---------------------------
(* Small instances of InstanceLock for TLC.                                *)
EXTENDS InstanceLock, TLC

LockSymmetry == Permutations(Instances) \cup Permutations(Closers)
=============================================================================
