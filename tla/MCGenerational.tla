--------------------------- MODULE MCGenerational ---------------------------
(* A small instance of Generational for TLC.                               *)
EXTENDS Generational

CONSTANTS s, m1, m2
=============================================================================
