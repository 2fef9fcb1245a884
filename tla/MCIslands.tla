----------------------------- MODULE MCIslands -----------------------------
(***************************************************************************)
(* Two islands of two cells and three programs, one of them worse than the *)
(* other two, which are equally good.                                      *)
(***************************************************************************)
EXTENDS Islands, TLC

CONSTANTS i1, i2, k1, k2, p1, p2, p3

TwoIslands == {i1, i2}
TwoCells == {k1, k2}
ThreePrograms == {p1, p2, p3}
OneWorse == [a \in ThreePrograms |-> IF a = p1 THEN 1 ELSE 2]

BatchOf == [e \in Engines |-> IF e = "steady" THEN 1 ELSE 2]

Interchangeable == {f @@ g @@ h : f \in Permutations(TwoIslands),
                                  g \in Permutations(TwoCells),
                                  h \in Permutations({p2, p3})}
=============================================================================
