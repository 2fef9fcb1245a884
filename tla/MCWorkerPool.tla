--------------------------- MODULE MCWorkerPool ----------------------------
(* The instances of WorkerPool that TLC checks; Served is a liveness        *)
(* property, so the processes are not declared symmetric.                  *)
EXTENDS WorkerPool, TLC
=============================================================================
