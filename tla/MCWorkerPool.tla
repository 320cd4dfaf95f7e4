--------------------------- MODULE MCWorkerPool ---------------------------
(***************************************************************************)
(* Instances of WorkerPool for TLC.                                        *)
(***************************************************************************)
EXTENDS WorkerPool

CONSTANTS a, b, c, h1, h2, q1, q2, q3, q4
=============================================================================
