---------------------------- MODULE MCJobQueue ----------------------------
(***************************************************************************)
(* Instances of JobQueue for TLC.                                          *)
(***************************************************************************)
EXTENDS JobQueue, TLC

CONSTANTS a, b, c

\* Every process is given one job file.
Single == [p \in Proc |-> 1]

\* Process a is given two.
Chain == [p \in Proc |-> IF p = a THEN 2 ELSE 1]

\* b and c are given one job file each and are started in the same way.
Symmetry == Permutations({b, c})

=============================================================================
