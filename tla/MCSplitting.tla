---------------------------- MODULE MCSplitting ----------------------------
(***************************************************************************)
(* Instances of Splitting for TLC: all the sequences of at most MaxLen     *)
(* elements, with the keys nokey and 1 and weights that may be zero or     *)
(* negative.                                                                *)
(***************************************************************************)
EXTENDS Splitting

CONSTANTS MaxLen, Weights

SomeWeights == {-1, 0, 1, 5}

Ids == 1 .. MaxLen

AllInputs ==
  UNION {{[n \in 1 .. len |-> [id |-> n, w |-> f[n][1], k |-> f[n][2]]] :
            f \in [1 .. len -> Weights \X Key]} : len \in 1 .. MaxLen}
=============================================================================
