------------------------------- MODULE Lists -------------------------------
(***************************************************************************)
(* Operators on sequences that several modules use: the sum and the product*)
(* of numbers, how many members of a set are in it, and which they are.      *)
(***************************************************************************)
EXTENDS Integers, SequencesExt, FiniteSetsExt

SumOf(s) ==
  LET sum[n \in 0 .. Len(s)] == IF n = 0 THEN 0 ELSE sum[n - 1] + s[n] IN sum[Len(s)]

ProductOf(s) ==
  LET prod[n \in 0 .. Len(s)] == IF n = 0 THEN 1 ELSE prod[n - 1] * s[n] IN prod[Len(s)]

\* How many members of S a sequence has
Count(s, S) == Cardinality({n \in DOMAIN s : s[n] \in S})

\* The members of S in a sequence, in order
Select(seq, S) == FlattenSeq([n \in DOMAIN seq |-> IF seq[n] \in S THEN <<seq[n]>> ELSE <<>>])
=============================================================================
