----------------------------- MODULE MCCalcIds -----------------------------
(***************************************************************************)
(* Instances of CalcIds for TLC.                                           *)
(***************************************************************************)
EXTENDS CalcIds, TLC

CONSTANTS a, b, c, d

Jobs(f) == [x \in Calc |-> IF x \in {a, b} THEN "job" ELSE f[x]]

\* Two jobs of the engine with a calculation without a job and an import, or
\* with one that calls hdf5new.
JobsAndOthers == {Jobs(c :> "nojob" @@ d :> "import"),
                  Jobs(c :> "hdf5new" @@ d :> "nojob")}

\* The two jobs are created in the same way.
Symmetry == Permutations({a, b})
=============================================================================
