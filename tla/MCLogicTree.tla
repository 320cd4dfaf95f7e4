---------------------------- MODULE MCLogicTree ----------------------------
(***************************************************************************)
(* Two source models with a common file; each has a source "b" of its own   *)
(* in an atomic or an ordinary group.  The second source model has no "c".  *)
(***************************************************************************)
EXTENDS SourceModel

S(id, base) == [id |-> id, base |-> base]
G(trt, sources) == [trt |-> trt, atomic |-> FALSE, sources |-> sources]

MCFile == [
  common |-> <<G(1, <<S("a", 1)>>)>>,
  first  |-> <<G(1, <<S("b", 1)>>), [G(2, <<S("c", 1)>>) EXCEPT !.atomic = TRUE]>>,
  second |-> <<G(1, <<S("b", 2)>>)>>,
  extra  |-> <<G(2, <<S("d", 1)>>)>>,
  clash  |-> <<G(1, <<S("b", 3)>>)>>]

MCSource == [id : {"a", "b", "c", "d"}, base : 1 .. 3]
MCSourceModels == {<<"common", "first">>, <<"common", "second">>}
MCExtensions == {<<"extra">>, <<"clash">>}
MCFilters == {{"b"}, {"c"}}
MCWeights == << <<3>>, <<1, 2>> >>

\* What the theorem on the sources of the realizations supposes
ASSUME MCSourcesOnce == SourcesOnce
=============================================================================
