----------------------------- MODULE LogicTree -----------------------------
(***************************************************************************)
(* The full logic tree: the source model logic tree, parsed one branchset  *)
(* at a time (SourceModelLogicTree), the GSIM logic tree, which gives the   *)
(* branches of each tectonic region type (GsimLogicTree), and their         *)
(* composition by full enumeration or by sampling (FullLogicTree), with the *)
(* numbers that tie everything else together: the index eri of an           *)
(* effective realization of the source model, the index et_id of a pair     *)
(* (tectonic region type, eri), and the realizations.                        *)
(*                                                                         *)
(* A branch is <<number of its branchset, number of the branch>>.  Weights  *)
(* are integers that sum to Unit in each branchset.  The random numbers of  *)
(* the sampling are any draws.                                               *)
(***************************************************************************)
EXTENDS Lists

CONSTANTS
  Source,       \* the sources of the files [id, base]
  File,         \* file -> its groups
  SourceModels, \* the values of the first branchset: sequences of files
  Extensions,   \* the values of an extendModel branchset: sequences of files
  Filters,      \* the sets of sources of applyToSources
  NoFilter,
  TRT,          \* number of tectonic region types: they are 1 .. TRT
  Unit,         \* the sum of the weights of a branchset
  Weights,      \* number of branches -> their weights
  MaxLevels,    \* bound: branchsets
  MaxGsims,     \* bound: GSIMs of a tectonic region type
  Samples,      \* the values of number_of_logic_tree_samples
  MaxSampled    \* bound: paths of the trees that are sampled

ASSUME LogicTreeAssumption ==
  /\ NoFilter \notin Filters
  /\ TRT \in Nat \ {0} /\ Unit \in Nat \ {0} /\ MaxLevels \in Nat \ {0}
  /\ 1 .. MaxGsims \subseteq DOMAIN Weights
  /\ DOMAIN Weights \subseteq Nat \ {0}   \* nothing sums to Unit
  /\ \A n \in DOMAIN Weights : Weights[n] \in [1 .. n -> Nat] /\ SumOf(Weights[n]) = Unit
  /\ \A f \in DOMAIN File :
       File[f] \in Seq([trt : 1 .. TRT, atomic : BOOLEAN, sources : Seq(Source)])
  /\ SourceModels \cup Extensions \subseteq Seq(DOMAIN File)
  /\ Samples \subseteq Nat

VARIABLES
  pc,
  bsets,        \* the branchsets, in the order of the file
  bset,         \* branch -> the branchset attached to it, or 0
  gsims,        \* tectonic region type -> number of its GSIMs
  num_samples,
  sm_rlzs,      \* the effective realizations of the source model
  rlzs          \* get_realizations()

lt == <<pc, bsets, bset, gsims, num_samples, sm_rlzs, rlzs>>

TreeInit ==
  /\ pc = "smlt"
  /\ bsets = <<>> /\ bset = <<>>
  /\ gsims = <<>> /\ num_samples = 0
  /\ sm_rlzs = <<>> /\ rlzs = <<>>

-----------------------------------------------------------------------------
(* SourceModelLogicTree *)

BranchesOf(b, n) == {<<b, i>> : i \in 1 .. n}

\* parse_branchset: n branches are added, and the branchset is attached to brs.
Attach(brs, b, n) ==
  [br \in DOMAIN bset \cup BranchesOf(b, n) |->
     IF br \in brs THEN b ELSE IF br \in DOMAIN bset THEN bset[br] ELSE 0]

Groups(files) == FlattenSeq([n \in DOMAIN files |-> File[files[n]]])

Ids(files) == UNION {{s.id : s \in ToSet(g.sources)} : g \in ToSet(Groups(files))}

ValueOf(br) == bsets[br[1]].values[br[2]]

\* collect_source_model_data: the branches that name files
WithFiles == {br \in DOMAIN bset : br[1] = 1 \/ bsets[br[1]].extend}

\* validate_filters
ValidFilter(filter, apply) ==
  /\ Cardinality(WithFiles) > 1 => apply # {}
  /\ filter \subseteq UNION {Ids(ValueOf(br)) : br \in WithFiles}

previous_branches == {br \in DOMAIN bset : br[1] = Len(bsets)}

\* The first branchset is of type sourceModel; values cannot be repeated.
ParseSourceModels ==
  /\ pc = "smlt" /\ bsets = <<>>
  /\ \E n \in DOMAIN Weights : \E vs \in TupleOf(SourceModels, n) :
       /\ IsInjective(vs)
       /\ bsets' = <<[values |-> vs, apply |-> {}, filter |-> NoFilter, extend |-> FALSE]>>
       /\ bset' = Attach({}, 1, n)
  /\ UNCHANGED <<pc, gsims, num_samples, sm_rlzs, rlzs>>

\* The other branchsets of the file that pass the validation of the filters: the
\* second one may be of type extendModel.  (One that names its own branches would
\* be attached to itself.)
Nodes(n) ==
  LET node(vs, fs, ext) == [values : vs, filter : fs, extend : {ext},
                            apply : SUBSET DOMAIN bset]
  IN {x \in node({[i \in 1 .. n |-> i]}, Filters \cup {NoFilter}, FALSE) :
        x.filter # NoFilter => ValidFilter(x.filter, x.apply)}
     \cup IF Len(bsets) > 1 THEN {}
          ELSE node({vs \in TupleOf(Extensions, n) : IsInjective(vs)}, {NoFilter}, TRUE)

\* Mutants: a definition named X_Y is X with the bug Y, for the checks that a
\* property is able to fail.
ParseBranchset_NotChecked ==
  /\ pc = "smlt" /\ Len(bsets) \in 1 .. MaxLevels - 1
  /\ \E n \in DOMAIN Weights : \E node \in Nodes(n) :
       /\ bsets' = Append(bsets, node)
       /\ bset' = Attach(IF node.apply # {} THEN node.apply ELSE DOMAIN bset,
                         Len(bsets) + 1, n)
  /\ UNCHANGED <<pc, gsims, num_samples, sm_rlzs, rlzs>>

ParseBranchset ==
  /\ pc = "smlt" /\ Len(bsets) \in 1 .. MaxLevels - 1
  /\ \E n \in DOMAIN Weights : \E node \in Nodes(n) :
       IF \E br \in node.apply : bset[br] # 0   \* already has child branchset
       THEN pc' = "raised" /\ UNCHANGED <<bsets, bset>>
       ELSE /\ bsets' = Append(bsets, node)
            /\ bset' = Attach(IF node.apply # {} THEN node.apply ELSE previous_branches,
                              Len(bsets) + 1, n)
            /\ pc' = pc
  /\ UNCHANGED <<gsims, num_samples, sm_rlzs, rlzs>>

Through_AndStop(br, paths) == << <<br>> >> \o [k \in DOMAIN paths |-> <<br>> \o paths[k]]

Through(br, paths) == [k \in DOMAIN paths |-> <<br>> \o paths[k]]

\* enumerate_paths: depth first, in the order of the branches
PathsFrom[b \in 1 .. Len(bsets)] ==
  FlattenSeq([n \in DOMAIN bsets[b].values |->
    IF bset[<<b, n>>] = 0 THEN << << <<b, n>> >> >>
    ELSE Through(<<b, n>>, PathsFrom[bset[<<b, n>>]])])

enumerate_paths == PathsFrom[1]

WeightOf(br) == Weights[Len(bsets[br[1]].values)][br[2]]

\* One, as the product of n weights
One(n) == ProductOf([i \in 1 .. n |-> Unit])

\* The product of the weights of a path, for paths of any length
PathWeight(path) ==
  ProductOf([i \in 1 .. MaxLevels |-> IF i <= Len(path) THEN WeightOf(path[i]) ELSE Unit])

-----------------------------------------------------------------------------
(* GsimLogicTree *)

\* __iter__: one GSIM for each tectonic region type, the last one first
Product(gs) ==
  LET upto[t \in 0 .. TRT] ==
        IF t = 0 THEN << <<>> >>
        ELSE FlattenSeq([k \in DOMAIN upto[t - 1] |->
                           [n \in 1 .. gs[t] |-> Append(upto[t - 1][k], n)]])
  IN upto[TRT]

GsimWeight(gs, value) == ProductOf([t \in 1 .. TRT |-> Weights[gs[t]][value[t]]])

get_num_paths(gs) == ProductOf(gs)

-----------------------------------------------------------------------------
(* FullLogicTree *)

Repeat(x, n) == [i \in 1 .. n |-> x]

\* All the paths, each with all the paths of the GSIM logic tree
Enumerate ==
  /\ pc = "smlt" /\ bsets # <<>> /\ 0 \in Samples
  /\ \E gs \in TupleOf(1 .. MaxGsims, TRT) :
       LET paths == enumerate_paths
           values == Product(gs)
       IN /\ gsims' = gs
          /\ sm_rlzs' = [i \in DOMAIN paths |->
                           [path |-> paths[i], ordinal |-> i - 1,
                            samples |-> get_num_paths(gs)]]
          /\ rlzs' = FlattenSeq([i \in DOMAIN paths |->
                       [k \in DOMAIN values |->
                          [path |-> paths[i], gsim |-> values[k],
                           weight |-> PathWeight(paths[i]) * GsimWeight(gs, values[k])]]])
  /\ num_samples' = 0
  /\ pc' = "full_lt"
  /\ UNCHANGED <<bsets, bset>>

\* The order of the path IDs
Before(p, q) ==
  \/ IsStrictPrefix(p, q)
  \/ \E n \in DOMAIN p \cap DOMAIN q :
       p[n][2] < q[n][2] /\ SubSeq(p, 1, n - 1) = SubSeq(q, 1, n - 1)

InOrderOfIDs(paths) ==
  [i \in 1 .. Cardinality(paths) |->
     CHOOSE p \in paths : Cardinality({q \in paths : Before(q, p)}) = i - 1]

\* get_effective_rlzs
Effective(drawn) ==
  LET paths == InOrderOfIDs(ToSet(drawn))
  IN [i \in DOMAIN paths |->
        [path |-> paths[i], ordinal |-> i - 1,
         samples |-> Count(drawn, {paths[i]})]]

\* num_samples paths drawn with the weights (early_weights, early_latin), and as
\* many of the GSIM logic tree; all the realizations weigh the same.
Sample ==
  /\ pc = "smlt" /\ bsets # <<>> /\ Len(enumerate_paths) <= MaxSampled
  /\ \E n \in Samples \ {0} : \E gs \in TupleOf(1 .. MaxGsims, TRT) :
     \E drawn \in TupleOf(ToSet(enumerate_paths), n) :
     \E values \in TupleOf(ToSet(Product(gs)), n) :
       LET effective == Effective(drawn)
           repeated == FlattenSeq([i \in DOMAIN effective |->
                         Repeat(effective[i].path, effective[i].samples)])
       IN /\ num_samples' = n
          /\ gsims' = gs
          /\ sm_rlzs' = effective
          /\ rlzs' = [i \in 1 .. n |-> [path |-> repeated[i], gsim |-> values[i],
                                        weight |-> 1]]
  /\ pc' = "full_lt"
  /\ UNCHANGED <<bsets, bset>>

\* Numbers of sources and realizations; a tectonic region type t has trti t - 1.
get_et_id_ByTrt(t, eri) == (t - 1) * TRT + eri

get_et_id(t, eri) == (t - 1) * Len(sm_rlzs) + eri

get_trti_eri(et_id) == <<et_id \div Len(sm_rlzs), et_id % Len(sm_rlzs)>>

et_ids(eri) == {eri + t * Len(sm_rlzs) : t \in 0 .. TRT - 1}

get_eri_by_ltp(path) == Max({i - 1 : i \in {i \in DOMAIN sm_rlzs : sm_rlzs[i].path = path}})

\* gsim -> ordinals of the realizations, for the pairs et_id of the source models
get_rlzs_by_gsim(et_id) ==
  LET trti_eri == get_trti_eri(et_id)
  IN [g \in 1 .. gsims[trti_eri[1] + 1] |->
        {k - 1 : k \in {k \in DOMAIN rlzs :
                          /\ rlzs[k].gsim[trti_eri[1] + 1] = g
                          /\ get_eri_by_ltp(rlzs[k].path) = trti_eri[2]}}]

get_num_rlzs_Paths == SumOf([i \in DOMAIN sm_rlzs |-> get_num_paths(gsims)])

get_num_rlzs ==
  SumOf([i \in DOMAIN sm_rlzs |->
           IF num_samples > 0 THEN sm_rlzs[i].samples ELSE get_num_paths(gsims)])

NextTree == ParseSourceModels \/ ParseBranchset \/ Enumerate \/ Sample
=============================================================================
