---------------------------- MODULE SourceModel ----------------------------
(***************************************************************************)
(* The composite source model: the sources of every effective realization  *)
(* of the logic tree, with the uncertainties of its path applied to them    *)
(* (_build_groups), then one source in the place of those that are equal    *)
(* (_get_csm, reduce_sources), which carries the list of the et_ids it      *)
(* stands for.  The tasks of a calculation are made of these sources, and   *)
(* their results go to the realizations of those et_ids.                     *)
(*                                                                         *)
(* The content of a source is what its checksum depends on: what the file   *)
(* says, then the changes that were applied.  _check_dupl_ids, which        *)
(* renames the sources that still have the same ID, is left out.             *)
(***************************************************************************)
EXTENDS LogicTree

VARIABLES csm    \* the groups [trt, sources], sources [id, content, et_ids, samples]

vars == <<lt, csm>>

\* bset_values: the branches of the path after the first one
bset_values(path) == Tail(path)

\* The files of the second branch, if its branchset is of type extendModel
Extension(path) ==
  IF Len(path) > 1 /\ bsets[path[2][1]].extend THEN ValueOf(path[2]) ELSE <<>>

Uncertainties(path) ==
  IF Extension(path) = <<>> THEN bset_values(path) ELSE Tail(bset_values(path))

filter_source(b, source) ==
  bsets[b].filter = NoFilter \/ source.id \in bsets[b].filter

\* apply_uncertainties to one source
apply_uncertainties(source, brs) ==
  <<source.base>> \o Select(brs, {br \in ToSet(brs) : filter_source(br[1], source)})

-----------------------------------------------------------------------------
\* collect_info: the applyToSources of the branchsets applied to one branch only
AppliedTo(br) ==
  UNION {bsets[b].filter : b \in {b \in DOMAIN bsets : bsets[b].filter # NoFilter
                                                       /\ bsets[b].apply = {br}}}

\* _build_groups raises for a source the model does not have, and for one that
\* the extension has too.
BadPath(path) ==
  \/ AppliedTo(path[1]) \ Ids(ValueOf(path[1])) # {}
  \/ Ids(ValueOf(path[1])) \cap Ids(Extension(path)) # {}

_build_groups(sm) ==
  LET groups == Groups(ValueOf(sm.path[1]) \o Extension(sm.path))
      source(g, s) == [id |-> s.id, content |-> apply_uncertainties(s, Uncertainties(sm.path)),
                       et_ids |-> <<get_et_id(g.trt, sm.ordinal)>>,
                       samples |-> IF sm.samples > 1 THEN sm.samples ELSE 1]
  IN [n \in DOMAIN groups |->
        [trt |-> groups[n].trt, atomic |-> groups[n].atomic,
         sources |-> [k \in DOMAIN groups[n].sources |->
                        source(groups[n], groups[n].sources[k])]]]

AllGroups == FlattenSeq([i \in DOMAIN sm_rlzs |-> _build_groups(sm_rlzs[i])])

OneOf(same) == [same[1] EXCEPT !.et_ids = [n \in DOMAIN same |-> same[n].et_ids[1]]]

reduce_sources_ById(srcs) ==
  {OneOf(Select(srcs, {s \in ToSet(srcs) : s.id = id})) : id \in {s.id : s \in ToSet(srcs)}}

\* reduce_sources: one source for those of the same ID and checksum
reduce_sources(srcs) ==
  {OneOf(Select(srcs, {x \in ToSet(srcs) : x.id = s.id /\ x.content = s.content})) :
     s \in ToSet(srcs)}

\* The sources of a tectonic region type that are not in atomic groups are put
\* together, reduced, and grouped again by their et_ids.
Regroup(groups, t) ==
  LET srcs == FlattenSeq([n \in DOMAIN groups |->
                IF groups[n].trt = t /\ ~groups[n].atomic THEN groups[n].sources ELSE <<>>])
      reduced == reduce_sources(srcs)
  IN {[trt |-> t, sources |-> {s \in reduced : s.et_ids = e}] :
        e \in {s.et_ids : s \in reduced}}

_get_csm(groups) ==
  (UNION {Regroup(groups, t) : t \in 1 .. TRT})
  \cup {[trt |-> g.trt, sources |-> ToSet(g.sources)] :
          g \in {g \in ToSet(groups) : g.atomic /\ g.sources # <<>>}}

GetCsm ==
  /\ pc = "full_lt"
  /\ IF \E i \in DOMAIN sm_rlzs : BadPath(sm_rlzs[i].path)
     THEN pc' = "raised" /\ csm' = csm
     ELSE pc' = "csm" /\ csm' = _get_csm(AllGroups)
  /\ UNCHANGED <<bsets, bset, gsims, num_samples, sm_rlzs, rlzs>>

\* get_et_ids: those of a group are those of its first source.
get_et_ids(g) == (CHOOSE s \in g.sources : TRUE).et_ids

\* get_rlzs_by_gsim_list: how often the realization k is in the list of a GSIM
TimesIn(k, g, gsim) ==
  Cardinality({n \in DOMAIN get_et_ids(g) : k \in get_rlzs_by_gsim(get_et_ids(g)[n])[gsim]})

Next == (NextTree /\ csm' = csm) \/ GetCsm

Init == TreeInit /\ csm = {}

Spec == Init /\ [][Next]_vars

-----------------------------------------------------------------------------
(* Properties *)

IsPath(p) ==
  /\ p # <<>> /\ p[1][1] = 1 /\ bset[Last(p)] = 0
  /\ \A n \in 1 .. Len(p) - 1 : p[n + 1][1] = bset[p[n]]

\* No source is listed twice, under the same tectonic region type and ID with the
\* same content.
Once(groups) ==
  \A n, m \in DOMAIN groups : \A i \in DOMAIN groups[n].sources, j \in DOMAIN groups[m].sources :
    /\ groups[n].trt = groups[m].trt
    /\ groups[n].sources[i].id = groups[m].sources[j].id
    /\ groups[n].sources[i].base = groups[m].sources[j].base
    => n = m /\ i = j

\* Neither the files of a source model nor those of an extension list one twice.
SourcesOnce == \A files \in SourceModels \cup Extensions : Once(Groups(files))

\* The types of the variables; the effective realizations have paths of the tree,
\* and no group of the composite source model is empty (get_csm asserts it).
TypeOK ==
  /\ pc \in {"smlt", "full_lt", "csm", "raised"}
  /\ DOMAIN bset = UNION {BranchesOf(b, Len(bsets[b].values)) : b \in DOMAIN bsets}
  /\ \A br \in DOMAIN bset : bset[br] \in {0} \cup br[1] + 1 .. Len(bsets)
  /\ gsims # <<>> => gsims \in TupleOf(1 .. MaxGsims, TRT)
  /\ num_samples \in Samples \cup {0}
  /\ \A i \in DOMAIN sm_rlzs : IsPath(sm_rlzs[i].path) /\ sm_rlzs[i].samples > 0
  /\ \A g \in csm : g.trt \in 1 .. TRT /\ g.sources # {}

\* enumerate_paths gives every way from the root to a branch without a branchset,
\* and none twice (BranchSet.enumerate_paths).
PathsEnumerated ==
  bsets # <<>> =>
    LET ways == UNION {TupleOf(DOMAIN bset, n) : n \in DOMAIN bsets}
    IN /\ ToSet(enumerate_paths) = {p \in ways : IsPath(p)}
       /\ IsInjective(enumerate_paths)

\* The weights of the paths sum to one, however the branchsets are attached
\* (BranchSet.enumerate_paths).
PathsWeighOne ==
  bsets # <<>> =>
    LET paths == enumerate_paths
    IN SumOf([i \in DOMAIN paths |-> PathWeight(paths[i])]) = One(MaxLevels)

\* No branch of the file is lost: each is in a path, wherever its branchset was
\* attached (SourceModelLogicTree.parse_branchset and apply_branchset).
BranchesInPaths ==
  bsets # <<>> => DOMAIN bset = UNION {ToSet(p) : p \in ToSet(enumerate_paths)}

\* The realizations are those the effective realizations announce, as many for
\* each path as its samples; the weights of the paths, and with full enumeration
\* those of the realizations, sum to one (FullLogicTree.init, get_realizations and
\* get_num_rlzs).
RealizationsAgree ==
  /\ TypeOK
  /\ PathsWeighOne
  /\ rlzs # <<>> =>
       /\ get_num_rlzs = Len(rlzs)
       /\ \A i \in DOMAIN sm_rlzs :
            /\ get_eri_by_ltp(sm_rlzs[i].path) = i - 1
            /\ Cardinality({k \in DOMAIN rlzs : rlzs[k].path = sm_rlzs[i].path})
                 = sm_rlzs[i].samples
       /\ num_samples = 0 =>
            /\ IsInjective(rlzs)
            /\ SumOf([k \in DOMAIN rlzs |-> rlzs[k].weight]) = One(MaxLevels) * One(TRT)

\* The et_ids of the effective realizations are all the numbers below TRT times
\* their number, each the ID of one pair (get_et_id, get_trti_eri, et_ids).
EtIdsArePairs ==
  sm_rlzs # <<>> =>
    LET eris == 0 .. Len(sm_rlzs) - 1 IN
    /\ UNION {et_ids(eri) : eri \in eris} = 0 .. Len(sm_rlzs) * TRT - 1
    /\ \A t \in 1 .. TRT, eri \in eris :
         /\ get_et_id(t, eri) \in et_ids(eri)
         /\ get_trti_eri(get_et_id(t, eri)) = <<t - 1, eri>>

\* The sources of a tectonic region type in the files of a path, and what a
\* realization has of the composite source model
OwnSources(path, t) ==
  LET files == Groups(ValueOf(path[1]) \o Extension(path))
  IN UNION {ToSet(files[n].sources) : n \in {n \in DOMAIN files : files[n].trt = t}}

GotSources(k, t) ==
  UNION {{<<g, s, gsim>> : s \in g.sources,
             gsim \in {x \in 1 .. gsims[t] : TimesIn(k - 1, g, x) > 0}} :
          g \in {g \in csm : g.trt = t}}

\* Every realization gets each source of its own model, with the changes of its
\* own path, under its own GSIM, once, and nothing else: reducing and regrouping
\* the sources and numbering the et_ids lose and mix nothing (_build_groups,
\* _get_csm, reduce_sources, get_rlzs_by_gsim_list).
RealizationsGetTheirSources ==
  pc = "csm" =>
    \A k \in DOMAIN rlzs : \A t \in 1 .. TRT :
      LET path == rlzs[k].path
          own == OwnSources(path, t)
          got == GotSources(k, t)
      IN /\ Cardinality(got) = Cardinality(own)
         /\ {<<x[2].id, x[2].content>> : x \in got}
              = {<<s.id, apply_uncertainties(s, Uncertainties(path))>> : s \in own}
         /\ \A x \in got : x[3] = rlzs[k].gsim[t] /\ TimesIn(k - 1, x[1], x[3]) = 1

\* A source is sampled for each effective realization as many times as the
\* realization was (doc/adv-manual/event-based-with-large-logic-tree.rst:42-46);
\* sample_ruptures uses the samples of the source for all its et_ids.
SampledAsItsRealization ==
  pc = "csm" =>
    \A g \in csm : \A s \in g.sources : \A e \in ToSet(s.et_ids) :
      s.samples = sm_rlzs[get_trti_eri(e)[2] + 1].samples
=============================================================================
