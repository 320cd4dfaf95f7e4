--------------------------- MODULE LogicTreeProofs ---------------------------
(***************************************************************************)
(* Theorems about the logic tree and the composite source model: for trees *)
(* of any number of branchsets, attached in any way the parser accepts, any *)
(* realizations and any sources.                                            *)
(***************************************************************************)
EXTENDS SourceModel, DataLemmas

-----------------------------------------------------------------------------
(* The tree *)

BranchSetType ==
  [values : Seq(SourceModels) \cup Seq(Nat) \cup Seq(Extensions),
   apply : SUBSET (Nat \X Nat), filter : Filters \cup {NoFilter}, extend : BOOLEAN]

\* The branches are those of the branchsets; a branchset is attached to branches
\* of earlier ones only, so that there is no way round, and each but the first is
\* attached to some branch.
TreeInv ==
  /\ bsets \in Seq(BranchSetType)
  /\ \A b \in 1..Len(bsets) : Len(bsets[b].values) > 0
  /\ \A br : br \in DOMAIN bset <=>
       \E b \in 1..Len(bsets) : \E n \in 1..Len(bsets[b].values) : br = <<b, n>>
  /\ \A br \in DOMAIN bset : bset[br] = 0 \/ bset[br] \in br[1] + 1..Len(bsets)
  /\ \A b \in 2..Len(bsets) : \E br \in DOMAIN bset : bset[br] = b

\* The values of a branchset are its branches.
LEMMA ValuesOf ==
  ASSUME TreeInv, NEW b \in 1..Len(bsets)
  PROVE  /\ b \in Nat /\ Len(bsets) \in Nat /\ Len(bsets[b].values) \in Nat \ {0}
         /\ DOMAIN bsets[b].values = 1..Len(bsets[b].values)
         /\ \A n \in 1..Len(bsets[b].values) : n \in Nat /\ <<b, n>> \in DOMAIN bset
  <1>1. bsets[b] \in BranchSetType /\ b \in Nat /\ Len(bsets) \in Nat
    BY DEF TreeInv
  <1>2. \/ bsets[b].values \in Seq(SourceModels) \/ bsets[b].values \in Seq(Nat)
        \/ bsets[b].values \in Seq(Extensions)
    BY <1>1 DEF BranchSetType
  <1>3. Len(bsets[b].values) \in Nat /\ DOMAIN bsets[b].values = 1..Len(bsets[b].values)
    BY <1>2
  <1> QED BY <1>1, <1>3 DEF TreeInv

\* What parse_branchset reads of a branchset with n branches
LEMMA NodeIs ==
  ASSUME NEW n \in Nat \ {0}, NEW node \in Nodes(n), DOMAIN bset \subseteq Nat \X Nat
  PROVE  /\ node \in BranchSetType
         /\ Len(node.values) = n
         /\ node.apply \subseteq DOMAIN bset
  <1>1. /\ node = [values |-> node.values, filter |-> node.filter, extend |-> node.extend,
                   apply |-> node.apply]
        /\ node.values = [i \in 1..n |-> i] \/ node.values \in [1..n -> Extensions]
        /\ node.filter \in Filters \cup {NoFilter}
        /\ node.extend \in BOOLEAN
        /\ node.apply \in SUBSET DOMAIN bset
    <2>1. CASE Len(bsets) > 1
      BY <2>1 DEF Nodes, TupleOf
    <2>2. CASE ~(Len(bsets) > 1)
      BY <2>2 DEF Nodes, TupleOf
    <2> QED BY <2>1, <2>2
  <1>2. node.values \in Seq(Nat) \cup Seq(Extensions) /\ Len(node.values) = n
    <2>1. CASE node.values = [i \in 1..n |-> i]
      <3>1. node.values \in [1..n -> Nat]
        BY <2>1
      <3> QED BY <3>1, IsASeq, LenProperties, SeqDef
    <2>2. CASE node.values \in [1..n -> Extensions]
      BY <2>2, IsASeq, LenProperties, SeqDef
    <2> QED BY <1>1, <2>1, <2>2
  <1>3. node.apply \in SUBSET (Nat \X Nat)
    BY <1>1
  <1> DEFINE v == node.values  f == node.filter  e == node.extend  a == node.apply
  <1>4. node = [values |-> v, filter |-> f, extend |-> e, apply |-> a]
    BY <1>1
  <1>5. /\ v \in Seq(Nat) \cup Seq(Extensions) /\ f \in Filters \cup {NoFilter}
        /\ e \in BOOLEAN /\ a \in SUBSET (Nat \X Nat)
    BY <1>1, <1>2, <1>3
  <1>6. node \in BranchSetType
    <2> HIDE DEF v, f, e, a
    <2> QED BY <1>4, <1>5 DEF BranchSetType
  <1> QED BY <1>1, <1>2, <1>6

\* A branchset b of n branches is attached to some branches to which none was.
LEMMA AttachInv ==
  ASSUME TreeInv, NEW n \in Nat \ {0}, NEW node \in BranchSetType, Len(node.values) = n,
         NEW brs \in SUBSET DOMAIN bset, \A br \in brs : bset[br] = 0,
         brs # {} \/ bsets = << >>,
         bsets' = Append(bsets, node),
         bset' = Attach(brs, Len(bsets) + 1, n)
  PROVE  TreeInv'
  <1> DEFINE L == Len(bsets)
  <1>0. L \in Nat /\ bsets \in Seq(BranchSetType)
    BY DEF TreeInv
  <1>1. /\ bsets' \in Seq(BranchSetType) /\ Len(bsets') = L + 1
        /\ bsets'[L + 1] = node
        /\ \A b \in 1..L : bsets'[b] = bsets[b]
    BY <1>0
  <1>2. /\ DOMAIN bset' = DOMAIN bset \cup BranchesOf(L + 1, n)
        /\ \A br \in brs : bset'[br] = L + 1
        /\ \A br \in DOMAIN bset \ brs : bset'[br] = bset[br]
        /\ \A br \in DOMAIN bset' : br \in DOMAIN bset \/ bset'[br] = 0
    BY DEF Attach
  <1> HIDE DEF L
  <1>3. \A b \in 1..(L + 1) : b \in 1..L \/ b = L + 1
    BY <1>0
  <1>4. \A b \in 1..L : b \in 1..(L + 1)
    BY <1>0
  <1>5. \A b \in 1..Len(bsets') : Len(bsets'[b].values) > 0
    BY <1>0, <1>1, <1>3 DEF TreeInv, L
  <1>6. ASSUME NEW br
        PROVE  br \in DOMAIN bset' <=>
                 \E b \in 1..Len(bsets') : \E i \in 1..Len(bsets'[b].values) : br = <<b, i>>
    <2>1. br \in DOMAIN bset <=> \E b \in 1..L : \E i \in 1..Len(bsets'[b].values) : br = <<b, i>>
      BY <1>1 DEF TreeInv, L
    <2>2. br \in BranchesOf(L + 1, n) <=> \E i \in 1..Len(bsets'[L + 1].values) : br = <<L + 1, i>>
      BY <1>1 DEF BranchesOf
    <2>3. L + 1 \in 1..(L + 1)
      BY <1>0
    <2> QED BY <1>1, <1>2, <1>3, <1>4, <2>1, <2>2, <2>3
  <1>7. \A br \in DOMAIN bset : br[1] \in 1..L
    BY DEF TreeInv, L
  <1>8. ASSUME NEW br \in DOMAIN bset'
        PROVE  bset'[br] = 0 \/ bset'[br] \in br[1] + 1..Len(bsets')
    <2>1. CASE br \in brs
      BY <1>0, <1>1, <1>2, <1>7, <2>1
    <2>2. CASE br \in DOMAIN bset \ brs
      <3>1. bset[br] = 0 \/ bset[br] \in br[1] + 1..L
        BY <2>2 DEF TreeInv, L
      <3>2. \A i \in br[1] + 1..L : i \in br[1] + 1..(L + 1)
        BY <1>0, <1>7, <2>2
      <3> QED BY <1>1, <1>2, <2>2, <3>1, <3>2
    <2>3. CASE br \notin DOMAIN bset
      BY <1>2, <2>3
    <2> QED BY <2>1, <2>2, <2>3
  <1>9. ASSUME NEW b \in 2..Len(bsets')
        PROVE  \E br \in DOMAIN bset' : bset'[br] = b
    <2>1. CASE b = L + 1
      <3>1. brs # {}
        BY <1>0, <1>1, <1>9, <2>1 DEF L
      <3>2. PICK br \in brs : TRUE
        BY <3>1
      <3> QED BY <1>2, <2>1, <3>2
    <2>2. CASE b # L + 1
      <3>1. b \in 2..L
        BY <1>0, <1>1, <2>2
      <3>2. PICK br \in DOMAIN bset : bset[br] = b
        BY <3>1 DEF TreeInv, L
      <3>3. br \notin brs
        BY <3>1, <3>2
      <3> QED BY <1>2, <3>2, <3>3
    <2> QED BY <2>1, <2>2
  <1> QED BY <1>1, <1>5, <1>6, <1>8, <1>9 DEF TreeInv

\* The parser keeps what the tree is.
LEMMA NextTreeInv == TreeInv /\ [Next]_vars => TreeInv'
  <1> SUFFICES ASSUME TreeInv, [Next]_vars PROVE TreeInv'
    OBVIOUS
  <1>0. bsets \in Seq(BranchSetType) /\ Len(bsets) \in Nat
    BY DEF TreeInv
  <1>1. CASE UNCHANGED <<bsets, bset>>
    BY <1>1 DEF TreeInv
  <1>2. CASE ParseSourceModels
    <2>1. PICK n \in DOMAIN Weights : \E vs \in TupleOf(SourceModels, n) :
            /\ bsets' = <<[values |-> vs, apply |-> {}, filter |-> NoFilter, extend |-> FALSE]>>
            /\ bset' = Attach({}, 1, n)
      BY <1>2 DEF ParseSourceModels
    <2>2. PICK vs \in TupleOf(SourceModels, n) :
            /\ bsets' = <<[values |-> vs, apply |-> {}, filter |-> NoFilter, extend |-> FALSE]>>
            /\ bset' = Attach({}, 1, n)
      BY <2>1
    <2> DEFINE node == [values |-> vs, apply |-> {}, filter |-> NoFilter, extend |-> FALSE]
    <2>3. n \in Nat \ {0}
      BY LogicTreeAssumption
    <2>4. vs \in Seq(SourceModels) /\ Len(vs) = n
      BY <2>3, SeqDef, LenProperties, IsASeq DEF TupleOf
    <2>5. node \in BranchSetType /\ Len(node.values) = n
      BY <2>4 DEF BranchSetType
    <2>6. bsets = << >>
      BY <1>2 DEF ParseSourceModels
    <2>7. bsets' = Append(bsets, node) /\ Len(bsets) + 1 = 1
      BY <2>2, <2>6
    <2> HIDE DEF node
    <2> QED BY <2>2, <2>3, <2>5, <2>6, <2>7, AttachInv
  <1>3. CASE ParseBranchset
    <2>1. PICK n \in DOMAIN Weights : \E node \in Nodes(n) :
            IF \E br \in node.apply : bset[br] # 0
            THEN UNCHANGED <<bsets, bset>>
            ELSE /\ bsets' = Append(bsets, node)
                 /\ bset' = Attach(IF node.apply # {} THEN node.apply ELSE previous_branches,
                                   Len(bsets) + 1, n)
      BY <1>3 DEF ParseBranchset
    <2>2. PICK node \in Nodes(n) :
            IF \E br \in node.apply : bset[br] # 0
            THEN UNCHANGED <<bsets, bset>>
            ELSE /\ bsets' = Append(bsets, node)
                 /\ bset' = Attach(IF node.apply # {} THEN node.apply ELSE previous_branches,
                                   Len(bsets) + 1, n)
      BY <2>1
    <2>3. CASE \E br \in node.apply : bset[br] # 0
      BY <1>1, <2>2, <2>3
    <2>4. CASE ~(\E br \in node.apply : bset[br] # 0)
      <3> DEFINE brs == IF node.apply # {} THEN node.apply ELSE previous_branches
      <3>1. n \in Nat \ {0}
        BY LogicTreeAssumption
      <3>2. DOMAIN bset \subseteq Nat \X Nat
        <4> SUFFICES ASSUME NEW br \in DOMAIN bset PROVE br \in Nat \X Nat
          OBVIOUS
        <4>1. PICK b \in 1..Len(bsets) : \E i \in 1..Len(bsets[b].values) : br = <<b, i>>
          BY DEF TreeInv
        <4>2. PICK i \in 1..Len(bsets[b].values) : br = <<b, i>>
          BY <4>1
        <4>3. b \in Nat /\ i \in Nat
          BY ValuesOf
        <4> QED BY <4>2, <4>3
      <3>3. node \in BranchSetType /\ Len(node.values) = n /\ node.apply \subseteq DOMAIN bset
        BY <3>1, <3>2, NodeIs
      <3>4. /\ previous_branches \subseteq DOMAIN bset /\ previous_branches # {}
            /\ \A br \in previous_branches : bset[br] = 0
        <4>1. Len(bsets) \in 1..Len(bsets)
          BY <1>0, <1>3 DEF ParseBranchset
        <4>2. <<Len(bsets), 1>> \in DOMAIN bset
          BY <4>1, ValuesOf
        <4>3. <<Len(bsets), 1>> \in previous_branches
          BY <4>2 DEF previous_branches
        <4>4. \A br \in previous_branches : bset[br] = 0
          <5> TAKE br \in previous_branches
          <5>1. br \in DOMAIN bset /\ br[1] = Len(bsets)
            BY DEF previous_branches
          <5>2. bset[br] \notin br[1] + 1..Len(bsets)
            BY <1>0, <5>1
          <5> QED BY <5>1, <5>2 DEF TreeInv
        <4> QED BY <4>3, <4>4 DEF previous_branches
      <3>5. brs \subseteq DOMAIN bset /\ brs # {} /\ \A br \in brs : bset[br] = 0
        BY <2>4, <3>3, <3>4
      <3>6. bsets' = Append(bsets, node) /\ bset' = Attach(brs, Len(bsets) + 1, n)
        BY <2>2, <2>4
      <3> HIDE DEF brs
      <3> QED BY <3>1, <3>3, <3>5, <3>6, AttachInv
    <2> QED BY <2>3, <2>4
  <1> QED BY <1>1, <1>2, <1>3 DEF Next, NextTree, Enumerate, Sample, GetCsm, vars, lt

\* parse_branchset keeps the branchsets in a tree.
THEOREM TreeInvariant == Spec => []TreeInv
  <1>1. Init => TreeInv
    BY DEF Init, TreeInit, TreeInv
  <1> QED BY <1>1, NextTreeInv, PTL DEF Spec

-----------------------------------------------------------------------------
(* enumerate_paths *)

Branch == DOMAIN bset

\* The paths from the branch n of the branchset b, when f gives those of the
\* branchsets
PathsOf(f, b, n) == IF bset[<<b, n>>] = 0 THEN << << <<b, n>> >> >>
                    ELSE Through(<<b, n>>, f[bset[<<b, n>>]])

Turn(f, b) == FlattenSeq([n \in DOMAIN bsets[b].values |-> PathsOf(f, b, n)])

\* The paths of a branchset depend on those of later branchsets only.
LEMMA TurnDepends ==
  ASSUME TreeInv, NEW b \in 1..Len(bsets), NEW f, NEW g,
         \A c \in b + 1..Len(bsets) : f[c] = g[c]
  PROVE  Turn(f, b) = Turn(g, b)
  <1>1. \A n \in DOMAIN bsets[b].values : PathsOf(f, b, n) = PathsOf(g, b, n)
    <2> TAKE n \in DOMAIN bsets[b].values
    <2>1. <<b, n>> \in DOMAIN bset
      BY ValuesOf
    <2>2. bset[<<b, n>>] = 0 \/ bset[<<b, n>>] \in b + 1..Len(bsets)
      BY <2>1 DEF TreeInv
    <2>3. bset[<<b, n>>] # 0 => f[bset[<<b, n>>]] = g[bset[<<b, n>>]]
      BY <2>2
    <2> QED BY <2>3 DEF PathsOf
  <1>2. [n \in DOMAIN bsets[b].values |-> PathsOf(f, b, n)]
          = [n \in DOMAIN bsets[b].values |-> PathsOf(g, b, n)]
    BY <1>1
  <1> QED BY <1>2 DEF Turn

\* The recursion of enumerate_paths ends: the paths of the last m branchsets are
\* defined, for any m.
LEMMA PathsFunction ==
  ASSUME TreeInv
  PROVE  \E f : f = [b \in 1..Len(bsets) |-> Turn(f, b)]
  <1> DEFINE L == Len(bsets)
             Good(m) == \E f : f = [b \in (L - m) + 1..L |-> Turn(f, b)]
             G == {m \in 0..L : Good(m)}
  <1>0. L \in Nat
    BY DEF TreeInv
  <1>1. Good(0)
    <2> DEFINE f == [b \in (L - 0) + 1..L |-> 0]
    <2>1. \A b \in (L - 0) + 1..L : FALSE
      BY <1>0
    <2>2. f = [b \in (L - 0) + 1..L |-> Turn(f, b)]
      BY <2>1
    <2> QED BY <2>2
  <1>2. ASSUME NEW m \in 0..L, m + 1 \in 0..L, Good(m) PROVE Good(m + 1)
    <2>1. PICK f : f = [b \in (L - m) + 1..L |-> Turn(f, b)]
      BY <1>2
    <2> DEFINE k == (L - (m + 1)) + 1
               g == [b \in k..L |-> IF b = k THEN Turn(f, b) ELSE f[b]]
    <2>2. /\ k \in 1..L /\ k + 1 = (L - m) + 1
          /\ \A b \in k..L : b = k \/ b \in k + 1..L
          /\ \A b \in k + 1..L : b \in k..L /\ b # k
      BY <1>0, <1>2
    <2>3. \A b \in k + 1..L : f[b] = Turn(f, b)
      <3>1. \A b \in (L - m) + 1..L : f[b] = Turn(f, b)
        <4> HIDE DEF L
        <4> QED BY <2>1
      <3> HIDE DEF k
      <3> QED BY <2>2, <3>1
    <2>4. \A b \in k + 1..L : g[b] = f[b]
      <3> HIDE DEF k, L
      <3> QED BY <2>2
    <2>5. g[k] = Turn(f, k)
      <3> HIDE DEF L
      <3>1. k \in k..L
        BY <2>2
      <3> HIDE DEF k
      <3> QED BY <3>1
    <2> HIDE DEF g, k
    <2>6. \A b \in k..L : Turn(g, b) = Turn(f, b)
      <3> TAKE b \in k..L
      <3>1. b \in 1..L /\ \A c \in b + 1..L : c \in k + 1..L
        BY <1>0, <2>2
      <3>2. \A c \in b + 1..L : f[c] = g[c]
        BY <2>4, <3>1
      <3> QED BY <3>1, <3>2, TurnDepends
    <2>7. \A b \in k..L : g[b] = Turn(g, b)
      <3> TAKE b \in k..L
      <3>1. CASE b = k
        BY <2>5, <2>6, <3>1
      <3>2. CASE b # k
        <4>1. b \in k + 1..L
          BY <2>2, <3>2
        <4> QED BY <2>3, <2>4, <2>6, <4>1
      <3> QED BY <3>1, <3>2
    <2>8. g = [b \in k..L |-> g[b]]
      BY DEF g
    <2>9. g = [b \in k..L |-> Turn(g, b)]
      BY <2>7, <2>8
    <2> QED BY <2>9 DEF k
  <1>3. 0..L \subseteq G
    <2>1. 0 \in G /\ \A m \in 0..L - 1 : m \in G => m + 1 \in G
      <3>1. \A m \in 0..L - 1 : m \in 0..L /\ m + 1 \in 0..L
        BY <1>0
      <3> HIDE DEF Good
      <3> QED BY <1>0, <1>1, <1>2, <3>1
    <2> HIDE DEF G, L
    <2> QED BY <1>0, <2>1, Upwards
  <1>4. Good(L)
    <2> HIDE DEF Good
    <2> QED BY <1>0, <1>3
  <1>5. (L - L) + 1 = 1
    BY <1>0
  <1> QED BY <1>4, <1>5

\* PathsFrom is the function it is defined as.
LEMMA PathsFromIs ==
  ASSUME TreeInv, NEW b \in 1..Len(bsets)
  PROVE  PathsFrom[b] = Turn(PathsFrom, b)
  <1>1. PathsFrom = CHOOSE f : f = [c \in 1..Len(bsets) |-> Turn(f, c)]
    BY DEF PathsFrom, Turn, PathsOf
  <1>2. PathsFrom = [c \in 1..Len(bsets) |-> Turn(PathsFrom, c)]
    BY <1>1, PathsFunction
  <1> QED BY <1>2

\* The path of one branch
LEMMA OnePath ==
  ASSUME NEW S, NEW x \in S
  PROVE  /\ << <<x>> >> \in Seq(Seq(S))
         /\ \A p : p \in ToSet(<< <<x>> >>) <=> p = <<x>>
  <1>1. <<x>> \in Seq(S)
    OBVIOUS
  <1>2. DOMAIN << <<x>> >> = {1} /\ << <<x>> >>[1] = <<x>>
    OBVIOUS
  <1> QED BY <1>1, <1>2 DEF ToSet

\* Through puts a branch before each path.
LEMMA ThroughIs ==
  ASSUME NEW S, NEW x \in S, NEW ps \in Seq(Seq(S))
  PROVE  /\ Through(x, ps) \in Seq(Seq(S))
         /\ \A p : p \in ToSet(Through(x, ps)) <=> \E q \in ToSet(ps) : p = <<x>> \o q
  <1>1. DOMAIN ps = 1..Len(ps) /\ Len(ps) \in Nat /\ \A k \in 1..Len(ps) : ps[k] \in Seq(S)
    OBVIOUS
  <1>2. \A k \in 1..Len(ps) : <<x>> \o ps[k] \in Seq(S)
    BY <1>1
  <1>3. Through(x, ps) = [k \in 1..Len(ps) |-> <<x>> \o ps[k]]
    BY <1>1 DEF Through
  <1>4. Through(x, ps) \in Seq(Seq(S))
    BY <1>1, <1>2, <1>3, IsASeq
  <1> QED BY <1>1, <1>3, <1>4 DEF ToSet

\* Every branchset has paths, and they are sequences of branches.
LEMMA PathsType ==
  ASSUME TreeInv, NEW b \in 1..Len(bsets)
  PROVE  PathsFrom[b] \in Seq(Seq(Branch)) /\ ToSet(PathsFrom[b]) # {}
  <1> DEFINE L == Len(bsets)
             Good(c) == PathsFrom[c] \in Seq(Seq(Branch)) /\ ToSet(PathsFrom[c]) # {}
             G == {c \in 1..L : Good(c)}
  <1>0. L \in Nat
    BY DEF TreeInv
  <1>1. ASSUME NEW c \in 1..L, \A d \in c + 1..L : Good(d) PROVE Good(c)
    <2> DEFINE ss == [n \in DOMAIN bsets[c].values |-> PathsOf(PathsFrom, c, n)]
               m == Len(bsets[c].values)
    <2>1. m \in Nat \ {0} /\ DOMAIN bsets[c].values = 1..m /\ \A n \in 1..m : <<c, n>> \in Branch
      BY ValuesOf DEF Branch
    <2>2. \A n \in 1..m : PathsOf(PathsFrom, c, n) \in Seq(Seq(Branch))
                          /\ ToSet(PathsOf(PathsFrom, c, n)) # {}
      <3> TAKE n \in 1..m
      <3>1. CASE bset[<<c, n>>] = 0
        <4>1. PathsOf(PathsFrom, c, n) = << << <<c, n>> >> >>
          BY <3>1 DEF PathsOf
        <4> QED BY <2>1, <4>1, OnePath
      <3>2. CASE bset[<<c, n>>] # 0
        <4>1. bset[<<c, n>>] \in c + 1..L
          BY <2>1, <3>2 DEF TreeInv, Branch
        <4>2. Good(bset[<<c, n>>])
          BY <1>1, <4>1
        <4>3. PathsOf(PathsFrom, c, n) = Through(<<c, n>>, PathsFrom[bset[<<c, n>>]])
          BY <3>2 DEF PathsOf
        <4>4. PICK q \in ToSet(PathsFrom[bset[<<c, n>>]]) : TRUE
          BY <4>2
        <4>5. /\ Through(<<c, n>>, PathsFrom[bset[<<c, n>>]]) \in Seq(Seq(Branch))
              /\ << <<c, n>> >> \o q \in ToSet(Through(<<c, n>>, PathsFrom[bset[<<c, n>>]]))
          BY <2>1, <4>2, <4>4, ThroughIs
        <4> QED BY <4>3, <4>5
      <3> QED BY <3>1, <3>2
    <2>3. ss \in Seq(Seq(Seq(Branch))) /\ Len(ss) = m /\ \A n \in 1..m : ss[n] = PathsOf(PathsFrom, c, n)
      <3>1. ss = [n \in 1..m |-> PathsOf(PathsFrom, c, n)]
        BY <2>1
      <3> HIDE DEF m, ss
      <3>2. ss \in [1..m -> Seq(Seq(Branch))] /\ m \in Nat
        BY <2>1, <2>2, <3>1
      <3>3. ss \in Seq(Seq(Seq(Branch))) /\ Len(ss) = m
        BY <3>2, SeqDef, LenProperties
      <3> QED BY <3>1, <3>3
    <2>4. PathsFrom[c] = FlattenSeq(ss)
      BY PathsFromIs DEF Turn
    <2> HIDE DEF ss, m
    <2>5. 1 \in 1..m
      BY <2>1
    <2>6. PICK p \in ToSet(PathsOf(PathsFrom, c, 1)) : TRUE
      BY <2>2, <2>5
    <2>7. p \in ToSet(ss[1])
      BY <2>3, <2>5, <2>6
    <2> QED BY <2>3, <2>4, <2>5, <2>7, FlattenElements
  <1>2. 1..L \subseteq G
    <2>1. \A c \in 1..L : c + 1..L \subseteq G => c \in G
      <3> HIDE DEF Good
      <3> QED BY <1>1
    <2> HIDE DEF G, L
    <2> QED BY <1>0, <2>1, FromTheLast
  <1> QED BY <1>2

\* The paths from a branchset: one of its branches, and a path from the branchset
\* attached to that branch.
LEMMA PathsAre ==
  ASSUME TreeInv, NEW b \in 1..Len(bsets), NEW p
  PROVE  p \in ToSet(PathsFrom[b]) <=>
           \E n \in 1..Len(bsets[b].values) :
             \/ bset[<<b, n>>] = 0 /\ p = << <<b, n>> >>
             \/ /\ bset[<<b, n>>] # 0
                /\ \E q \in ToSet(PathsFrom[bset[<<b, n>>]]) : p = << <<b, n>> >> \o q
  <1> DEFINE ss == [n \in DOMAIN bsets[b].values |-> PathsOf(PathsFrom, b, n)]
             m == Len(bsets[b].values)
  <1>1. m \in Nat \ {0} /\ DOMAIN bsets[b].values = 1..m /\ \A n \in 1..m : <<b, n>> \in Branch
    BY ValuesOf DEF Branch
  <1>2. ASSUME NEW n \in 1..m
        PROVE  /\ PathsOf(PathsFrom, b, n) \in Seq(Seq(Branch))
               /\ p \in ToSet(PathsOf(PathsFrom, b, n)) <=>
                    \/ bset[<<b, n>>] = 0 /\ p = << <<b, n>> >>
                    \/ /\ bset[<<b, n>>] # 0
                       /\ \E q \in ToSet(PathsFrom[bset[<<b, n>>]]) : p = << <<b, n>> >> \o q
    <2>1. CASE bset[<<b, n>>] = 0
      <3>1. PathsOf(PathsFrom, b, n) = << << <<b, n>> >> >>
        BY <2>1 DEF PathsOf
      <3> QED BY <1>1, <2>1, <3>1, OnePath
    <2>2. CASE bset[<<b, n>>] # 0
      <3>1. bset[<<b, n>>] \in b + 1..Len(bsets)
        BY <1>1, <2>2 DEF TreeInv, Branch
      <3>2. bset[<<b, n>>] \in 1..Len(bsets)
        BY <3>1, ValuesOf
      <3>3. PathsOf(PathsFrom, b, n) = Through(<<b, n>>, PathsFrom[bset[<<b, n>>]])
        BY <2>2 DEF PathsOf
      <3>4. /\ PathsFrom[bset[<<b, n>>]] \in Seq(Seq(Branch)) /\ <<b, n>> \in Branch
        BY <1>1, <3>2, PathsType
      <3> DEFINE ps == PathsFrom[bset[<<b, n>>]]
                 br == <<b, n>>
      <3>5. /\ Through(br, ps) \in Seq(Seq(Branch))
            /\ \A r : r \in ToSet(Through(br, ps)) <=> \E q \in ToSet(ps) : r = <<br>> \o q
        <4> HIDE DEF ps, br
        <4> QED BY <3>4, ThroughIs DEF ps, br
      <3>6. /\ PathsOf(PathsFrom, b, n) \in Seq(Seq(Branch))
            /\ p \in ToSet(PathsOf(PathsFrom, b, n)) <=> \E q \in ToSet(ps) : p = <<br>> \o q
        <4> HIDE DEF ToSet
        <4> QED BY <3>3, <3>5
      <3> QED BY <2>2, <3>6
    <2> QED BY <2>1, <2>2
  <1>3. ss \in Seq(Seq(Seq(Branch))) /\ Len(ss) = m /\ \A n \in 1..m : ss[n] = PathsOf(PathsFrom, b, n)
    <2>1. ss = [n \in 1..m |-> PathsOf(PathsFrom, b, n)]
      BY <1>1
    <2> HIDE DEF m, ss
    <2>2. ss \in [1..m -> Seq(Seq(Branch))] /\ m \in Nat
      BY <1>1, <1>2, <2>1
    <2>3. ss \in Seq(Seq(Seq(Branch))) /\ Len(ss) = m
      BY <2>2, SeqDef, LenProperties
    <2> QED BY <2>1, <2>3
  <1>4. PathsFrom[b] = FlattenSeq(ss)
    BY PathsFromIs DEF Turn
  <1>5. p \in ToSet(PathsFrom[b]) <=> \E n \in 1..m : p \in ToSet(PathsOf(PathsFrom, b, n))
    <2> HIDE DEF ss, m
    <2> QED BY <1>3, <1>4, FlattenElements
  <1> QED BY <1>2, <1>5

\* A path after one more branch has the branches of both.
LEMMA LongerPath ==
  ASSUME NEW S, NEW x \in S, NEW q \in Seq(S)
  PROVE  x \in ToSet(<<x>> \o q) /\ ToSet(q) \subseteq ToSet(<<x>> \o q)
  <1> DEFINE s == <<x>> \o q
  <1>1. /\ Len(q) \in Nat /\ DOMAIN q = 1..Len(q) /\ DOMAIN s = 1..Len(q) + 1
        /\ s[1] = x /\ \A i \in 1..Len(q) : s[i + 1] = q[i]
    OBVIOUS
  <1>2. 1 \in 1..Len(q) + 1 /\ \A i \in 1..Len(q) : i + 1 \in 1..Len(q) + 1
    BY <1>1
  <1> HIDE DEF s
  <1>3. x \in ToSet(s)
    BY <1>1, <1>2 DEF ToSet
  <1>4. \A y \in ToSet(q) : y \in ToSet(s)
    BY <1>1, <1>2 DEF ToSet
  <1> QED BY <1>3, <1>4 DEF s

\* Each branch begins a path of its branchset.
LEMMA BranchBegins ==
  ASSUME TreeInv, NEW b \in 1..Len(bsets), NEW n \in 1..Len(bsets[b].values)
  PROVE  \E p \in ToSet(PathsFrom[b]) : p \in Seq(Branch) /\ <<b, n>> \in ToSet(p)
  <1>0. <<b, n>> \in Branch
    BY ValuesOf DEF Branch
  <1>1. CASE bset[<<b, n>>] = 0
    <2>1. << <<b, n>> >> \in ToSet(PathsFrom[b])
      BY <1>1, PathsAre
    <2>2. << <<b, n>> >> \in Seq(Branch) /\ <<b, n>> \in ToSet(<< <<b, n>> >>)
      BY <1>0 DEF ToSet
    <2> QED BY <2>1, <2>2
  <1>2. CASE bset[<<b, n>>] # 0
    <2> DEFINE c == bset[<<b, n>>]
    <2>1. c \in 1..Len(bsets)
      <3>1. c \in b + 1..Len(bsets)
        BY <1>0, <1>2 DEF TreeInv, Branch
      <3> QED BY <3>1, ValuesOf
    <2>2. PICK q \in ToSet(PathsFrom[c]) : TRUE
      BY <2>1, PathsType
    <2>3. q \in Seq(Branch)
      BY <2>1, <2>2, PathsType DEF ToSet
    <2>4. << <<b, n>> >> \o q \in ToSet(PathsFrom[b])
      BY <1>2, <2>2, PathsAre
    <2>5. << <<b, n>> >> \o q \in Seq(Branch) /\ <<b, n>> \in ToSet(<< <<b, n>> >> \o q)
      BY <1>0, <2>3, LongerPath
    <2> QED BY <2>4, <2>5
  <1> QED BY <1>1, <1>2

\* A path from any branchset is the end of a path of the tree, as the branchset is
\* attached to a branch, whose branchset is attached to a branch, up to the root.
LEMMA PathsOfTheTree ==
  ASSUME TreeInv, NEW b \in 1..Len(bsets), NEW q \in ToSet(PathsFrom[b])
  PROVE  \E p \in ToSet(PathsFrom[1]) : ToSet(q) \subseteq ToSet(p)
  <1> DEFINE L == Len(bsets)
             Good(c) == \A r \in ToSet(PathsFrom[c]) :
                          \E p \in ToSet(PathsFrom[1]) : ToSet(r) \subseteq ToSet(p)
             G == {c \in 1..L : Good(c)}
  <1>0. L \in Nat
    BY DEF TreeInv
  <1>1. Good(1)
    OBVIOUS
  <1>2. ASSUME NEW c \in 2..L, \A d \in 1..L : d < c => Good(d) PROVE Good(c)
    <2> SUFFICES ASSUME NEW r \in ToSet(PathsFrom[c])
                 PROVE  \E p \in ToSet(PathsFrom[1]) : ToSet(r) \subseteq ToSet(p)
      OBVIOUS
    <2>1. PICK br \in DOMAIN bset : bset[br] = c
      BY DEF TreeInv
    <2>2. PICK d \in 1..L : \E n \in 1..Len(bsets[d].values) : br = <<d, n>>
      BY DEF TreeInv
    <2>3. PICK n \in 1..Len(bsets[d].values) : br = <<d, n>>
      BY <2>2
    <2>4. d < c /\ c # 0 /\ c \in 1..L
      BY <1>0, <2>1, <2>3 DEF TreeInv
    <2>5. r \in Seq(Branch) /\ <<d, n>> \in Branch
      BY <2>3, <2>4, PathsType DEF ToSet, Branch
    <2> DEFINE s == << <<d, n>> >> \o r
    <2>6. s \in ToSet(PathsFrom[d])
      BY <2>1, <2>3, <2>4, PathsAre
    <2>7. ToSet(r) \subseteq ToSet(s)
      BY <2>5, LongerPath
    <2> HIDE DEF s
    <2>8. PICK p \in ToSet(PathsFrom[1]) : ToSet(s) \subseteq ToSet(p)
      BY <1>2, <2>4, <2>6
    <2> QED BY <2>7, <2>8
  <1>3. 1..L \subseteq G
    <2>1. \A c \in 1..L : 1..c - 1 \subseteq G => c \in G
      <3>1. \A c \in 1..L : (c = 1 \/ c \in 2..L) /\ \A d \in 1..L : d < c => d \in 1..c - 1
        BY <1>0
      <3> HIDE DEF Good
      <3> QED BY <1>1, <1>2, <3>1
    <2> HIDE DEF G, L
    <2> QED BY <1>0, <2>1, FromTheFirst
  <1> QED BY <1>3

\* No branch of the logic tree is lost, in a tree of any size: wherever the parser
\* attached its branchset, enumerate_paths goes through it.
THEOREM NoBranchIsLost == Spec => []BranchesInPaths
  <1>1. TreeInv => BranchesInPaths
    <2> SUFFICES ASSUME TreeInv, bsets # << >>
                 PROVE  Branch = UNION {ToSet(p) : p \in ToSet(PathsFrom[1])}
      BY DEF BranchesInPaths, enumerate_paths, Branch
    <2>1. 1 \in 1..Len(bsets)
      BY DEF TreeInv
    <2>2. ASSUME NEW p \in ToSet(PathsFrom[1]) PROVE ToSet(p) \subseteq Branch
      <3>1. p \in Seq(Branch)
        BY <2>1, PathsType DEF ToSet
      <3> QED BY <3>1 DEF ToSet
    <2>3. ASSUME NEW br \in Branch PROVE \E p \in ToSet(PathsFrom[1]) : br \in ToSet(p)
      <3>1. PICK b \in 1..Len(bsets) : \E n \in 1..Len(bsets[b].values) : br = <<b, n>>
        BY DEF TreeInv, Branch
      <3>2. PICK n \in 1..Len(bsets[b].values) : br = <<b, n>>
        BY <3>1
      <3>3. PICK q \in ToSet(PathsFrom[b]) : br \in ToSet(q)
        BY <3>2, BranchBegins
      <3>4. PICK p \in ToSet(PathsFrom[1]) : ToSet(q) \subseteq ToSet(p)
        BY PathsOfTheTree
      <3> QED BY <3>3, <3>4
    <2> QED BY <2>2, <2>3
  <1> QED BY <1>1, TreeInvariant, PTL

\* A way down the tree from a branchset to a branch without one
WayFrom(b, p) ==
  /\ p \in Seq(Branch) /\ p # << >> /\ p[1][1] = b /\ bset[p[Len(p)]] = 0
  /\ \A i \in 1..Len(p) - 1 : p[i + 1][1] = bset[p[i]]

\* A branch before a way from the branchset attached to it
LEMMA OneStepMore ==
  ASSUME NEW br \in Branch, bset[br] # 0, NEW q, WayFrom(bset[br], q)
  PROVE  WayFrom(br[1], <<br>> \o q) /\ Len(<<br>> \o q) = Len(q) + 1
  <1> DEFINE p == <<br>> \o q
  <1>1. q \in Seq(Branch) /\ Len(q) \in Nat \ {0} /\ DOMAIN q = 1..Len(q)
    BY DEF WayFrom
  <1>2. /\ p \in Seq(Branch) /\ Len(p) = Len(q) + 1 /\ p[1] = br
        /\ \A i \in 1..Len(q) : p[i + 1] = q[i]
    BY <1>1
  <1>3. p # << >>
    BY <1>1, <1>2
  <1> HIDE DEF p
  <1>4. p[1][1] = br[1] /\ bset[p[Len(p)]] = 0
    BY <1>1, <1>2 DEF WayFrom
  <1>5. ASSUME NEW i \in 1..Len(p) - 1 PROVE p[i + 1][1] = bset[p[i]]
    <2>1. CASE i = 1
      BY <1>1, <1>2, <2>1 DEF WayFrom
    <2>2. CASE i # 1
      <3>1. /\ i - 1 \in 1..Len(q) - 1 /\ i \in 1..Len(q) /\ i - 1 \in 1..Len(q)
            /\ (i - 1) + 1 = i
        BY <1>1, <1>2, <2>2
      <3>2. p[i + 1] = q[i] /\ p[i] = q[i - 1]
        BY <1>2, <3>1
      <3>3. q[i][1] = bset[q[i - 1]]
        BY <3>1 DEF WayFrom
      <3> QED BY <3>2, <3>3
    <2> QED BY <2>1, <2>2
  <1> QED BY <1>2, <1>3, <1>4, <1>5 DEF WayFrom, p

\* One branch without a branchset is a way.
LEMMA OneStep ==
  ASSUME NEW br \in Branch, bset[br] = 0
  PROVE  WayFrom(br[1], <<br>>) /\ Len(<<br>>) = 1
  BY DEF WayFrom

\* enumerate_paths returns ways down the tree, no longer than there are branchsets.
LEMMA PathsAreWays ==
  ASSUME TreeInv, NEW b \in 1..Len(bsets), NEW p \in ToSet(PathsFrom[b])
  PROVE  WayFrom(b, p) /\ Len(p) <= Len(bsets) - b + 1
  <1> DEFINE L == Len(bsets)
             Good(c) == \A r \in ToSet(PathsFrom[c]) : WayFrom(c, r) /\ Len(r) <= L - c + 1
             G == {c \in 1..L : Good(c)}
  <1>0. L \in Nat
    BY DEF TreeInv
  <1>1. ASSUME NEW c \in 1..L, \A d \in c + 1..L : Good(d) PROVE Good(c)
    <2> SUFFICES ASSUME NEW r \in ToSet(PathsFrom[c]) PROVE WayFrom(c, r) /\ Len(r) <= L - c + 1
      OBVIOUS
    <2>1. PICK n \in 1..Len(bsets[c].values) :
             \/ bset[<<c, n>>] = 0 /\ r = << <<c, n>> >>
             \/ /\ bset[<<c, n>>] # 0
                /\ \E q \in ToSet(PathsFrom[bset[<<c, n>>]]) : r = << <<c, n>> >> \o q
      BY PathsAre
    <2>2. <<c, n>> \in Branch /\ c \in Nat /\ <<c, n>>[1] = c
      BY ValuesOf DEF Branch
    <2>3. CASE bset[<<c, n>>] = 0 /\ r = << <<c, n>> >>
      BY <1>0, <2>2, <2>3, OneStep
    <2>4. CASE bset[<<c, n>>] # 0
      <3> DEFINE d == bset[<<c, n>>]
      <3>1. PICK q \in ToSet(PathsFrom[d]) : r = << <<c, n>> >> \o q
        BY <2>1, <2>4
      <3>2. d \in c + 1..L
        BY <2>2, <2>4 DEF TreeInv, Branch
      <3>3. WayFrom(d, q) /\ Len(q) <= L - d + 1
        BY <1>1, <3>1, <3>2
      <3>4. WayFrom(c, r) /\ Len(r) = Len(q) + 1
        <4> DEFINE br == <<c, n>>
        <4>1. br \in Branch /\ bset[br] # 0 /\ WayFrom(bset[br], q) /\ br[1] = c /\ r = <<br>> \o q
          BY <2>2, <2>4, <3>1, <3>3
        <4> HIDE DEF br
        <4> QED BY <4>1, OneStepMore
      <3>5. Len(q) \in Nat
        BY <3>3 DEF WayFrom
      <3> QED BY <1>0, <3>2, <3>3, <3>4, <3>5
    <2> QED BY <2>1, <2>3, <2>4
  <1>2. 1..L \subseteq G
    <2>1. \A c \in 1..L : c + 1..L \subseteq G => c \in G
      <3> HIDE DEF Good
      <3> QED BY <1>1
    <2> HIDE DEF G, L
    <2> QED BY <1>0, <2>1, FromTheLast
  <1> QED BY <1>2

\* Every way down the tree is one of the paths.
LEMMA WaysArePaths ==
  ASSUME TreeInv, NEW b \in 1..Len(bsets), NEW p, WayFrom(b, p)
  PROVE  p \in ToSet(PathsFrom[b])
  <1> DEFINE L == Len(bsets)
             Good(c) == \A r : WayFrom(c, r) => r \in ToSet(PathsFrom[c])
             G == {c \in 1..L : Good(c)}
  <1>0. L \in Nat
    BY DEF TreeInv
  <1>1. ASSUME NEW c \in 1..L, \A d \in c + 1..L : Good(d) PROVE Good(c)
    <2> SUFFICES ASSUME NEW r, WayFrom(c, r) PROVE r \in ToSet(PathsFrom[c])
      OBVIOUS
    <2>1. r \in Seq(Branch) /\ Len(r) \in Nat \ {0} /\ r[1] \in Branch
      BY DEF WayFrom
    <2>2. PICK n \in 1..Len(bsets[c].values) : r[1] = <<c, n>>
      <3>1. PICK d \in 1..L : \E n \in 1..Len(bsets[d].values) : r[1] = <<d, n>>
        BY <2>1 DEF TreeInv, Branch
      <3> QED BY <3>1 DEF WayFrom
    <2>3. CASE Len(r) = 1
      <3>1. r = << <<c, n>> >>
        BY <2>1, <2>2, <2>3
      <3>2. bset[<<c, n>>] = 0
        BY <2>2, <2>3 DEF WayFrom
      <3> QED BY <3>1, <3>2, PathsAre
    <2>4. CASE Len(r) # 1
      <3> DEFINE q == Tail(r)
                 d == bset[<<c, n>>]
      <3>1. /\ q \in Seq(Branch) /\ Len(q) = Len(r) - 1 /\ Len(q) \in Nat \ {0}
            /\ \A i \in 1..Len(q) : q[i] = r[i + 1] /\ q[i] \in Branch
        BY <2>1, <2>4
      <3>2. r = << <<c, n>> >> \o q
        BY <2>1, <2>2
      <3>3. 1 \in 1..Len(r) - 1 /\ 1 \in 1..Len(q)
        BY <2>1, <2>4, <3>1
      <3>4. q[1][1] = d
        BY <2>2, <3>1, <3>3 DEF WayFrom
      <3>5. d \in 1..L
        <4>1. PICK e \in 1..L : \E m \in 1..Len(bsets[e].values) : q[1] = <<e, m>>
          BY <3>1, <3>3 DEF TreeInv, Branch
        <4>2. PICK m \in 1..Len(bsets[e].values) : q[1] = <<e, m>>
          BY <4>1
        <4>3. q[1][1] = e
          <5> HIDE DEF q
          <5> QED BY <4>2
        <4> HIDE DEF q, d
        <4> QED BY <3>4, <4>3
      <3>6. d # 0 /\ d \in c + 1..L
        <4>1. d # 0
          BY <1>0, <3>5
        <4>2. <<c, n>> \in DOMAIN bset /\ <<c, n>>[1] = c
          BY <2>1, <2>2 DEF Branch
        <4> QED BY <4>1, <4>2 DEF TreeInv
      <3> HIDE DEF q
      <3>7. WayFrom(d, q)
        <4>1. q # << >>
          BY <3>1
        <4>2. Len(q) \in 1..Len(q) /\ Len(q) + 1 = Len(r)
          BY <2>1, <3>1
        <4>3. bset[q[Len(q)]] = 0
          BY <3>1, <4>2 DEF WayFrom
        <4>4. ASSUME NEW i \in 1..Len(q) - 1 PROVE q[i + 1][1] = bset[q[i]]
          <5>1. i \in 1..Len(q) /\ i + 1 \in 1..Len(q) /\ i + 1 \in 1..Len(r) - 1
            BY <2>1, <3>1
          <5>2. r[(i + 1) + 1][1] = bset[r[i + 1]]
            BY <5>1 DEF WayFrom
          <5> QED BY <3>1, <5>1, <5>2
        <4> QED BY <3>1, <3>4, <4>1, <4>3, <4>4 DEF WayFrom
      <3>8. q \in ToSet(PathsFrom[d])
        BY <1>1, <3>6, <3>7
      <3> QED BY <3>2, <3>6, <3>8, PathsAre
    <2> QED BY <2>3, <2>4
  <1>2. 1..L \subseteq G
    <2>1. \A c \in 1..L : c + 1..L \subseteq G => c \in G
      <3> HIDE DEF Good
      <3> QED BY <1>1
    <2> HIDE DEF G, L
    <2> QED BY <1>0, <2>1, FromTheLast
  <1> QED BY <1>2

\* What Through returns begins with the branch, and repeats nothing.
LEMMA ThroughInjective ==
  ASSUME NEW S, NEW x \in S, NEW ps \in Seq(Seq(S)), IsInjective(ps)
  PROVE  /\ Through(x, ps) \in Seq(Seq(S)) /\ IsInjective(Through(x, ps))
         /\ \A p \in ToSet(Through(x, ps)) : p[1] = x
  <1>1. DOMAIN ps = 1..Len(ps) /\ Len(ps) \in Nat /\ \A k \in 1..Len(ps) : ps[k] \in Seq(S)
    OBVIOUS
  <1>2. Through(x, ps) = [k \in 1..Len(ps) |-> <<x>> \o ps[k]]
    BY <1>1 DEF Through
  <1>3. \A q \in Seq(S) : (<<x>> \o q)[1] = x /\ Tail(<<x>> \o q) = q
    OBVIOUS
  <1>4. \A k, n \in 1..Len(ps) : <<x>> \o ps[k] = <<x>> \o ps[n] => k = n
    <2>1. \A k, n \in 1..Len(ps) : <<x>> \o ps[k] = <<x>> \o ps[n] => ps[k] = ps[n]
      BY <1>1, <1>3
    <2> QED BY <1>1, <2>1 DEF IsInjective
  <1>5. IsInjective(Through(x, ps))
    <2> DEFINE t == Through(x, ps)
    <2>1. DOMAIN t = 1..Len(ps) /\ \A k \in 1..Len(ps) : t[k] = <<x>> \o ps[k]
      BY <1>2
    <2> HIDE DEF t
    <2>2. \A k, n \in 1..Len(ps) : t[k] = t[n] => k = n
      BY <1>4, <2>1
    <2>3. IsInjective(t)
      BY <2>1, <2>2 DEF IsInjective
    <2> QED BY <2>3 DEF t
  <1>6. \A p \in ToSet(Through(x, ps)) : p[1] = x
    BY <1>1, <1>2, <1>3 DEF ToSet
  <1> QED BY <1>5, <1>6, ThroughIs

\* enumerate_paths returns nothing twice: the paths of two branches differ in the
\* first, those of one in the rest.
LEMMA PathsInjective ==
  ASSUME TreeInv, NEW b \in 1..Len(bsets)
  PROVE  IsInjective(PathsFrom[b])
  <1> DEFINE L == Len(bsets)
             Good(c) == IsInjective(PathsFrom[c])
             G == {c \in 1..L : Good(c)}
  <1>0. L \in Nat
    BY DEF TreeInv
  <1>1. ASSUME NEW c \in 1..L, \A d \in c + 1..L : Good(d) PROVE Good(c)
    <2> DEFINE ss == [n \in DOMAIN bsets[c].values |-> PathsOf(PathsFrom, c, n)]
               m == Len(bsets[c].values)
    <2>1. m \in Nat \ {0} /\ DOMAIN bsets[c].values = 1..m /\ \A n \in 1..m : <<c, n>> \in Branch
      BY ValuesOf DEF Branch
    <2>2. ASSUME NEW n \in 1..m
          PROVE  /\ PathsOf(PathsFrom, c, n) \in Seq(Seq(Branch))
                 /\ IsInjective(PathsOf(PathsFrom, c, n))
                 /\ \A p \in ToSet(PathsOf(PathsFrom, c, n)) : p[1] = <<c, n>>
      <3> DEFINE br == <<c, n>>
      <3>0. br \in Branch
        BY <2>1
      <3>1. CASE bset[br] = 0
        <4>1. PathsOf(PathsFrom, c, n) = << <<br>> >>
          BY <3>1 DEF PathsOf
        <4>2. /\ << <<br>> >> \in Seq(Seq(Branch)) /\ IsInjective(<< <<br>> >>)
              /\ \A p \in ToSet(<< <<br>> >>) : p[1] = br
          <5> HIDE DEF br
          <5> QED BY <3>0, OnePath DEF IsInjective
        <4> QED BY <4>1, <4>2
      <3>2. CASE bset[br] # 0
        <4> DEFINE ps == PathsFrom[bset[br]]
        <4>1. bset[br] \in c + 1..L
          BY <3>0, <3>2 DEF TreeInv, Branch
        <4>2. bset[br] \in 1..L
          BY <4>1, ValuesOf
        <4>3. ps \in Seq(Seq(Branch)) /\ IsInjective(ps)
          BY <1>1, <4>1, <4>2, PathsType
        <4>4. PathsOf(PathsFrom, c, n) = Through(br, ps)
          BY <3>2 DEF PathsOf
        <4>5. /\ Through(br, ps) \in Seq(Seq(Branch)) /\ IsInjective(Through(br, ps))
              /\ \A p \in ToSet(Through(br, ps)) : p[1] = br
          <5> HIDE DEF br, ps
          <5> QED BY <3>0, <4>3, ThroughInjective
        <4> QED BY <4>4, <4>5
      <3> QED BY <3>1, <3>2
    <2>3. ss \in Seq(Seq(Seq(Branch))) /\ Len(ss) = m /\ \A n \in 1..m : ss[n] = PathsOf(PathsFrom, c, n)
      <3>1. ss = [n \in 1..m |-> PathsOf(PathsFrom, c, n)]
        BY <2>1
      <3> HIDE DEF m, ss
      <3>2. ss \in [1..m -> Seq(Seq(Branch))] /\ m \in Nat
        BY <2>1, <2>2, <3>1
      <3>3. ss \in Seq(Seq(Seq(Branch))) /\ Len(ss) = m
        BY <3>2, SeqDef, LenProperties
      <3> QED BY <3>1, <3>3
    <2>4. PathsFrom[c] = FlattenSeq(ss)
      BY PathsFromIs DEF Turn
    <2> HIDE DEF ss, m
    <2>5. \A i \in 1..Len(ss) : IsInjective(ss[i])
      BY <2>2, <2>3
    <2>6. \A i, j \in 1..Len(ss) : i # j => ToSet(ss[i]) \cap ToSet(ss[j]) = {}
      <3> SUFFICES ASSUME NEW i \in 1..m, NEW j \in 1..m, i # j, NEW p,
                          p \in ToSet(ss[i]), p \in ToSet(ss[j])
                   PROVE  FALSE
        BY <2>3
      <3>1. p[1] = <<c, i>> /\ p[1] = <<c, j>>
        BY <2>2, <2>3
      <3> QED BY <3>1
    <2> QED BY <2>3, <2>4, <2>5, <2>6, FlattenInjective
  <1>2. 1..L \subseteq G
    <2>1. \A c \in 1..L : c + 1..L \subseteq G => c \in G
      <3> HIDE DEF Good
      <3> QED BY <1>1
    <2> HIDE DEF G, L
    <2> QED BY <1>0, <2>1, FromTheLast
  <1> QED BY <1>2

\* enumerate_paths returns every way from the root of the tree down to a branch
\* without a branchset, and none twice, for trees of any size and shape.
THEOREM PathsAreEnumerated == Spec => []PathsEnumerated
  <1>1. TreeInv => PathsEnumerated
    <2> DEFINE ways == UNION {TupleOf(DOMAIN bset, n) : n \in DOMAIN bsets}
    <2> SUFFICES ASSUME TreeInv, bsets # << >>
                 PROVE  /\ ToSet(PathsFrom[1]) = {p \in ways : IsPath(p)}
                        /\ IsInjective(PathsFrom[1])
      BY DEF PathsEnumerated, enumerate_paths
    <2>1. 1 \in 1..Len(bsets) /\ DOMAIN bsets = 1..Len(bsets) /\ Len(bsets) \in Nat
      BY DEF TreeInv
    <2>2. ASSUME NEW p \in ToSet(PathsFrom[1]) PROVE p \in ways /\ IsPath(p)
      <3>1. WayFrom(1, p) /\ Len(p) <= Len(bsets) - 1 + 1
        BY <2>1, PathsAreWays
      <3>2. p \in Seq(Branch) /\ p # << >> /\ Len(p) \in Nat /\ p \in [1..Len(p) -> Branch]
        BY <3>1 DEF WayFrom
      <3>3. Len(p) \in DOMAIN bsets
        BY <2>1, <3>1, <3>2
      <3>4. p \in TupleOf(DOMAIN bset, Len(p))
        BY <3>2 DEF TupleOf, Branch
      <3>5. IsPath(p)
        BY <3>1 DEF WayFrom, IsPath, Last
      <3> QED BY <3>3, <3>4, <3>5
    <2>3. ASSUME NEW p \in ways, IsPath(p) PROVE p \in ToSet(PathsFrom[1])
      <3>1. PICK n \in 1..Len(bsets) : p \in [1..n -> Branch]
        BY <2>1 DEF TupleOf, Branch
      <3>2. p \in Seq(Branch)
        BY <2>1, <3>1, SeqDef
      <3>3. WayFrom(1, p)
        BY <2>3, <3>2 DEF WayFrom, IsPath, Last
      <3> QED BY <2>1, <3>3, WaysArePaths
    <2>4. IsInjective(PathsFrom[1])
      BY <2>1, PathsInjective
    <2> QED BY <2>2, <2>3, <2>4
  <1> QED BY <1>1, TreeInvariant, PTL
-----------------------------------------------------------------------------
(* The numbers of pairs of a tectonic region type and a realization *)

\* The quotient and the remainder are the only numbers of their kind.
LEMMA Quotient ==
  ASSUME NEW l \in Nat \ {0}, NEW q \in Nat, NEW r \in 0..l - 1
  PROVE  (q * l + r) \div l = q /\ (q * l + r) % l = r
  <1> DEFINE x == q * l + r
             d == x \div l
             m == x % l
  <1>1. q * l \in Nat /\ x \in Nat
    OBVIOUS
  <1>2. d \in Int /\ m \in 0..l - 1 /\ x = l * d + m
    <2> HIDE DEF x
    <2> QED BY <1>1
  <1>3. q * l + r = l * d + m
    BY <1>2
  <1> HIDE DEF d, m, x
  <1>4. l * (q - d) = m - r
    <2>1. l * (q - d) = l * q - l * d /\ l * q = q * l
      BY <1>2
    <2>2. l * q \in Int /\ l * d \in Int
      BY <1>2
    <2> QED BY <1>2, <1>3, <2>1, <2>2
  <1>5. m - r < l /\ r - m < l
    BY <1>2
  <1> DEFINE k == q - d
  <1>6. k \in Int /\ l * k = m - r
    BY <1>2, <1>4
  <1> HIDE DEF k
  <1>7. ~(k >= 1)
    <2> SUFFICES ASSUME k >= 1 PROVE FALSE
      OBVIOUS
    <2>1. l * k >= l
      BY <1>6
    <2> QED BY <1>2, <1>5, <1>6, <2>1
  <1>8. ~(k <= -1)
    <2> SUFFICES ASSUME k <= -1 PROVE FALSE
      OBVIOUS
    <2>1. l * k <= -l
      BY <1>6
    <2> QED BY <1>2, <1>5, <1>6, <2>1
  <1>9. k = 0
    BY <1>6, <1>7, <1>8
  <1>10. q = d
    BY <1>2, <1>9 DEF k
  <1>11. m = r
    BY <1>2, <1>6, <1>9
  <1> QED BY <1>10, <1>11 DEF d, m, x

\* Below t * l, numbers have quotients below t.
LEMMA QuotientBound ==
  ASSUME NEW l \in Nat \ {0}, NEW t \in Nat \ {0}, NEW x \in 0..l * t - 1
  PROVE  x \div l \in 0..t - 1 /\ x % l \in 0..l - 1 /\ x = (x % l) + (x \div l) * l
  <1> DEFINE d == x \div l
             m == x % l
  <1>1. l * t \in Nat /\ x \in Nat
    OBVIOUS
  <1>2. d \in Int /\ m \in 0..l - 1 /\ x = l * d + m
    BY <1>1
  <1> HIDE DEF d, m
  <1>3. ~(d <= -1)
    <2> SUFFICES ASSUME d <= -1 PROVE FALSE
      OBVIOUS
    <2>1. l * d <= -l
      BY <1>2
    <2> QED BY <1>1, <1>2, <2>1
  <1>4. ~(d >= t)
    <2> SUFFICES ASSUME d >= t PROVE FALSE
      OBVIOUS
    <2>1. l * d >= l * t
      BY <1>2
    <2>2. l * d \in Int
      BY <1>2
    <2> QED BY <1>1, <1>2, <2>1, <2>2
  <1>5. l * d = d * l
    BY <1>2
  <1>6. d \in 0..t - 1
    BY <1>2, <1>3, <1>4
  <1> QED BY <1>2, <1>5, <1>6 DEF d, m

-----------------------------------------------------------------------------
(* The effective realizations *)

\* They are numbered from zero, in a sequence.
RlzInv ==
  \E n \in Nat : /\ sm_rlzs \in Seq({sm_rlzs[i] : i \in 1..n}) /\ DOMAIN sm_rlzs = 1..n
                 /\ \A i \in 1..n : sm_rlzs[i].ordinal = i - 1

\* The paths of a sequence are finitely many.
LEMMA FinitelyMany ==
  ASSUME NEW n \in Nat, NEW S, NEW drawn \in [1..n -> S]
  PROVE  IsFiniteSet(ToSet(drawn)) /\ Cardinality(ToSet(drawn)) \in Nat
  <1>1. drawn \in Surjection(1..n, ToSet(drawn))
    BY DEF Surjection, ToSet
  <1>2. IsFiniteSet(1..n)
    BY FS_Interval
  <1>3. IsFiniteSet(ToSet(drawn))
    BY <1>1, <1>2, FS_Surjection
  <1> QED BY <1>3, FS_CardinalityType

\* A sequence numbered from zero
LEMMA Numbered ==
  ASSUME NEW n \in Nat, DOMAIN sm_rlzs' = 1..n,
         sm_rlzs' = [i \in 1..n |-> sm_rlzs'[i]],
         \A i \in 1..n : sm_rlzs'[i].ordinal = i - 1
  PROVE  RlzInv'
  <1> DEFINE S == {sm_rlzs'[i] : i \in 1..n}
  <1>1. sm_rlzs' \in [1..n -> S]
    OBVIOUS
  <1>2. sm_rlzs' \in Seq(S)
    BY <1>1, SeqDef
  <1> QED BY <1>2 DEF RlzInv

\* The effective realizations are always numbered.
LEMMA NextRlzInv == TreeInv /\ RlzInv /\ [Next]_vars => RlzInv'
  <1> SUFFICES ASSUME TreeInv, RlzInv, [Next]_vars PROVE RlzInv'
    OBVIOUS
  <1>1. CASE UNCHANGED sm_rlzs
    BY <1>1 DEF RlzInv
  <1>2. CASE Enumerate
    <2>1. PICK gs : sm_rlzs' = [i \in DOMAIN enumerate_paths |->
                       [path |-> enumerate_paths[i], ordinal |-> i - 1,
                        samples |-> get_num_paths(gs)]]
      BY <1>2 DEF Enumerate
    <2>2. 1 \in 1..Len(bsets)
      <3>1. bsets # << >> /\ bsets \in Seq(BranchSetType)
        BY <1>2 DEF Enumerate, TreeInv
      <3> QED BY <3>1
    <2>3. enumerate_paths \in Seq(Seq(Branch))
      BY <2>2, PathsType DEF enumerate_paths
    <2> DEFINE n == Len(enumerate_paths)
    <2>4. n \in Nat /\ DOMAIN enumerate_paths = 1..n
      BY <2>3
    <2> HIDE DEF n
    <2> QED BY <2>1, <2>4, Numbered
  <1>3. CASE Sample
    <2>1. PICK n \in Samples \ {0} : \E drawn \in TupleOf(ToSet(enumerate_paths), n) :
            sm_rlzs' = Effective(drawn)
      BY <1>3 DEF Sample
    <2>2. PICK drawn \in TupleOf(ToSet(enumerate_paths), n) : sm_rlzs' = Effective(drawn)
      BY <2>1
    <2>3. n \in Nat
      BY LogicTreeAssumption
    <2>4. drawn \in [1..n -> ToSet(enumerate_paths)]
      BY <2>2, <2>3 DEF TupleOf
    <2> DEFINE m == Cardinality(ToSet(drawn))  paths == InOrderOfIDs(ToSet(drawn))
    <2>5. m \in Nat
      BY <2>3, <2>4, FinitelyMany
    <2>6. DOMAIN paths = 1..m
      BY DEF InOrderOfIDs
    <2>7. sm_rlzs' = [i \in DOMAIN paths |->
                        [path |-> paths[i], ordinal |-> i - 1,
                         samples |-> Count(drawn, {paths[i]})]]
      BY <2>2 DEF Effective
    <2> HIDE DEF m, paths
    <2>8. /\ DOMAIN sm_rlzs' = 1..m /\ sm_rlzs' = [i \in 1..m |-> sm_rlzs'[i]]
          /\ \A i \in 1..m : sm_rlzs'[i].ordinal = i - 1
      BY <2>6, <2>7
    <2> QED BY <2>5, <2>8, Numbered
  <1> QED BY <1>1, <1>2, <1>3
          DEF Next, NextTree, ParseSourceModels, ParseBranchset, GetCsm, vars, lt

\* FullLogicTree.init numbers the effective realizations in their order, with
\* full enumeration and with sampling.
THEOREM RealizationsAreNumbered == Spec => []RlzInv
  <1>1. Init => RlzInv
    <2> SUFFICES ASSUME Init PROVE RlzInv
      OBVIOUS
    <2>1. sm_rlzs = << >> /\ 0 \in Nat /\ 1..0 = {}
      BY DEF Init, TreeInit
    <2> QED BY <2>1 DEF RlzInv
  <1> QED BY <1>1, TreeInvariant, NextRlzInv, PTL DEF Spec

\* The numbers get_et_id gives to the pairs are all those below TRT times the
\* number of effective realizations, each of one pair, which get_trti_eri finds.
LEMMA EtIdsOfPairs == RlzInv => EtIdsArePairs
  <1> SUFFICES ASSUME RlzInv, sm_rlzs # << >>
               PROVE  LET eris == 0..Len(sm_rlzs) - 1 IN
                      /\ UNION {et_ids(eri) : eri \in eris} = 0..Len(sm_rlzs) * TRT - 1
                      /\ \A t \in 1..TRT, eri \in eris :
                           /\ get_et_id(t, eri) \in et_ids(eri)
                           /\ get_trti_eri(get_et_id(t, eri)) = <<t - 1, eri>>
    BY DEF EtIdsArePairs
  <1>0. sm_rlzs # << >>
    OBVIOUS
  <1> DEFINE l == Len(sm_rlzs)
  <1>1. l \in Nat \ {0} /\ TRT \in Nat \ {0}
    <2>1. PICK n \in Nat : sm_rlzs \in Seq({sm_rlzs[i] : i \in 1..n})
      BY DEF RlzInv
    <2> DEFINE S == {sm_rlzs[i] : i \in 1..n}
    <2>2. sm_rlzs \in Seq(S)
      BY <2>1
    <2> HIDE DEF S
    <2>3. Len(sm_rlzs) \in Nat /\ Len(sm_rlzs) # 0
      BY <1>0, <2>2, EmptySeq
    <2> QED BY <2>3, LogicTreeAssumption
  <1>2. \A eri, t : /\ et_ids(eri) = {eri + k * l : k \in 0..TRT - 1}
                    /\ get_et_id(t, eri) = (t - 1) * l + eri
                    /\ \A x : get_trti_eri(x) = <<x \div l, x % l>>
    BY DEF et_ids, get_et_id, get_trti_eri
  <1> HIDE DEF l
  <1>3. ASSUME NEW eri \in 0..l - 1, NEW k \in 0..TRT - 1
        PROVE  eri + k * l \in 0..l * TRT - 1
    <2>1. k \in Nat /\ k <= TRT - 1 /\ l * TRT = TRT * l /\ k * l \in Nat
      BY <1>1
    <2>2. k * l <= (TRT - 1) * l
      BY <1>1, <2>1
    <2>3. (TRT - 1) * l = l * TRT - l /\ l * TRT \in Nat
      BY <1>1
    <2> QED BY <1>1, <2>1, <2>2, <2>3
  <1>4. ASSUME NEW x \in 0..l * TRT - 1
        PROVE  \E eri \in 0..l - 1 : \E k \in 0..TRT - 1 : x = eri + k * l
    BY <1>1, QuotientBound
  <1>5. UNION {et_ids(eri) : eri \in 0..l - 1} = 0..l * TRT - 1
    <2>1. ASSUME NEW x
          PROVE  x \in UNION {et_ids(eri) : eri \in 0..l - 1} <=>
                 \E eri \in 0..l - 1 : \E k \in 0..TRT - 1 : x = eri + k * l
      BY <1>2
    <2> DEFINE U == UNION {et_ids(eri) : eri \in 0..l - 1}  V == 0..l * TRT - 1
    <2>2. ASSUME NEW x PROVE x \in U => x \in V
      BY <1>3, <2>1
    <2>3. ASSUME NEW x PROVE x \in V => x \in U
      BY <1>4, <2>1
    <2> HIDE DEF U, V
    <2>4. U = V
      BY <2>2, <2>3
    <2> QED BY <2>4 DEF U, V
  <1>6. ASSUME NEW t \in 1..TRT, NEW eri \in 0..l - 1
        PROVE  /\ get_et_id(t, eri) \in et_ids(eri)
               /\ get_trti_eri(get_et_id(t, eri)) = <<t - 1, eri>>
    <2> DEFINE q == t - 1
    <2>1. q \in Nat /\ q \in 0..TRT - 1
      BY <1>1
    <2>2. get_et_id(t, eri) = q * l + eri /\ et_ids(eri) = {eri + k * l : k \in 0..TRT - 1}
      BY <1>2
    <2> HIDE DEF q
    <2>3. (q * l + eri) \div l = q /\ (q * l + eri) % l = eri
      BY <1>1, <2>1, Quotient
    <2>4. q * l + eri = eri + q * l
      BY <1>1, <2>1
    <2> QED BY <1>2, <2>1, <2>2, <2>3, <2>4 DEF q
  <1> QED BY <1>5, <1>6 DEF l

\* They do in every state, for any number of tectonic region types and of
\* realizations.
THEOREM EtIdsAreNumbers == Spec => []EtIdsArePairs
  BY EtIdsOfPairs, RealizationsAreNumbered, PTL

-----------------------------------------------------------------------------
(* The values of the branchsets *)

\* What the branchsets have as values: source models in the first one, extensions in
\* those that extend, with weights for as many branches as there are.
ValuesInv ==
  /\ Len(bsets) <= MaxLevels
  /\ \A b \in 1..Len(bsets) :
       /\ Len(bsets[b].values) \in DOMAIN Weights
       /\ bsets[b].extend => bsets[b].values \in Seq(Extensions)
       /\ b = 1 => bsets[b].values \in Seq(SourceModels)

\* One branchset more
LEMMA OneBranchSetMore ==
  ASSUME TreeInv, ValuesInv, Len(bsets) < MaxLevels, NEW node,
         Len(node.values) \in DOMAIN Weights,
         node.extend => node.values \in Seq(Extensions),
         bsets = << >> => node.values \in Seq(SourceModels),
         bsets' = Append(bsets, node)
  PROVE  ValuesInv'
  <1>1. /\ Len(bsets') = Len(bsets) + 1 /\ Len(bsets) \in Nat
        /\ bsets'[Len(bsets) + 1] = node
        /\ \A b \in 1..Len(bsets) : bsets'[b] = bsets[b]
    BY DEF TreeInv
  <1>2. MaxLevels \in Nat
    BY LogicTreeAssumption
  <1>3. \A b \in 1..Len(bsets') : b \in 1..Len(bsets) \/ b = Len(bsets) + 1
    BY <1>1
  <1>4. bsets # << >> => Len(bsets) + 1 # 1
    BY <1>1 DEF TreeInv
  <1> QED BY <1>1, <1>2, <1>3, <1>4 DEF ValuesInv

\* The parser keeps what the values are.
LEMMA NextValuesInv == TreeInv /\ ValuesInv /\ [Next]_vars => ValuesInv'
  <1> SUFFICES ASSUME TreeInv, ValuesInv, [Next]_vars PROVE ValuesInv'
    OBVIOUS
  <1>0. bsets \in Seq(BranchSetType) /\ Len(bsets) \in Nat
    BY DEF TreeInv
  <1>a. MaxLevels \in Nat \ {0} /\ DOMAIN Weights \subseteq Nat \ {0}
    BY LogicTreeAssumption
  <1>1. CASE UNCHANGED bsets
    BY <1>1 DEF ValuesInv
  <1>2. CASE ParseSourceModels
    <2>1. PICK n \in DOMAIN Weights : \E vs \in TupleOf(SourceModels, n) :
            bsets' = <<[values |-> vs, apply |-> {}, filter |-> NoFilter, extend |-> FALSE]>>
      BY <1>2 DEF ParseSourceModels
    <2>2. PICK vs \in TupleOf(SourceModels, n) :
            bsets' = <<[values |-> vs, apply |-> {}, filter |-> NoFilter, extend |-> FALSE]>>
      BY <2>1
    <2> DEFINE node == [values |-> vs, apply |-> {}, filter |-> NoFilter, extend |-> FALSE]
    <2>3. n \in Nat
      BY <1>a
    <2>4. vs \in Seq(SourceModels) /\ Len(vs) = n
      BY <2>3, SeqDef, LenProperties, IsASeq DEF TupleOf
    <2>5. bsets = << >>
      BY <1>2 DEF ParseSourceModels
    <2>6. bsets' = Append(bsets, node) /\ Len(bsets) < MaxLevels
      BY <1>a, <2>2, <2>5
    <2>7. Len(node.values) \in DOMAIN Weights /\ node.values \in Seq(SourceModels) /\ ~node.extend
      BY <2>4
    <2> HIDE DEF node
    <2> QED BY <2>6, <2>7, OneBranchSetMore
  <1>3. CASE ParseBranchset
    <2>1. PICK n \in DOMAIN Weights : \E node \in Nodes(n) :
            UNCHANGED bsets \/ bsets' = Append(bsets, node)
      BY <1>3 DEF ParseBranchset
    <2>2. PICK node \in Nodes(n) : UNCHANGED bsets \/ bsets' = Append(bsets, node)
      BY <2>1
    <2>3. CASE UNCHANGED bsets
      BY <1>1, <2>3
    <2>4. CASE bsets' = Append(bsets, node)
      <3>1. n \in Nat \ {0}
        BY <1>a
      <3>2. /\ node.values = [i \in 1..n |-> i] \/ node.values \in [1..n -> Extensions]
            /\ node.extend => node.values \in [1..n -> Extensions]
        <4>1. CASE Len(bsets) > 1
          BY <4>1 DEF Nodes, TupleOf
        <4>2. CASE ~(Len(bsets) > 1)
          BY <4>2 DEF Nodes, TupleOf
        <4> QED BY <4>1, <4>2
      <3>3. /\ Len(node.values) = n
            /\ node.extend => node.values \in Seq(Extensions)
        <4>1. [i \in 1..n |-> i] \in [1..n -> Nat]
          OBVIOUS
        <4>2. Len([i \in 1..n |-> i]) = n
          BY <3>1, <4>1, LenIs
        <4>3. node.values \in [1..n -> Extensions] =>
                Len(node.values) = n /\ node.values \in Seq(Extensions)
          BY <3>1, LenIs
        <4> QED BY <3>2, <4>2, <4>3
      <3>4. Len(bsets) < MaxLevels /\ bsets # << >>
        BY <1>0, <1>3, <1>a DEF ParseBranchset
      <3> QED BY <2>4, <3>3, <3>4, OneBranchSetMore
    <2> QED BY <2>2, <2>3, <2>4
  <1> QED BY <1>1, <1>2, <1>3 DEF Next, NextTree, Enumerate, Sample, GetCsm, vars, lt

\* The parser gives the branchsets values of their kind.
THEOREM ValuesInvariant == Spec => []ValuesInv
  <1>1. Init => ValuesInv
    <2> SUFFICES ASSUME Init PROVE ValuesInv
      OBVIOUS
    <2>1. bsets = << >> /\ MaxLevels \in Nat
      BY LogicTreeAssumption DEF Init, TreeInit
    <2> QED BY <2>1 DEF ValuesInv
  <1> QED BY <1>1, TreeInvariant, NextValuesInv, PTL DEF Spec

-----------------------------------------------------------------------------
(* The weights of the paths *)

\* The weights of the branches of a branchset
LEMMA WeightsOf ==
  ASSUME TreeInv, ValuesInv, NEW b \in 1..Len(bsets)
  PROVE  LET m == Len(bsets[b].values) IN
         /\ Weights[m] \in [1..m -> Int] /\ SumOf(Weights[m]) = Unit
         /\ \A n \in 1..m : WeightOf(<<b, n>>) = Weights[m][n]
  <1>1. Len(bsets[b].values) \in DOMAIN Weights
    BY DEF ValuesInv
  <1>2. \A n \in DOMAIN Weights : Weights[n] \in [1..n -> Nat] /\ SumOf(Weights[n]) = Unit
    BY LogicTreeAssumption
  <1> QED BY <1>1, <1>2 DEF WeightOf

\* Weights are natural numbers.
LEMMA WeightType ==
  ASSUME TreeInv, ValuesInv, NEW br \in Branch
  PROVE  WeightOf(br) \in Int
  <1>1. PICK b \in 1..Len(bsets) : \E n \in 1..Len(bsets[b].values) : br = <<b, n>>
    BY DEF TreeInv, Branch
  <1>2. PICK n \in 1..Len(bsets[b].values) : br = <<b, n>>
    BY <1>1
  <1>3. Weights[Len(bsets[b].values)][n] \in Int /\ WeightOf(<<b, n>>) = Weights[Len(bsets[b].values)][n]
    BY WeightsOf
  <1> QED BY <1>2, <1>3

\* The weights of a path that is followed down to K levels
Padded(K, path) == [i \in 1..K |-> IF i <= Len(path) THEN WeightOf(path[i]) ELSE Unit]

\* The products of the weights, of any path
Weighing(K) == [p \in Seq(Branch) |-> ProductOf(Padded(K, p))]

\* One(n) is the product of n units.
LEMMA OneIs ==
  ASSUME NEW K \in Nat
  PROVE  One(K) \in Int /\ One(K + 1) = Unit * One(K)
  <1>1. [i \in 1..K |-> Unit] \in [1..K -> Int] /\ [i \in 1..K + 1 |-> Unit] \in [1..K + 1 -> Int]
        /\ Unit \in Int
    BY LogicTreeAssumption
  <1> DEFINE s == [i \in 1..K |-> Unit]  t == [i \in 1..K + 1 |-> Unit]
  <1>2. (\A n \in 1..K : t[n + 1] = s[n]) /\ t[1] = Unit
    OBVIOUS
  <1> HIDE DEF s, t
  <1>3. ProductOf(t) = t[1] * ProductOf(s) /\ ProductOf(s) \in Int
    BY <1>1, <1>2, ProductFirst, SumType DEF s, t
  <1> QED BY <1>2, <1>3 DEF One, s, t

\* The weights of a path, up to K of them
LEMMA PaddedType ==
  ASSUME TreeInv, ValuesInv, NEW K \in Nat
  PROVE  /\ Weighing(K) \in [Seq(Branch) -> Int]
         /\ \A p \in Seq(Branch) : Padded(K, p) \in [1..K -> Int]
  <1>1. \A p \in Seq(Branch) : Padded(K, p) \in [1..K -> Int]
    <2> TAKE p \in Seq(Branch)
    <2>1. \A i \in 1..K : i <= Len(p) => p[i] \in Branch
      OBVIOUS
    <2>2. Unit \in Int
      BY LogicTreeAssumption
    <2>3. \A i \in 1..K : (IF i <= Len(p) THEN WeightOf(p[i]) ELSE Unit) \in Int
      BY <2>1, <2>2, WeightType
    <2> QED BY <2>3 DEF Padded
  <1>2. \A p \in Seq(Branch) : ProductOf(Padded(K, p)) \in Int
    BY <1>1, SumType
  <1> QED BY <1>1, <1>2 DEF Weighing

\* The weight of one branch more, and of no branch
LEMMA PaddedStep ==
  ASSUME TreeInv, ValuesInv, NEW K \in Nat, NEW br \in Branch, NEW q \in Seq(Branch)
  PROVE  /\ Weighing(K + 1)[<<br>> \o q] = WeightOf(br) * Weighing(K)[q]
         /\ Weighing(K)[<< >>] = One(K)
  <1> DEFINE p == <<br>> \o q  s == Padded(K, q)  t == Padded(K + 1, p)
  <1>1. /\ p \in Seq(Branch) /\ Len(p) = Len(q) + 1 /\ Len(q) \in Nat /\ p[1] = br
        /\ \A i \in 1..Len(q) : p[i + 1] = q[i]
    OBVIOUS
  <1> HIDE DEF p
  <1>2. s \in [1..K -> Int] /\ t \in [1..K + 1 -> Int]
    <2>1. K + 1 \in Nat
      OBVIOUS
    <2> QED BY <1>1, <2>1, PaddedType
  <1>3. t[1] = WeightOf(br)
    <2>1. 1 \in 1..K + 1 /\ 1 <= Len(p)
      BY <1>1
    <2> QED BY <1>1, <2>1 DEF Padded
  <1>4. \A n \in 1..K : t[n + 1] = s[n]
    <2> TAKE n \in 1..K
    <2>1. n + 1 \in 1..K + 1 /\ (n + 1 <= Len(p) <=> n <= Len(q))
      BY <1>1
    <2>2. CASE n <= Len(q)
      <3>1. n \in 1..Len(q)
        BY <1>1, <2>2
      <3> QED BY <1>1, <2>1, <2>2, <3>1 DEF Padded
    <2>3. CASE ~(n <= Len(q))
      BY <2>1, <2>3 DEF Padded
    <2> QED BY <2>2, <2>3
  <1>5. ProductOf(t) = WeightOf(br) * ProductOf(s)
    <2> HIDE DEF s, t
    <2> QED BY <1>2, <1>3, <1>4, ProductFirst
  <1>6. << >> \in Seq(Branch) /\ Padded(K, << >>) = [i \in 1..K |-> Unit]
    <2>1. \A i \in 1..K : ~(i <= Len(<< >>))
      OBVIOUS
    <2> QED BY <2>1 DEF Padded
  <1>7. Weighing(K + 1)[p] = ProductOf(t) /\ Weighing(K)[q] = ProductOf(s)
        /\ Weighing(K)[<< >>] = ProductOf(Padded(K, << >>))
    BY <1>1, <1>6 DEF Weighing
  <1> QED BY <1>5, <1>6, <1>7 DEF One, p

\* The weights of the paths through a branch
LEMMA ThroughWeighs ==
  ASSUME TreeInv, ValuesInv, NEW K \in Nat, NEW br \in Branch, NEW ps \in Seq(Seq(Branch))
  PROVE  /\ SumOf(Each(Weighing(K + 1), Through(br, ps)))
              = SumOf(Each(Weighing(K), ps)) * WeightOf(br)
         /\ SumOf(Each(Weighing(K + 1), << <<br>> >>)) = One(K) * WeightOf(br)
  <1> DEFINE w == WeightOf(br)  W == Weighing(K)  V == Weighing(K + 1)  L == Len(ps)
  <1>1. /\ w \in Int /\ L \in Nat /\ W \in [Seq(Branch) -> Int] /\ V \in [Seq(Branch) -> Int]
        /\ One(K) \in Int
    <2>1. K + 1 \in Nat
      OBVIOUS
    <2>2. w \in Int /\ One(K) \in Int
      BY WeightType, OneIs
    <2> QED BY <2>1, <2>2, PaddedType
  <1>2. \A q \in Seq(Branch) : V[<<br>> \o q] = w * W[q] /\ W[<< >>] = One(K)
    BY PaddedStep
  <1>3. \A i \in 1..L : ps[i] \in Seq(Branch)
    OBVIOUS
  <1>4. /\ Len(Through(br, ps)) = L
        /\ \A i \in 1..L : Through(br, ps)[i] = <<br>> \o ps[i]
    <2>1. Through(br, ps) = [i \in 1..L |-> <<br>> \o ps[i]]
      BY DEF Through
    <2> HIDE DEF L
    <2>2. [i \in 1..L |-> <<br>> \o ps[i]] \in [1..L -> {<<br>> \o ps[i] : i \in 1..L}]
      OBVIOUS
    <2> QED BY <1>1, <2>1, <2>2, LenIs
  <1> HIDE DEF V, W, w
  <1>5. Each(W, ps) \in [1..L -> Int] /\ \A i \in 1..L : Each(W, ps)[i] = W[ps[i]]
    <2>1. Each(W, ps) \in [1..L -> Int]
      BY <1>1, EachType
    <2> QED BY <2>1 DEF Each
  <1>6. Each(V, Through(br, ps)) = [i \in 1..L |-> Each(W, ps)[i] * w]
    <2> HIDE DEF L
    <2>1. \A i \in 1..L : V[Through(br, ps)[i]] = w * W[ps[i]]
      BY <1>2, <1>3, <1>4
    <2>2. \A i \in 1..L : w * W[ps[i]] = W[ps[i]] * w
      BY <1>1, <1>3
    <2>3. \A i \in 1..L : V[Through(br, ps)[i]] = Each(W, ps)[i] * w
      BY <1>5, <2>1, <2>2
    <2> QED BY <1>4, <2>3 DEF Each
  <1>7. SumOf(Each(V, Through(br, ps))) = SumOf(Each(W, ps)) * w
    <2> HIDE DEF L
    <2> DEFINE e == Each(W, ps)
    <2>1. e \in [1..L -> Int]
      BY <1>5
    <2> HIDE DEF e
    <2>2. SumOf([i \in 1..L |-> e[i] * w]) = SumOf(e) * w
      BY <1>1, <2>1, ScaledSum
    <2> QED BY <1>6, <2>2 DEF e
  <1>8. SumOf(Each(V, << <<br>> >>)) = One(K) * w
    <2> DEFINE e == Each(V, << <<br>> >>)
    <2>1. V[<<br>>] = w * One(K)
      <3>1. << >> \in Seq(Branch) /\ <<br>> \o << >> = <<br>>
        OBVIOUS
      <3> QED BY <1>2, <3>1
    <2>2. w * One(K) = One(K) * w /\ w * One(K) \in Int
      BY <1>1
    <2>3. e = [i \in 1..1 |-> V[<<br>>]]
      <3>1. Len(<< <<br>> >>) = 1 /\ \A i \in 1..1 : << <<br>> >>[i] = <<br>>
        OBVIOUS
      <3> QED BY <3>1 DEF Each
    <2> HIDE DEF e
    <2>4. e \in [1..1 -> Int] /\ e[1] = One(K) * w
      BY <2>1, <2>2, <2>3
    <2>5. SumOf(e) = e[1]
      <3>1. 1 \in 1..1 /\ 1 \in Nat /\ \A i \in 1..1 : i # 1 => e[i] = 0
        OBVIOUS
      <3> QED BY <2>4, <3>1, SumOfOne
    <2> QED BY <2>4, <2>5 DEF e
  <1> QED BY <1>7, <1>8 DEF V, W, w

\* The weights of the paths from a branchset sum to one: those from each of its
\* branches sum to the weight of the branch.
LEMMA PathsWeigh ==
  ASSUME TreeInv, ValuesInv, NEW b \in 1..Len(bsets), NEW J \in Nat, J + 1 >= Len(bsets) - b + 1
  PROVE  SumOf(Each(Weighing(J + 1), PathsFrom[b])) = One(J + 1)
  <1> DEFINE L == Len(bsets)
             Good(c) == \A K \in Nat : K + 1 >= L - c + 1 =>
                          SumOf(Each(Weighing(K + 1), PathsFrom[c])) = One(K + 1)
             G == {c \in 1..L : Good(c)}
  <1>0. L \in Nat
    BY DEF TreeInv
  <1>1. ASSUME NEW c \in 1..L, \A d \in c + 1..L : Good(d) PROVE Good(c)
    <2> SUFFICES ASSUME NEW K \in Nat, K + 1 >= L - c + 1
                 PROVE  SumOf(Each(Weighing(K + 1), PathsFrom[c])) = One(K + 1)
      OBVIOUS
    <2> DEFINE ss == [n \in DOMAIN bsets[c].values |-> PathsOf(PathsFrom, c, n)]
               m == Len(bsets[c].values)  V == Weighing(K + 1)
    <2>1. m \in Nat \ {0} /\ DOMAIN bsets[c].values = 1..m /\ \A n \in 1..m : <<c, n>> \in Branch
      BY ValuesOf DEF Branch
    <2>2. /\ V \in [Seq(Branch) -> Int] /\ One(K) \in Int /\ One(K + 1) = Unit * One(K)
          /\ Unit \in Int
      <3>1. K + 1 \in Nat
        OBVIOUS
      <3>2. V \in [Seq(Branch) -> Int]
        BY <3>1, PaddedType
      <3>3. One(K) \in Int /\ One(K + 1) = Unit * One(K)
        BY OneIs
      <3> QED BY <3>2, <3>3, LogicTreeAssumption
    <2>3. /\ Weights[m] \in [1..m -> Int] /\ SumOf(Weights[m]) = Unit
          /\ \A n \in 1..m : WeightOf(<<c, n>>) = Weights[m][n]
      BY WeightsOf
    <2>4. ASSUME NEW n \in 1..m
          PROVE  /\ PathsOf(PathsFrom, c, n) \in Seq(Seq(Branch))
                 /\ SumOf(Each(V, PathsOf(PathsFrom, c, n))) = One(K) * WeightOf(<<c, n>>)
      <3> DEFINE br == <<c, n>>
      <3>0. br \in Branch
        BY <2>1
      <3>1. CASE bset[br] = 0
        <4>1. PathsOf(PathsFrom, c, n) = << <<br>> >>
          BY <3>1 DEF PathsOf
        <4>2. << <<br>> >> \in Seq(Seq(Branch)) /\ SumOf(Each(V, << <<br>> >>)) = One(K) * WeightOf(br)
          <5> HIDE DEF br
          <5>1. << >> \in Seq(Seq(Branch))
            OBVIOUS
          <5> QED BY <3>0, <5>1, OnePath, ThroughWeighs
        <4> QED BY <4>1, <4>2
      <3>2. CASE bset[br] # 0
        <4> DEFINE d == bset[br]  ps == PathsFrom[d]
        <4>1. d \in c + 1..L
          BY <3>0, <3>2 DEF TreeInv, Branch
        <4>2. d \in 1..L /\ ps \in Seq(Seq(Branch))
          BY <4>1, ValuesOf, PathsType
        <4>3. K - 1 \in Nat /\ (K - 1) + 1 >= L - d + 1 /\ (K - 1) + 1 = K
          BY <1>0, <4>1
        <4>4. SumOf(Each(Weighing((K - 1) + 1), ps)) = One((K - 1) + 1)
          <5> HIDE DEF d
          <5> QED BY <1>1, <4>1, <4>3
        <4>5. SumOf(Each(Weighing(K), ps)) = One(K)
          BY <4>3, <4>4
        <4>6. PathsOf(PathsFrom, c, n) = Through(br, ps)
          BY <3>2 DEF PathsOf
        <4>7. /\ Through(br, ps) \in Seq(Seq(Branch))
              /\ SumOf(Each(V, Through(br, ps))) = SumOf(Each(Weighing(K), ps)) * WeightOf(br)
          <5> HIDE DEF br, ps
          <5> QED BY <3>0, <4>2, ThroughIs, ThroughWeighs
        <4> QED BY <4>5, <4>6, <4>7
      <3> QED BY <3>1, <3>2
    <2>5. ss \in Seq(Seq(Seq(Branch))) /\ Len(ss) = m /\ \A n \in 1..m : ss[n] = PathsOf(PathsFrom, c, n)
      <3>1. ss = [n \in 1..m |-> PathsOf(PathsFrom, c, n)]
        BY <2>1
      <3> HIDE DEF m, ss
      <3>2. ss \in [1..m -> Seq(Seq(Branch))] /\ m \in Nat
        BY <2>1, <2>4, <3>1
      <3> QED BY <3>1, <3>2, LenIs
    <2>6. PathsFrom[c] = FlattenSeq(ss)
      BY PathsFromIs DEF Turn
    <2> HIDE DEF ss, m, V
    <2>7. SumOf(Each(V, PathsFrom[c])) = SumOf([n \in 1..m |-> SumOf(Each(V, ss[n]))])
      BY <2>2, <2>5, <2>6, EachFlatten
    <2> DEFINE x == [n \in 1..m |-> SumOf(Each(V, ss[n]))]
               y == [n \in 1..m |-> Weights[m][n] * One(K)]
    <2>8. x = y
      <3>0. \A u, v \in Int : u * v = v * u
        OBVIOUS
      <3>1. \A n \in 1..m : One(K) * Weights[m][n] = Weights[m][n] * One(K)
        BY <2>2, <2>3, <3>0
      <3>2. \A n \in 1..m : SumOf(Each(V, ss[n])) = Weights[m][n] * One(K)
        BY <2>3, <2>4, <2>5, <3>1
      <3> QED BY <3>2
    <2>9. SumOf(y) = SumOf(Weights[m]) * One(K)
      BY <2>1, <2>2, <2>3, ScaledSum
    <2> HIDE DEF x, y
    <2>10. SumOf(x) = Unit * One(K)
      BY <2>3, <2>8, <2>9
    <2>11. SumOf(Each(V, PathsFrom[c])) = SumOf(x)
      BY <2>7 DEF x
    <2> QED BY <2>2, <2>10, <2>11 DEF V
  <1>2. 1..L \subseteq G
    <2>1. \A c \in 1..L : c + 1..L \subseteq G => c \in G
      <3> HIDE DEF Good
      <3> QED BY <1>1
    <2> HIDE DEF G, L
    <2> QED BY <1>0, <2>1, FromTheLast
  <1> QED BY <1>2

\* The weights of enumerate_paths sum to one.
LEMMA WeighOne == TreeInv /\ ValuesInv => PathsWeighOne
  <1> SUFFICES ASSUME TreeInv, ValuesInv, bsets # << >>
               PROVE  SumOf([i \in DOMAIN PathsFrom[1] |-> PathWeight(PathsFrom[1][i])]) = One(MaxLevels)
    BY DEF PathsWeighOne, enumerate_paths
  <1>1. 1 \in 1..Len(bsets) /\ Len(bsets) \in Nat /\ Len(bsets) <= MaxLevels
    BY DEF TreeInv, ValuesInv
  <1>2. MaxLevels - 1 \in Nat /\ (MaxLevels - 1) + 1 = MaxLevels
    BY LogicTreeAssumption
  <1>3. SumOf(Each(Weighing((MaxLevels - 1) + 1), PathsFrom[1])) = One((MaxLevels - 1) + 1)
    BY <1>1, <1>2, PathsWeigh
  <1>4. PathsFrom[1] \in Seq(Seq(Branch))
    BY <1>1, PathsType
  <1>5. Each(Weighing(MaxLevels), PathsFrom[1])
          = [i \in DOMAIN PathsFrom[1] |-> PathWeight(PathsFrom[1][i])]
    <2> DEFINE ps == PathsFrom[1]
    <2>1. DOMAIN ps = 1..Len(ps) /\ \A i \in 1..Len(ps) : ps[i] \in Seq(Branch)
      BY <1>4
    <2> HIDE DEF ps
    <2>2. \A i \in 1..Len(ps) : Weighing(MaxLevels)[ps[i]] = PathWeight(ps[i])
      BY <2>1 DEF Weighing, PathWeight, Padded
    <2>3. Each(Weighing(MaxLevels), ps) = [i \in DOMAIN ps |-> PathWeight(ps[i])]
      BY <2>1, <2>2 DEF Each
    <2> QED BY <2>3 DEF ps
  <1> QED BY <1>2, <1>3, <1>5

\* The weights of the paths sum to one, for any tree of branchsets whose weights
\* do, however they are attached.
THEOREM PathsWeighOneInvariant == Spec => []PathsWeighOne
  BY WeighOne, TreeInvariant, ValuesInvariant, PTL

-----------------------------------------------------------------------------
(* The GSIM logic tree *)

\* One GSIM for each of the first t tectonic region types
Values(gs, t) == {v \in Seq(Nat) : Len(v) = t /\ \A i \in 1..t : v[i] \in 1..gs[i]}

\* What Product makes of the values for t - 1 of them
Longer(gs, t) == [v \in Values(gs, t - 1) |-> [n \in 1..gs[t] |-> Append(v, n)]]

Weighed(gs, t) == [v \in Values(gs, t) |-> ProductOf([i \in 1..t |-> Weights[gs[i]][v[i]]])]

\* The recursion of __iter__
LEMMA ProductTurns ==
  ASSUME NEW gs \in [1..TRT -> 1..MaxGsims]
  PROVE  \E u \in [0..TRT -> Seq(Seq(Nat))] :
           /\ Product(gs) = u[TRT] /\ u[0] = << << >> >>
           /\ \A t \in 1..TRT :
                u[t] = FlattenSeq([k \in DOMAIN u[t - 1] |-> [n \in 1..gs[t] |-> Append(u[t - 1][k], n)]])
  <1> DEFINE S == Seq(Seq(Nat))
             Step(t, x) == FlattenSeq([k \in DOMAIN x |-> [n \in 1..gs[t] |-> Append(x[k], n)]])
             h == [t \in 1..TRT |-> [x \in S |-> Step(t, x)]]
             none == << << >> >>
             F == CHOOSE f : f = [t \in 0..TRT |-> IF t = 0 THEN none ELSE Step(t, f[t - 1])]
  <1>0. TRT \in Nat
    BY LogicTreeAssumption
  <1>a. \A t \in 1..TRT : gs[t] \in Nat
    <2>1. 1..MaxGsims \subseteq Nat
      BY LogicTreeAssumption
    <2> QED BY <2>1
  <1>1. \A t \in 1..TRT : \A x \in S : Step(t, x) \in S
    <2> TAKE t \in 1..TRT
    <2> TAKE x \in S
    <2> DEFINE L == Len(x)  m == gs[t]  tt == [k \in DOMAIN x |-> [n \in 1..m |-> Append(x[k], n)]]
    <2>1. L \in Nat /\ DOMAIN x = 1..L /\ (\A k \in 1..L : x[k] \in Seq(Nat)) /\ m \in Nat
      BY <1>a
    <2> HIDE DEF L, m
    <2>2. ASSUME NEW k \in 1..L PROVE [n \in 1..m |-> Append(x[k], n)] \in Seq(Seq(Nat))
      <3>1. x[k] \in Seq(Nat)
        BY <2>1
      <3>2. \A n \in 1..m : Append(x[k], n) \in Seq(Nat)
        BY <3>1
      <3>3. [n \in 1..m |-> Append(x[k], n)] \in [1..m -> Seq(Nat)]
        BY <3>2
      <3> QED BY <2>1, <3>3, LenIs
    <2>3. tt \in [1..L -> Seq(Seq(Nat))]
      BY <2>1, <2>2
    <2>4. tt \in Seq(Seq(Seq(Nat)))
      BY <2>1, <2>3, LenIs
    <2> HIDE DEF tt
    <2>5. FlattenSeq(tt) \in Seq(Seq(Nat))
      BY <2>4, FlattenElements
    <2> QED BY <2>5 DEF tt, m
  <1>2. none \in S
    OBVIOUS
  <1>3. Product(gs) = F[TRT]
    BY DEF Product
  <1> HIDE DEF Step, S, none
  <1>4. \A t \in 1..TRT : \A x \in S : h[t][x] = Step(t, x)
    OBVIOUS
  <1>b. h \in [1..TRT -> [S -> S]]
    BY <1>1
  <1> HIDE DEF h
  <1>c. Steps(S, TRT, h)
    BY <1>0, <1>b DEF Steps
  <1>d. PICK u : Follows(S, none, TRT, h, u)
    BY <1>2, <1>c, Recursion
  <1>5. u \in [0..TRT -> S] /\ u[0] = none /\ \A t \in 1..TRT : u[t] = h[t][u[t - 1]]
    BY <1>d DEF Follows
  <1>6. \A t \in 1..TRT : u[t - 1] \in S /\ u[t] = Step(t, u[t - 1])
    <2>1. \A t \in 1..TRT : t - 1 \in 0..TRT
      BY <1>0
    <2> QED BY <1>4, <1>5, <2>1
  <1>7. \E f : f = [t \in 0..TRT |-> IF t = 0 THEN none ELSE Step(t, f[t - 1])]
    <2>1. \A t \in 0..TRT : u[t] = IF t = 0 THEN none ELSE Step(t, u[t - 1])
      BY <1>0, <1>5, <1>6
    <2>2. u = [t \in 0..TRT |-> IF t = 0 THEN none ELSE Step(t, u[t - 1])]
      BY <1>5, <2>1
    <2> QED BY <2>2
  <1>8. F = [t \in 0..TRT |-> IF t = 0 THEN none ELSE Step(t, F[t - 1])]
    BY <1>7
  <1> HIDE DEF F
  <1>9. \A t \in 0..TRT : F[t] = IF t = 0 THEN none ELSE Step(t, F[t - 1])
    BY <1>8
  <1>10. F[0] = none /\ \A t \in 1..TRT : F[t] = Step(t, F[t - 1])
    BY <1>0, <1>9
  <1> DEFINE G == {t \in 0..TRT : F[t] \in S}
  <1>11. 0..TRT \subseteq G
    <2>1. 0 \in G
      BY <1>0, <1>2, <1>10
    <2>2. \A t \in 0..TRT - 1 : t \in G => t + 1 \in G
      <3> TAKE t \in 0..TRT - 1
      <3>1. t + 1 \in 1..TRT /\ (t + 1) - 1 = t /\ t + 1 \in 0..TRT
        BY <1>0
      <3> QED BY <1>1, <1>10, <3>1
    <2> HIDE DEF G
    <2> QED BY <1>0, <2>1, <2>2, Upwards
  <1>12. F \in [0..TRT -> S]
    BY <1>8, <1>11
  <1> QED BY <1>3, <1>10, <1>12 DEF Step, S, none

\* The values for one tectonic region type more: as many more, different, of the
\* right numbers, and with weights that sum to one.
Valued(gs, t, u) ==
  /\ u \in Seq(Values(gs, t)) /\ IsInjective(u)
  /\ Len(u) = ProductOf(First(gs, t))
  /\ SumOf(Each(Weighed(gs, t), u)) = One(t)

\* The weights of the GSIMs of a tectonic region type
LEMMA GsimWeights ==
  ASSUME NEW gs \in [1..TRT -> 1..MaxGsims], NEW t \in 1..TRT
  PROVE  /\ gs[t] \in Nat \ {0} /\ Weights[gs[t]] \in [1..gs[t] -> Int]
         /\ SumOf(Weights[gs[t]]) = Unit
  <1>1. gs[t] \in DOMAIN Weights
    BY LogicTreeAssumption
  <1>2. \A n \in DOMAIN Weights : Weights[n] \in [1..n -> Nat] /\ SumOf(Weights[n]) = Unit
    BY LogicTreeAssumption
  <1>3. DOMAIN Weights \subseteq Nat \ {0}
    BY LogicTreeAssumption
  <1> QED BY <1>1, <1>2, <1>3

\* The weights of the values are integers.
LEMMA WeighedType ==
  ASSUME NEW gs \in [1..TRT -> 1..MaxGsims], NEW t \in 0..TRT
  PROVE  /\ Weighed(gs, t) \in [Values(gs, t) -> Int]
         /\ \A v \in Values(gs, t) : [i \in 1..t |-> Weights[gs[i]][v[i]]] \in [1..t -> Int]
  <1>0. TRT \in Nat
    BY LogicTreeAssumption
  <1>1. ASSUME NEW v \in Values(gs, t)
        PROVE  [i \in 1..t |-> Weights[gs[i]][v[i]]] \in [1..t -> Int]
    <2>1. \A i \in 1..t : Weights[gs[i]][v[i]] \in Int
      <3> TAKE i \in 1..t
      <3>1. i \in 1..TRT /\ v[i] \in 1..gs[i]
        BY <1>0 DEF Values
      <3>2. Weights[gs[i]] \in [1..gs[i] -> Int]
        BY <3>1, GsimWeights
      <3> QED BY <3>1, <3>2
    <2> QED BY <2>1
  <1>2. \A v \in Values(gs, t) : ProductOf([i \in 1..t |-> Weights[gs[i]][v[i]]]) \in Int
    <2>1. t \in Nat
      BY <1>0
    <2> QED BY <1>1, <2>1, SumType
  <1> QED BY <1>1, <1>2 DEF Weighed

\* The values with one GSIM more
LEMMA LongerType ==
  ASSUME NEW gs \in [1..TRT -> 1..MaxGsims], NEW t \in 1..TRT
  PROVE  /\ Longer(gs, t) \in [Values(gs, t - 1) -> [1..gs[t] -> Values(gs, t)]]
         /\ \A v \in Values(gs, t - 1) : \A n \in 1..gs[t] :
              /\ Longer(gs, t)[v][n] = Append(v, n)
              /\ Append(v, n) \in Values(gs, t)
              /\ Append(v, n)[t] = n /\ \A i \in 1..t - 1 : Append(v, n)[i] = v[i]
  <1>0. TRT \in Nat /\ t \in Nat \ {0} /\ gs[t] \in Nat \ {0}
    BY LogicTreeAssumption, GsimWeights
  <1>1. ASSUME NEW v \in Values(gs, t - 1), NEW n \in 1..gs[t]
        PROVE  /\ Append(v, n) \in Values(gs, t)
               /\ Append(v, n)[t] = n /\ \A i \in 1..t - 1 : Append(v, n)[i] = v[i]
    <2> DEFINE w == Append(v, n)
    <2>1. v \in Seq(Nat) /\ Len(v) = t - 1 /\ \A i \in 1..t - 1 : v[i] \in 1..gs[i]
      BY DEF Values
    <2>2. n \in Nat
      BY <1>0
    <2>3. w \in Seq(Nat) /\ Len(w) = t /\ w[t] = n /\ \A i \in 1..t - 1 : w[i] = v[i]
      BY <1>0, <2>1, <2>2
    <2> HIDE DEF w
    <2>4. \A i \in 1..t : w[i] \in 1..gs[i]
      <3> TAKE i \in 1..t
      <3>1. i = t \/ i \in 1..t - 1
        BY <1>0
      <3> QED BY <2>1, <2>3, <3>1
    <2>5. w \in Values(gs, t)
      BY <2>3, <2>4 DEF Values
    <2> QED BY <2>3, <2>5 DEF w
  <1>2. \A v \in Values(gs, t - 1) :
          [n \in 1..gs[t] |-> Append(v, n)] \in [1..gs[t] -> Values(gs, t)]
    BY <1>1
  <1>3. Longer(gs, t) \in [Values(gs, t - 1) -> [1..gs[t] -> Values(gs, t)]]
    BY <1>2 DEF Longer
  <1> QED BY <1>1, <1>3 DEF Longer

\* The values for one tectonic region type more
LEMMA ValuedStep ==
  ASSUME NEW gs \in [1..TRT -> 1..MaxGsims], NEW t \in 1..TRT, NEW u, Valued(gs, t - 1, u)
  PROVE  /\ [k \in DOMAIN u |-> [n \in 1..gs[t] |-> Append(u[k], n)]] = Crossed(u, Longer(gs, t))
         /\ Valued(gs, t, FlattenSeq(Crossed(u, Longer(gs, t))))
  <1> DEFINE f == Longer(gs, t)  S == Values(gs, t - 1)  R == Values(gs, t)  m == gs[t]
             w == Weighed(gs, t)  a == Weighed(gs, t - 1)  c == Weights[m]
             x == FlattenSeq(Crossed(u, f))
  <1>0. TRT \in Nat /\ t \in Nat \ {0} /\ t - 1 \in 0..TRT /\ t - 1 \in Nat /\ t \in 0..TRT
        /\ (t - 1) + 1 = t
    BY LogicTreeAssumption
  <1>1. /\ u \in Seq(S) /\ IsInjective(u) /\ Len(u) = ProductOf(First(gs, t - 1))
        /\ SumOf(Each(a, u)) = One(t - 1)
    BY DEF Valued
  <1>2. m \in Nat \ {0} /\ c \in [1..m -> Int] /\ SumOf(c) = Unit
    BY GsimWeights
  <1>3. f \in [S -> [1..m -> R]]
    BY LongerType
  <1>4. /\ \A v \in S : \A n \in 1..m :
              /\ f[v][n] = Append(v, n)
              /\ Append(v, n) \in R
              /\ Append(v, n)[t] = n /\ \A i \in 1..t - 1 : Append(v, n)[i] = v[i]
    BY LongerType
  <1>5. [k \in DOMAIN u |-> [n \in 1..gs[t] |-> Append(u[k], n)]] = Crossed(u, f)
    <2>1. DOMAIN u = 1..Len(u) /\ \A k \in 1..Len(u) : u[k] \in S
      BY <1>1
    <2>2. \A k \in 1..Len(u) : f[u[k]] = [n \in 1..gs[t] |-> Append(u[k], n)]
      BY <2>1 DEF Longer
    <2> HIDE DEF f, S
    <2> QED BY <2>1, <2>2 DEF Crossed
  <1>6. \A v \in S : v \in Seq(Nat) /\ Len(v) = t - 1
    BY DEF Values
  <1> HIDE DEF f, S, R, m, w, a, c
  <1>b. Crossing(S, u, m, R, f)
    BY <1>1, <1>2, <1>3 DEF Crossing
  <1>7. x \in Seq(R)
    BY <1>b, CrossedElements
  <1>8. IsInjective(x)
    <2>1. ASSUME NEW v \in S, NEW y \in S, NEW i \in 1..m, NEW n \in 1..m, f[v][i] = f[y][n]
          PROVE  v = y /\ i = n
      <3>1. Append(v, i) = Append(y, n)
        <4>1. f[v][i] = Append(v, i) /\ f[y][n] = Append(y, n)
          BY <1>4
        <4> QED BY <2>1, <4>1
      <3>2. Append(v, i)[t] = i /\ Append(y, n)[t] = n
        BY <1>4
      <3>3. \A j \in 1..t - 1 : v[j] = y[j]
        <4>1. \A j \in 1..t - 1 : Append(v, i)[j] = v[j] /\ Append(y, n)[j] = y[j]
          BY <1>4
        <4> QED BY <3>1, <4>1
      <3>4. v = y
        <4>1. v \in Seq(Nat) /\ y \in Seq(Nat) /\ Len(v) = t - 1 /\ Len(y) = t - 1
          BY <1>6
        <4> QED BY <1>0, <3>3, <4>1, SeqEqual
      <3> QED BY <3>1, <3>2, <3>4
    <2>2. IsInjective(u) /\ (\A v, y \in S : \A i, n \in 1..m : f[v][i] = f[y][n] => v = y /\ i = n)
            => IsInjective(x)
      BY <1>b, CrossedElements
    <2>3. \A v, y \in S : \A i, n \in 1..m : f[v][i] = f[y][n] => v = y /\ i = n
      BY <2>1
    <2> HIDE DEF x
    <2> QED BY <1>1, <2>2, <2>3, Zenon
  <1>9. Len(x) = Len(u) * m
    BY <1>b, CrossedLen
  <1>10. ProductOf(First(gs, t)) = ProductOf(First(gs, t - 1)) * m
    <2>1. gs \in [1..TRT -> Int]
      BY LogicTreeAssumption
    <2>2. t - 1 \in 0..TRT - 1
      BY <1>0
    <2>3. ProductOf(First(gs, (t - 1) + 1)) = ProductOf(First(gs, t - 1)) * gs[(t - 1) + 1]
      BY <1>0, <2>1, <2>2, SumFirst
    <2> QED BY <1>0, <2>3 DEF m
  <1>11. w \in [R -> Int] /\ a \in [S -> Int]
    BY <1>0, WeighedType DEF w, a, R, S
  <1>12. ASSUME NEW v \in S, NEW n \in 1..m PROVE w[f[v][n]] = a[v] * c[n]
    <2> DEFINE y == Append(v, n)
               s1 == [i \in 1..t - 1 |-> Weights[gs[i]][v[i]]]
               s2 == [i \in 1..t |-> Weights[gs[i]][y[i]]]
    <2>1. y \in R /\ y[t] = n /\ \A i \in 1..t - 1 : y[i] = v[i]
      BY <1>4
    <2> HIDE DEF y
    <2>2. s1 \in [1..t - 1 -> Int]
      BY <1>0, WeighedType DEF S
    <2>3. s2 \in [1..t -> Int]
      BY <1>0, <2>1, WeighedType DEF R
    <2>4. \A i \in 1..t - 1 : s2[i] = s1[i]
      <3>1. \A i \in 1..t - 1 : i \in 1..t
        BY <1>0
      <3> QED BY <2>1, <3>1
    <2>5. s2[t] = c[n]
      <3>1. t \in 1..t
        BY <1>0
      <3> QED BY <2>1, <3>1 DEF c, m
    <2>6. w[y] = ProductOf(s2) /\ a[v] = ProductOf(s1)
      BY <2>1 DEF w, a, Weighed, R, S
    <2> HIDE DEF s1, s2
    <2>7. ProductOf(s2) = ProductOf(s1) * s2[t]
      <3> DEFINE L == t - 1
      <3>1. L \in Nat /\ L + 1 = t
        BY <1>0
      <3>2. s1 \in [1..L -> Int] /\ s2 \in [1..L + 1 -> Int] /\ \A i \in 1..L : s2[i] = s1[i]
        BY <2>2, <2>3, <2>4, <3>1
      <3> HIDE DEF L
      <3>3. ProductOf(s2) = ProductOf(s1) * s2[L + 1]
        BY <3>1, <3>2, SumMore
      <3> QED BY <3>1, <3>3
    <2>8. f[v][n] = y
      BY <1>4 DEF y
    <2> QED BY <2>5, <2>6, <2>7, <2>8
  <1>13. SumOf(Each(w, x)) = One(t - 1) * Unit
    <2>1. IsProduct(S, u, m, R, f, w, a, c)
      BY <1>1, <1>2, <1>3, <1>11, <1>12 DEF IsProduct
    <2>2. SumOf(Each(w, x)) = SumOf(Each(a, u)) * SumOf(c)
      BY <2>1, CrossedSum
    <2> QED BY <1>1, <1>2, <2>2
  <1>14. One(t) = One(t - 1) * Unit
    <2>1. One(t - 1) \in Int /\ One((t - 1) + 1) = Unit * One(t - 1) /\ Unit \in Int
      BY <1>0, OneIs, LogicTreeAssumption
    <2>2. \A i, j \in Int : i * j = j * i
      OBVIOUS
    <2> QED BY <1>0, <2>1, <2>2
  <1>15. Valued(gs, t, x)
    <2> HIDE DEF x
    <2> QED BY <1>1, <1>7, <1>8, <1>9, <1>10, <1>13, <1>14 DEF Valued, R, w
  <1> QED BY <1>5, <1>15 DEF f, x

\* What __iter__ returns: as many values as there are paths, all different, each with
\* one of the GSIMs of every tectonic region type, with weights that sum to one.
LEMMA ProductValues ==
  ASSUME NEW gs \in [1..TRT -> 1..MaxGsims]
  PROVE  Valued(gs, TRT, Product(gs)) /\ First(gs, TRT) = gs
  <1>0. TRT \in Nat
    BY LogicTreeAssumption
  <1>1. PICK u \in [0..TRT -> Seq(Seq(Nat))] :
           /\ Product(gs) = u[TRT] /\ u[0] = << << >> >>
           /\ \A t \in 1..TRT :
                u[t] = FlattenSeq([k \in DOMAIN u[t - 1] |-> [n \in 1..gs[t] |-> Append(u[t - 1][k], n)]])
    BY ProductTurns
  <1>a. gs \in [1..TRT -> Int]
    BY LogicTreeAssumption
  <1> DEFINE G == {t \in 0..TRT : Valued(gs, t, u[t])}
  <1>2. Valued(gs, 0, << << >> >>)
    <2> DEFINE x == << << >> >>
    <2>1. << >> \in Values(gs, 0)
      BY DEF Values
    <2>2. x \in Seq(Values(gs, 0)) /\ Len(x) = 1 /\ DOMAIN x = 1..1 /\ x[1] = << >>
      BY <2>1
    <2> HIDE DEF x
    <2>3. IsInjective(x)
      BY <2>2 DEF IsInjective
    <2>4. ProductOf(First(gs, 0)) = 1
      BY <1>0, <1>a, SumFirst
    <2>5. Weighed(gs, 0)[<< >>] = 1 /\ One(0) = 1
      <3>1. [i \in 1..0 |-> Weights[gs[i]][<< >>[i]]] \in [1..0 -> Int]
            /\ [i \in 1..0 |-> Unit] \in [1..0 -> Int]
        OBVIOUS
      <3>2. ProductOf([i \in 1..0 |-> Weights[gs[i]][<< >>[i]]]) = 1
            /\ ProductOf([i \in 1..0 |-> Unit]) = 1
        BY <3>1, SumNone
      <3> QED BY <2>1, <3>2 DEF Weighed, One
    <2>6. SumOf(Each(Weighed(gs, 0), x)) = 1
      <3> DEFINE e == Each(Weighed(gs, 0), x)
      <3>1. e = [i \in 1..1 |-> 1]
        BY <2>2, <2>5 DEF Each
      <3>2. 1 \in Nat
        OBVIOUS
      <3> HIDE DEF e
      <3>3. SumOf([i \in 1..1 |-> 1]) = 1
        BY <3>2, SumOfOnes
      <3> QED BY <3>1, <3>3 DEF e
    <2> QED BY <2>2, <2>3, <2>4, <2>5, <2>6 DEF Valued, x
  <1>3. 0 \in G
    <2>1. u[0] = << << >> >> /\ 0 \in 0..TRT
      BY <1>0, <1>1
    <2>2. Valued(gs, 0, u[0])
      BY <1>2, <2>1
    <2> QED BY <2>1, <2>2
  <1>4. ASSUME NEW t \in 0..TRT - 1, t \in G PROVE t + 1 \in G
    <2> DEFINE r == t + 1  v == u[t]
    <2>1. r \in 1..TRT /\ r - 1 = t /\ r \in 0..TRT
      BY <1>0
    <2>2. Valued(gs, r - 1, v)
      BY <1>4, <2>1
    <2>3. u[r] = FlattenSeq([k \in DOMAIN v |-> [n \in 1..gs[r] |-> Append(v[k], n)]])
      <3>1. u[r] = FlattenSeq([k \in DOMAIN u[r - 1] |-> [n \in 1..gs[r] |-> Append(u[r - 1][k], n)]])
        BY <1>1, <2>1
      <3> QED BY <2>1, <3>1
    <2> HIDE DEF r, v
    <2>4. /\ [k \in DOMAIN v |-> [n \in 1..gs[r] |-> Append(v[k], n)]] = Crossed(v, Longer(gs, r))
          /\ Valued(gs, r, FlattenSeq(Crossed(v, Longer(gs, r))))
      BY <2>1, <2>2, ValuedStep
    <2>5. Valued(gs, r, u[r])
      BY <2>3, <2>4
    <2> QED BY <2>1, <2>5 DEF r
  <1> HIDE DEF G
  <1>5. 0..TRT \subseteq G
    BY <1>0, <1>3, <1>4, Upwards
  <1>6. Valued(gs, TRT, u[TRT])
    BY <1>0, <1>5 DEF G
  <1>7. First(gs, TRT) = gs
    BY <1>0, <1>a, SumFirst
  <1> QED BY <1>1, <1>6, <1>7

-----------------------------------------------------------------------------
(* Full enumeration *)

\* What the realizations rz are for the effective realizations sm, when ns paths were
\* sampled, or all were enumerated, and the GSIM logic tree has the branches gs.
Agree(gs, ns, sm, rz) ==
  /\ gs \in [1..TRT -> 1..MaxGsims] /\ ns \in Nat
  /\ Len(rz) \in Nat /\ DOMAIN rz = 1..Len(rz)
  /\ \A i \in DOMAIN sm :
       /\ WayFrom(1, sm[i].path) /\ sm[i].samples \in Nat \ {0}
       /\ Cardinality({k \in DOMAIN rz : rz[k].path = sm[i].path}) = sm[i].samples
  /\ \A i, j \in DOMAIN sm : sm[i].path = sm[j].path => i = j
  /\ \A k \in DOMAIN rz : /\ rz[k].gsim \in Values(gs, TRT)
                          /\ \E i \in DOMAIN sm : rz[k].path = sm[i].path
  /\ SumOf([i \in DOMAIN sm |-> IF ns > 0 THEN sm[i].samples ELSE ProductOf(gs)]) = Len(rz)
  /\ ns = 0 =>
       /\ IsInjective(rz)
       /\ SumOf([k \in DOMAIN rz |-> rz[k].weight]) = One(MaxLevels) * One(TRT)

\* The paths of the whole tree
LEMMA AllPaths ==
  ASSUME TreeInv, ValuesInv, bsets # << >>
  PROVE  /\ enumerate_paths \in Seq(Seq(Branch)) /\ IsInjective(enumerate_paths)
         /\ \A p \in ToSet(enumerate_paths) : WayFrom(1, p) /\ p \in Seq(Branch)
         /\ SumOf(Each(Weighing(MaxLevels), enumerate_paths)) = One(MaxLevels)
         /\ \A p \in Seq(Branch) : PathWeight(p) = Weighing(MaxLevels)[p] /\ PathWeight(p) \in Int
  <1>1. 1 \in 1..Len(bsets) /\ Len(bsets) \in Nat /\ Len(bsets) <= MaxLevels
    BY DEF TreeInv, ValuesInv
  <1>2. MaxLevels - 1 \in Nat /\ (MaxLevels - 1) + 1 = MaxLevels /\ MaxLevels \in Nat
    BY LogicTreeAssumption
  <1>3. enumerate_paths = PathsFrom[1]
    BY DEF enumerate_paths
  <1>4. SumOf(Each(Weighing(MaxLevels), enumerate_paths)) = One(MaxLevels)
    <2>1. SumOf(Each(Weighing((MaxLevels - 1) + 1), PathsFrom[1])) = One((MaxLevels - 1) + 1)
      BY <1>1, <1>2, PathsWeigh
    <2> QED BY <1>2, <1>3, <2>1
  <1>5. \A p \in Seq(Branch) : PathWeight(p) = Weighing(MaxLevels)[p] /\ PathWeight(p) \in Int
    <2>1. Weighing(MaxLevels) \in [Seq(Branch) -> Int]
      BY <1>2, PaddedType
    <2>2. \A p \in Seq(Branch) : PathWeight(p) = Weighing(MaxLevels)[p]
      BY DEF PathWeight, Weighing, Padded
    <2> QED BY <2>1, <2>2
  <1>6. \A p \in ToSet(PathsFrom[1]) : WayFrom(1, p) /\ p \in Seq(Branch)
    <2> TAKE p \in ToSet(PathsFrom[1])
    <2>1. WayFrom(1, p)
      BY <1>1, PathsAreWays
    <2> QED BY <2>1 DEF WayFrom
  <1>7. PathsFrom[1] \in Seq(Seq(Branch)) /\ IsInjective(PathsFrom[1])
    BY <1>1, PathsType, PathsInjective
  <1> QED BY <1>3, <1>4, <1>5, <1>6, <1>7

\* An element of a sequence without repetitions is counted once.
LEMMA CountedOnce ==
  ASSUME NEW S, NEW s \in Seq(S), IsInjective(s), NEW i \in DOMAIN s
  PROVE  Count(s, {s[i]}) = 1
  <1>1. {n \in DOMAIN s : s[n] \in {s[i]}} = {i}
    BY DEF IsInjective
  <1>2. Cardinality({i}) = 1
    BY FS_Singleton
  <1> QED BY <1>1, <1>2 DEF Count

\* The sum of a number taken n times
LEMMA SumOfSame ==
  ASSUME NEW n \in Nat, NEW c \in Int, NEW t \in [1..n -> Int], \A i \in 1..n : t[i] = c
  PROVE  SumOf(t) = n * c
  <1> DEFINE s == [i \in 1..n |-> 1]
  <1>1. SumOf(s) = n /\ s \in [1..n -> Int]
    BY SumOfOnes
  <1>2. \A i \in 1..n : t[i] = s[i] * c
    OBVIOUS
  <1>3. [i \in 1..n |-> s[i] * c] = t
    BY <1>2
  <1> HIDE DEF s
  <1>4. SumOf([i \in 1..n |-> s[i] * c]) = SumOf(s) * c
    BY <1>1, ScaledSum
  <1> QED BY <1>1, <1>3, <1>4

\* Full enumeration
LEMMA Enumerated ==
  ASSUME TreeInv, ValuesInv, bsets # << >>, NEW gs \in [1..TRT -> 1..MaxGsims], NEW sm, NEW rz,
         sm = [i \in DOMAIN enumerate_paths |->
                 [path |-> enumerate_paths[i], ordinal |-> i - 1, samples |-> get_num_paths(gs)]],
         rz = FlattenSeq([i \in DOMAIN enumerate_paths |->
                [k \in DOMAIN Product(gs) |->
                   [path |-> enumerate_paths[i], gsim |-> Product(gs)[k],
                    weight |-> PathWeight(enumerate_paths[i]) * GsimWeight(gs, Product(gs)[k])]]])
  PROVE  Agree(gs, 0, sm, rz)
  <1> DEFINE ps == enumerate_paths  vs == Product(gs)  L == Len(ps)  m == Len(vs)
             S == Seq(Branch)  V == Values(gs, TRT)  R == [path : S, gsim : V, weight : Int]
             rec(p, v) == [path |-> p, gsim |-> v, weight |-> PathWeight(p) * GsimWeight(gs, v)]
             f == [p \in S |-> [k \in 1..m |-> rec(p, vs[k])]]
             a == Weighing(MaxLevels)  b == Weighed(gs, TRT)  c == Each(b, vs)
             w == [r \in R |-> r.weight]
  <1>0. TRT \in Nat /\ MaxLevels \in Nat
    BY LogicTreeAssumption
  <1>1. /\ ps \in Seq(S) /\ IsInjective(ps) /\ L \in Nat /\ DOMAIN ps = 1..L
        /\ \A i \in 1..L : ps[i] \in S /\ WayFrom(1, ps[i])
        /\ SumOf(Each(a, ps)) = One(MaxLevels)
    <2>1. ps \in Seq(S) /\ IsInjective(ps) /\ SumOf(Each(a, ps)) = One(MaxLevels)
          /\ \A p \in ToSet(ps) : WayFrom(1, p)
      BY AllPaths
    <2> HIDE DEF ps, S
    <2> QED BY <2>1 DEF ToSet
  <1>2. /\ vs \in Seq(V) /\ IsInjective(vs) /\ m \in Nat /\ DOMAIN vs = 1..m
        /\ \A k \in 1..m : vs[k] \in V
        /\ m = ProductOf(gs) /\ SumOf(c) = One(TRT)
    <2>1. vs \in Seq(V) /\ IsInjective(vs) /\ m = ProductOf(gs) /\ SumOf(c) = One(TRT)
      BY ProductValues DEF Valued
    <2> HIDE DEF vs, V, c
    <2> QED BY <2>1
  <1>3. m \in Nat \ {0}
    <2>1. gs \in [1..TRT -> Nat \ {0}]
      BY LogicTreeAssumption
    <2> QED BY <1>0, <1>2, <2>1, ProductPositive
  <1>4. /\ a \in [S -> Int] /\ b \in [V -> Int]
        /\ \A p \in S : PathWeight(p) = a[p]
        /\ \A v \in V : GsimWeight(gs, v) = b[v]
    <2>1. TRT \in 0..TRT
      BY <1>0
    <2>2. a \in [S -> Int]
      BY <1>0, PaddedType
    <2>3. b \in [V -> Int]
      BY <2>1, WeighedType
    <2>4. \A p \in S : PathWeight(p) = a[p]
      BY AllPaths
    <2>5. \A v \in V : GsimWeight(gs, v) = b[v]
      BY DEF GsimWeight, Weighed
    <2> QED BY <2>2, <2>3, <2>4, <2>5
  <1>5. sm = [i \in 1..L |-> [path |-> ps[i], ordinal |-> i - 1, samples |-> m]]
    BY <1>1, <1>2 DEF get_num_paths
  <1>6. rz = FlattenSeq(Crossed(ps, f))
    <2>1. \A i \in 1..L : f[ps[i]] = [k \in DOMAIN vs |-> rec(ps[i], vs[k])]
      BY <1>1, <1>2
    <2>2. [i \in DOMAIN ps |-> [k \in DOMAIN vs |-> rec(ps[i], vs[k])]] = Crossed(ps, f)
      <3> HIDE DEF f, rec, ps, vs
      <3> QED BY <1>1, <2>1 DEF Crossed, L
    <2> QED BY <2>2
  <1>7. ASSUME NEW p \in S, NEW k \in 1..m
        PROVE  /\ f[p][k] \in R /\ f[p][k].path = p /\ f[p][k].gsim = vs[k]
               /\ f[p][k].weight = a[p] * c[k]
    <2>1. f[p][k] = rec(p, vs[k])
      OBVIOUS
    <2>2. vs[k] \in V /\ b[vs[k]] \in Int /\ a[p] \in Int /\ c[k] = b[vs[k]]
      BY <1>2, <1>4 DEF Each
    <2>3. PathWeight(p) * GsimWeight(gs, vs[k]) = a[p] * c[k]
      BY <1>4, <2>2
    <2> HIDE DEF f, a, c, vs, V, S, b
    <2>4. a[p] * c[k] \in Int
      BY <2>2
    <2> QED BY <2>1, <2>2, <2>3, <2>4
  <1>8. f \in [S -> [1..m -> R]]
    <2>1. \A p \in S : [k \in 1..m |-> rec(p, vs[k])] \in [1..m -> R]
      <3> TAKE p \in S
      <3>1. \A k \in 1..m : rec(p, vs[k]) = f[p][k]
        OBVIOUS
      <3>2. \A k \in 1..m : rec(p, vs[k]) \in R
        BY <1>7, <3>1
      <3> HIDE DEF rec, R
      <3> QED BY <3>2
    <2> HIDE DEF rec, R, m
    <2> QED BY <2>1
  <1>9. c \in [1..m -> Int]
    BY <1>2, <1>4, EachType
  <1>b. w \in [R -> Int] /\ \A r \in R : w[r] = r.weight
    OBVIOUS
  <1> HIDE DEF ps, vs, L, m, S, V, f, a, b, c, R, w
  <1>10. Crossing(S, ps, m, R, f)
    BY <1>1, <1>2, <1>8 DEF Crossing
  <1>11. rz \in Seq(R) /\ DOMAIN rz = 1..Len(rz) /\ Len(rz) \in Nat
    <2>1. rz \in Seq(R)
      BY <1>6, <1>10, CrossedElements
    <2> QED BY <2>1
  <1>12. IsInjective(rz)
    <2>1. ASSUME NEW p \in S, NEW q \in S, NEW i \in 1..m, NEW k \in 1..m, f[p][i] = f[q][k]
          PROVE  p = q /\ i = k
      <3>1. f[p][i].path = p /\ f[p][i].gsim = vs[i] /\ f[q][k].path = q /\ f[q][k].gsim = vs[k]
        BY <1>7
      <3>2. p = q /\ vs[i] = vs[k]
        BY <2>1, <3>1
      <3> QED BY <1>2, <3>2 DEF IsInjective
    <2>2. IsInjective(ps) /\ (\A p, q \in S : \A i, k \in 1..m : f[p][i] = f[q][k] => p = q /\ i = k)
            => IsInjective(FlattenSeq(Crossed(ps, f)))
      BY <1>10, CrossedElements
    <2>3. \A p, q \in S : \A i, k \in 1..m : f[p][i] = f[q][k] => p = q /\ i = k
      BY <2>1
    <2>4. IsInjective(FlattenSeq(Crossed(ps, f)))
      BY <1>1, <2>2, <2>3, Zenon
    <2> QED BY <1>6, <2>4
  <1>13. \A k \in DOMAIN rz : rz[k].gsim \in V /\ \E i \in 1..L : rz[k].path = ps[i]
    <2> TAKE k \in DOMAIN rz
    <2>1. rz[k] \in ToSet(FlattenSeq(Crossed(ps, f)))
      BY <1>6 DEF ToSet
    <2>2. PICK p \in ToSet(ps) : \E n \in 1..m : rz[k] = f[p][n]
      BY <1>10, <2>1, CrossedElements
    <2>3. PICK n \in 1..m : rz[k] = f[p][n]
      BY <2>2
    <2>4. PICK i \in 1..L : p = ps[i]
      BY <1>1 DEF ToSet
    <2>5. p \in S /\ vs[n] \in V
      BY <1>1, <1>2, <2>4
    <2>6. f[p][n].path = p /\ f[p][n].gsim = vs[n]
      BY <1>7, <2>5
    <2> QED BY <2>3, <2>4, <2>5, <2>6
  <1>14. ASSUME NEW i \in 1..L PROVE Cardinality({k \in DOMAIN rz : rz[k].path = ps[i]}) = m
    <2> DEFINE p == ps[i]  Q == {r \in R : r.path = p}
    <2>1. Tells(S, m, f, {p}, Q)
      <3>1. \A q \in S : \A n \in 1..m : f[q][n] \in R /\ f[q][n].path = q
        BY <1>7
      <3> QED BY <3>1 DEF Tells
    <2>2. Count(FlattenSeq(Crossed(ps, f)), Q) = Count(ps, {p}) * m
      BY <1>10, <2>1, CrossedCount
    <2>3. Count(ps, {p}) = 1
      BY <1>1, CountedOnce
    <2>4. {k \in DOMAIN rz : rz[k] \in Q} = {k \in DOMAIN rz : rz[k].path = p}
      <3>1. \A k \in DOMAIN rz : rz[k] \in R
        <4> QED BY <1>11
      <3> HIDE DEF p
      <3> QED BY <3>1
    <2>5. Count(rz, Q) = 1 * m
      BY <1>6, <2>2, <2>3
    <2>6. Count(rz, Q) = Cardinality({k \in DOMAIN rz : rz[k].path = p})
      BY <2>4 DEF Count
    <2> HIDE DEF Q
    <2> QED BY <1>2, <2>5, <2>6
  <1>15. SumOf([i \in 1..L |-> m]) = Len(rz)
    <2>1. Len(FlattenSeq(Crossed(ps, f))) = L * m
      BY <1>10, CrossedLen DEF L
    <2> DEFINE t == [i \in 1..L |-> m]
    <2>2. t \in [1..L -> Int] /\ \A i \in 1..L : t[i] = m
      BY <1>2
    <2> HIDE DEF t
    <2>3. SumOf(t) = L * m
      BY <1>1, <1>2, <2>2, SumOfSame
    <2> QED BY <1>6, <2>1, <2>3 DEF t
  <1>16. SumOf([k \in DOMAIN rz |-> rz[k].weight]) = One(MaxLevels) * One(TRT)
    <2>2. \A p \in S : \A k \in 1..m : w[f[p][k]] = a[p] * c[k]
      <3> TAKE p \in S
      <3> TAKE k \in 1..m
      <3>1. f[p][k] \in R /\ f[p][k].weight = a[p] * c[k]
        BY <1>7
      <3> QED BY <1>b, <3>1
    <2>3. \A k \in 1..Len(rz) : w[rz[k]] = rz[k].weight
      <3>1. \A k \in 1..Len(rz) : rz[k] \in R
        <4> QED BY <1>11
      <3> QED BY <1>b, <3>1
    <2>4. Each(w, rz) = [k \in DOMAIN rz |-> rz[k].weight]
      BY <1>11, <2>3 DEF Each
    <2>5. IsProduct(S, ps, m, R, f, w, a, c)
      BY <1>1, <1>2, <1>4, <1>8, <1>9, <1>b, <2>2 DEF IsProduct
    <2>6. SumOf(Each(w, FlattenSeq(Crossed(ps, f)))) = SumOf(Each(a, ps)) * SumOf(c)
      BY <2>5, CrossedSum
    <2> QED BY <1>1, <1>2, <1>6, <2>4, <2>6
  <1>17. /\ DOMAIN sm = 1..L
         /\ \A i \in 1..L : sm[i].path = ps[i] /\ sm[i].samples = m
    BY <1>5
  <1>18. [i \in DOMAIN sm |-> IF 0 > 0 THEN sm[i].samples ELSE ProductOf(gs)] = [i \in 1..L |-> m]
    BY <1>2, <1>17
  <1>19. \A i, j \in DOMAIN sm : sm[i].path = sm[j].path => i = j
    BY <1>1, <1>17 DEF IsInjective
  <1>20. \A i \in DOMAIN sm :
           /\ WayFrom(1, sm[i].path) /\ sm[i].samples \in Nat \ {0}
           /\ Cardinality({k \in DOMAIN rz : rz[k].path = sm[i].path}) = sm[i].samples
    <2> TAKE i \in DOMAIN sm
    <2>1. i \in 1..L /\ sm[i].path = ps[i] /\ sm[i].samples = m
      BY <1>17
    <2>2. {k \in DOMAIN rz : rz[k].path = sm[i].path} = {k \in DOMAIN rz : rz[k].path = ps[i]}
      BY <2>1
    <2> QED BY <1>1, <1>3, <1>14, <2>1, <2>2
  <1>21. \A k \in DOMAIN rz : /\ rz[k].gsim \in Values(gs, TRT)
                              /\ \E i \in DOMAIN sm : rz[k].path = sm[i].path
    <2> TAKE k \in DOMAIN rz
    <2>1. PICK i \in 1..L : rz[k].path = ps[i]
      BY <1>13
    <2>2. i \in DOMAIN sm /\ rz[k].path = sm[i].path
      BY <1>17, <2>1
    <2> QED BY <1>13, <2>2 DEF V
  <1> QED BY <1>11, <1>12, <1>15, <1>16, <1>18, <1>19, <1>20, <1>21 DEF Agree

-----------------------------------------------------------------------------
(* The order of the paths *)

\* Where two paths differ first
Differ(p, q, n) ==
  /\ n \in DOMAIN p /\ n \in DOMAIN q
  /\ p[n][2] < q[n][2]
  /\ \A k \in 1..n - 1 : p[k] = q[k]

\* A path that begins with another
Begins(r, s) == Len(r) < Len(s) /\ \A k \in 1..Len(r) : r[k] = s[k]

\* What the branches of a path are
BranchesIn(p) ==
  /\ p \in Seq(Branch) /\ Len(p) \in Nat \ {0} /\ DOMAIN p = 1..Len(p)
  /\ \A n \in 1..Len(p) : /\ p[n] \in Branch /\ p[n] = <<p[n][1], p[n][2]>>
                          /\ p[n][1] \in Nat \ {0} /\ p[n][2] \in Nat
                          /\ p[n][1] = (IF n = 1 THEN 1 ELSE bset[p[n - 1]])
  /\ bset[p[Len(p)]] = 0

\* The branches of paths
LEMMA WayBranches ==
  ASSUME TreeInv, NEW p, WayFrom(1, p)
  PROVE  BranchesIn(p)
  <1>1. p \in Seq(Branch) /\ p # << >> /\ p[1][1] = 1 /\ bset[p[Len(p)]] = 0
        /\ \A i \in 1..Len(p) - 1 : p[i + 1][1] = bset[p[i]]
    BY DEF WayFrom
  <1>2. Len(p) \in Nat \ {0} /\ DOMAIN p = 1..Len(p)
    BY <1>1
  <1>3. ASSUME NEW n \in 1..Len(p)
        PROVE  /\ p[n] \in Branch /\ p[n] = <<p[n][1], p[n][2]>>
               /\ p[n][1] \in Nat \ {0} /\ p[n][2] \in Nat
               /\ p[n][1] = (IF n = 1 THEN 1 ELSE bset[p[n - 1]])
    <2>1. p[n] \in Branch
      BY <1>1
    <2>2. PICK b \in 1..Len(bsets) : \E i \in 1..Len(bsets[b].values) : p[n] = <<b, i>>
      BY <2>1 DEF TreeInv, Branch
    <2>3. PICK i \in 1..Len(bsets[b].values) : p[n] = <<b, i>>
      BY <2>2
    <2>4. b \in Nat \ {0} /\ i \in Nat
      BY ValuesOf
    <2>5. n # 1 => n - 1 \in 1..Len(p) - 1 /\ (n - 1) + 1 = n
      BY <1>2
    <2> QED BY <1>1, <2>1, <2>3, <2>4, <2>5
  <1> QED BY <1>1, <1>2, <1>3 DEF BranchesIn

\* Before compares the branches where two paths differ first, as none is the
\* beginning of another.
LEMMA BeforeIs ==
  ASSUME TreeInv, NEW p, NEW q, WayFrom(1, p), WayFrom(1, q)
  PROVE  /\ Before(p, q) <=> \E n \in Nat : Differ(p, q, n)
         /\ p # q => \E n \in Nat : Differ(p, q, n) \/ Differ(q, p, n)
  <1>1. /\ p \in Seq(Branch) /\ Len(p) \in Nat \ {0} /\ DOMAIN p = 1..Len(p)
        /\ \A n \in 1..Len(p) : /\ p[n] \in Branch /\ p[n] = <<p[n][1], p[n][2]>>
                                /\ p[n][1] \in Nat \ {0} /\ p[n][2] \in Nat
                                /\ p[n][1] = (IF n = 1 THEN 1 ELSE bset[p[n - 1]])
        /\ bset[p[Len(p)]] = 0
    BY WayBranches DEF BranchesIn
  <1>2. /\ q \in Seq(Branch) /\ Len(q) \in Nat \ {0} /\ DOMAIN q = 1..Len(q)
        /\ \A n \in 1..Len(q) : /\ q[n] \in Branch /\ q[n] = <<q[n][1], q[n][2]>>
                                /\ q[n][1] \in Nat \ {0} /\ q[n][2] \in Nat
                                /\ q[n][1] = (IF n = 1 THEN 1 ELSE bset[q[n - 1]])
        /\ bset[q[Len(q)]] = 0
    BY WayBranches DEF BranchesIn
  <1>3. ASSUME NEW r, NEW s, BranchesIn(r), BranchesIn(s), Begins(r, s)
        PROVE  FALSE
    <2>1. /\ Len(r) < Len(s) /\ Len(r) \in Nat \ {0} /\ Len(s) \in Nat
          /\ \A k \in 1..Len(r) : r[k] = s[k]
      BY <1>3 DEF BranchesIn, Begins
    <2>2. /\ Len(r) + 1 \in 1..Len(s) /\ Len(r) + 1 # 1 /\ (Len(r) + 1) - 1 = Len(r)
          /\ Len(r) \in 1..Len(r)
      BY <2>1
    <2>3. s[Len(r) + 1][1] = bset[s[Len(r)]] /\ s[Len(r)] = r[Len(r)]
          /\ s[Len(r) + 1][1] # 0 /\ bset[r[Len(r)]] = 0
      <3>1. s[Len(r) + 1][1] = bset[s[(Len(r) + 1) - 1]] /\ s[Len(r) + 1][1] # 0
        BY <1>3, <2>2 DEF BranchesIn
      <3>2. s[Len(r)] = r[Len(r)] /\ bset[r[Len(r)]] = 0
        BY <1>3, <2>1, <2>2 DEF BranchesIn
      <3> QED BY <2>2, <3>1, <3>2
    <2> QED BY <2>3
  <1>n. Len(p) \in Nat /\ Len(q) \in Nat
    BY <1>1, <1>2
  <1>p. BranchesIn(p) /\ BranchesIn(q)
    BY WayBranches
  <1>4. p # q => \E n \in Nat : Differ(p, q, n) \/ Differ(q, p, n)
    <2> SUFFICES ASSUME p # q PROVE \E n \in Nat : Differ(p, q, n) \/ Differ(q, p, n)
      OBVIOUS
    <2> DEFINE D == {n \in Nat : n \in 1..Len(p) /\ n \in 1..Len(q) /\ p[n] # q[n]}
    <2>1. D # {}
      <3> SUFFICES ASSUME D = {} PROVE FALSE
        OBVIOUS
      <3>1. \A n : n \in 1..Len(p) /\ n \in 1..Len(q) => p[n] = q[n]
        BY <1>1
      <3>2. CASE Len(p) = Len(q)
        BY <1>1, <1>2, <3>1, <3>2, SeqEqual
      <3>3. CASE Len(p) < Len(q)
        <4>1. \A k \in 1..Len(p) : p[k] = q[k]
          BY <1>n, <3>1, <3>3
        <4> QED BY <1>p, <1>3, <3>3, <4>1 DEF Begins
      <3>4. CASE Len(q) < Len(p)
        <4>1. \A k \in 1..Len(q) : q[k] = p[k]
          BY <1>n, <3>1, <3>4
        <4> QED BY <1>p, <1>3, <3>4, <4>1 DEF Begins
      <3>5. Len(p) = Len(q) \/ Len(p) < Len(q) \/ Len(q) < Len(p)
        BY <1>n
      <3> HIDE DEF D
      <3> QED BY <3>2, <3>3, <3>4, <3>5
    <2>2. PICK n \in D : \A k \in D : n <= k
      <3>1. D \in SUBSET Nat
        OBVIOUS
      <3> HIDE DEF D
      <3> QED BY <2>1, <3>1, NatMin
    <2>3. n \in Nat /\ n \in 1..Len(p) /\ n \in 1..Len(q) /\ p[n] # q[n]
      OBVIOUS
    <2>4. \A k \in 1..n - 1 : p[k] = q[k]
      <3> TAKE k \in 1..n - 1
      <3>1. k \in 1..Len(p) /\ k \in 1..Len(q) /\ ~(n <= k) /\ k \in Nat
        BY <1>1, <1>2, <2>3
      <3> QED BY <2>2, <3>1
    <2>5. p[n][1] = q[n][1]
      <3>1. /\ p[n][1] = (IF n = 1 THEN 1 ELSE bset[p[n - 1]])
            /\ q[n][1] = (IF n = 1 THEN 1 ELSE bset[q[n - 1]])
        BY <1>1, <1>2, <2>3
      <3>2. CASE n # 1
        <4>1. n - 1 \in 1..n - 1
          BY <2>3, <3>2
        <4>2. p[n - 1] = q[n - 1]
          BY <2>4, <4>1
        <4> QED BY <3>1, <4>2
      <3> QED BY <3>1, <3>2
    <2>6. p[n][2] # q[n][2]
      <3>1. p[n] = <<p[n][1], p[n][2]>> /\ q[n] = <<q[n][1], q[n][2]>>
        BY <1>1, <1>2, <2>3
      <3>2. p[n] # q[n]
        OBVIOUS
      <3> HIDE DEF D
      <3> QED BY <2>5, <3>1, <3>2
    <2>7. p[n][2] < q[n][2] \/ q[n][2] < p[n][2]
      BY <1>1, <1>2, <2>3, <2>6
    <2>8. Differ(p, q, n) \/ Differ(q, p, n)
      BY <1>1, <1>2, <2>3, <2>4, <2>7 DEF Differ
    <2> QED BY <2>3, <2>8
  <1>5. ~IsStrictPrefix(p, q)
    <2> SUFFICES ASSUME IsStrictPrefix(p, q) PROVE FALSE
      OBVIOUS
    <2>1. Len(p) <= Len(q) /\ SubSeq(p, 1, Len(p)) = SubSeq(q, 1, Len(p)) /\ p # q
      BY DEF IsStrictPrefix, IsPrefix
    <2>2. \A k \in 1..Len(p) : p[k] = q[k]
      <3> TAKE k \in 1..Len(p)
      <3>1. SubSeq(p, 1, Len(p))[k] = p[k] /\ SubSeq(q, 1, Len(p))[k] = q[k]
        BY <1>1, <1>2, <2>1
      <3> QED BY <2>1, <3>1
    <2>3. Len(p) # Len(q)
      BY <1>1, <1>2, <2>1, <2>2, SeqEqual
    <2>4. Len(p) < Len(q)
      BY <1>n, <2>1, <2>3
    <2> QED BY <1>p, <1>3, <2>2, <2>4 DEF Begins
  <1>6. ASSUME NEW n \in 1..Len(p), n \in 1..Len(q)
        PROVE  SubSeq(p, 1, n - 1) = SubSeq(q, 1, n - 1) <=> \A k \in 1..n - 1 : p[k] = q[k]
    <2>1. /\ SubSeq(p, 1, n - 1) \in Seq(Branch) /\ Len(SubSeq(p, 1, n - 1)) = n - 1
          /\ \A k \in 1..n - 1 : SubSeq(p, 1, n - 1)[k] = p[k]
      BY <1>1
    <2>2. /\ SubSeq(q, 1, n - 1) \in Seq(Branch) /\ Len(SubSeq(q, 1, n - 1)) = n - 1
          /\ \A k \in 1..n - 1 : SubSeq(q, 1, n - 1)[k] = q[k]
      BY <1>2, <1>6
    <2> DEFINE s == SubSeq(p, 1, n - 1)  t == SubSeq(q, 1, n - 1)
    <2>3. (\A k \in 1..n - 1 : p[k] = q[k]) => s = t
      <3> SUFFICES ASSUME \A k \in 1..n - 1 : p[k] = q[k] PROVE s = t
        OBVIOUS
      <3>1. s \in Seq(Branch) /\ t \in Seq(Branch) /\ Len(s) = Len(t)
            /\ \A k \in 1..Len(s) : s[k] = t[k]
        BY <2>1, <2>2
      <3> HIDE DEF s, t
      <3> QED BY <3>1, SeqEqual
    <2>4. s = t => \A k \in 1..n - 1 : p[k] = q[k]
      <3> HIDE DEF s, t
      <3> QED BY <2>1, <2>2 DEF s, t
    <2> QED BY <2>3, <2>4
  <1>7. Before(p, q) <=> \E n \in DOMAIN p \cap DOMAIN q :
                            p[n][2] < q[n][2] /\ SubSeq(p, 1, n - 1) = SubSeq(q, 1, n - 1)
    BY <1>5 DEF Before
  <1>8. Before(p, q) <=> \E n \in DOMAIN p \cap DOMAIN q :
                            p[n][2] < q[n][2] /\ \A k \in 1..n - 1 : p[k] = q[k]
    BY <1>1, <1>2, <1>6, <1>7
  <1>9. \A n \in DOMAIN p : n \in Nat
    BY <1>1
  <1>10. Before(p, q) <=> \E n \in Nat : Differ(p, q, n)
    BY <1>8, <1>9 DEF Differ
  <1> QED BY <1>4, <1>10

\* The paths before one of P
BeforeIn(P) == [p \in P |-> {q \in P : Before(q, p)}]

\* Paths in the order of their IDs
LEMMA PathsOrdered ==
  ASSUME TreeInv, NEW P, \A p \in P : WayFrom(1, p)
  PROVE  IsOrder(P, BeforeIn(P))
  <1> DEFINE B == BeforeIn(P)
  <1>1. B \in [P -> SUBSET P] /\ \A p \in P : B[p] = {q \in P : Before(q, p)}
    BY DEF BeforeIn
  <1>2. ASSUME NEW p \in P, NEW q \in P
        PROVE  /\ Before(p, q) <=> \E n \in Nat : Differ(p, q, n)
               /\ p # q => \E n \in Nat : Differ(p, q, n) \/ Differ(q, p, n)
    BY BeforeIs
  <1>3. ASSUME NEW p \in P, NEW n \in Nat, n \in DOMAIN p PROVE n \in Nat \ {0} /\ p[n][2] \in Nat
    BY <1>3, WayBranches DEF BranchesIn
  <1>4. ASSUME NEW p \in P PROVE ~Before(p, p)
    <2> SUFFICES ASSUME NEW n \in Nat, Differ(p, p, n) PROVE FALSE
      BY <1>2
    <2> QED BY <1>3 DEF Differ
  <1>5. ASSUME NEW p \in P, NEW q \in P, NEW r \in P, Before(p, q), Before(q, r)
        PROVE  Before(p, r)
    <2>1. PICK m \in Nat : Differ(p, q, m)
      BY <1>2, <1>5
    <2>2. PICK n \in Nat : Differ(q, r, n)
      BY <1>2, <1>5
    <2>3. /\ m \in DOMAIN p /\ m \in DOMAIN q /\ p[m][2] < q[m][2]
          /\ \A k \in 1..m - 1 : p[k] = q[k]
          /\ n \in DOMAIN q /\ n \in DOMAIN r /\ q[n][2] < r[n][2]
          /\ \A k \in 1..n - 1 : q[k] = r[k]
      BY <2>1, <2>2 DEF Differ
    <2>4. m \in Nat \ {0} /\ n \in Nat \ {0} /\ p[m][2] \in Nat /\ q[m][2] \in Nat
          /\ q[n][2] \in Nat /\ r[n][2] \in Nat
      BY <1>3, <2>3
    <2>d. /\ DOMAIN p = 1..Len(p) /\ DOMAIN r = 1..Len(r) /\ Len(p) \in Nat /\ Len(r) \in Nat
      BY WayBranches DEF BranchesIn
    <2>5. CASE m < n
      <3>1. q[m] = r[m] /\ \A k \in 1..m - 1 : k \in 1..n - 1
        BY <2>3, <2>4, <2>5
      <3>2. m \in DOMAIN r
        BY <2>3, <2>4, <2>5, <2>d
      <3>3. Differ(p, r, m)
        BY <2>3, <3>1, <3>2 DEF Differ
      <3> QED BY <1>2, <3>3
    <2>6. CASE n < m
      <3>1. p[n] = q[n] /\ \A k \in 1..n - 1 : k \in 1..m - 1
        BY <2>3, <2>4, <2>6
      <3>2. n \in DOMAIN p
        BY <2>3, <2>4, <2>6, <2>d
      <3>3. Differ(p, r, n)
        BY <2>3, <3>1, <3>2 DEF Differ
      <3> QED BY <1>2, <3>3
    <2>7. CASE n = m
      <3>1. p[m][2] < r[m][2] /\ r[m][2] \in Nat
        BY <2>3, <2>4, <2>7
      <3>2. \A k \in 1..m - 1 : p[k] = r[k]
        BY <2>3, <2>7
      <3>3. Differ(p, r, m)
        BY <2>3, <2>7, <3>1, <3>2 DEF Differ
      <3> QED BY <1>2, <3>3
    <2>8. m < n \/ n < m \/ n = m
      BY <2>4
    <2> QED BY <2>5, <2>6, <2>7, <2>8
  <1>6. ASSUME NEW p \in P, NEW q \in P PROVE p = q \/ Before(p, q) \/ Before(q, p)
    BY <1>2
  <1> HIDE DEF B
  <1>7. \A p \in P : p \notin B[p]
    BY <1>1, <1>4
  <1>8. ASSUME NEW p \in P, NEW q \in P, p \in B[q] PROVE B[p] \subseteq B[q]
    BY <1>1, <1>5, <1>8
  <1>9. \A p, q \in P : p = q \/ p \in B[q] \/ q \in B[p]
    BY <1>1, <1>6
  <1> QED BY <1>1, <1>7, <1>8, <1>9 DEF IsOrder, B

\* The paths that were drawn, each once
LEMMA InOrder ==
  ASSUME TreeInv, NEW P, IsFiniteSet(P), \A p \in P : WayFrom(1, p)
  PROVE  /\ Cardinality(P) \in Nat
         /\ InOrderOfIDs(P) \in Bijection(1..Cardinality(P), P)
  <1> DEFINE N == Cardinality(P)  B == BeforeIn(P)
  <1>1. IsOrder(P, B)
    BY PathsOrdered
  <1>2. PICK f \in Bijection(1..N, P) :
          /\ f = [r \in 1..N |-> CHOOSE p \in P : Cardinality(B[p]) = r - 1]
          /\ \A q, r \in 1..N : q < r => f[q] \in B[f[r]]
          /\ \A r \in 1..N : \A p \in P : Cardinality(B[p]) = r - 1 <=> p = f[r]
    <2> HIDE DEF B
    <2> QED BY <1>1, Ranked
  <1>3. N \in Nat
    BY FS_CardinalityType
  <1>4. InOrderOfIDs(P)
          = [r \in 1..N |-> CHOOSE p \in P : Cardinality({q \in P : Before(q, p)}) = r - 1]
    BY DEF InOrderOfIDs
  <1>5. \A p \in P : B[p] = {q \in P : Before(q, p)}
    BY DEF BeforeIn
  <1> HIDE DEF N, B
  <1>6. f \in [1..N -> P]
    BY <1>2 DEF Bijection, Injection
  <1>7. \A r \in 1..N : (CHOOSE p \in P : Cardinality({q \in P : Before(q, p)}) = r - 1) = f[r]
    <2> TAKE r \in 1..N
    <2>1. f[r] \in P
      BY <1>6
    <2>2. \A p \in P : Cardinality({q \in P : Before(q, p)}) = r - 1 <=> p = f[r]
      BY <1>2, <1>5
    <2> QED BY <2>1, <2>2
  <1>8. InOrderOfIDs(P) = f
    BY <1>4, <1>6, <1>7
  <1> QED BY <1>2, <1>3, <1>8 DEF N

-----------------------------------------------------------------------------
(* Sampling *)

\* Each element as many times as said
Repeated(ps, c) == [i \in DOMAIN ps |-> [j \in 1..c[i] |-> ps[i]]]

Repeating(S, N, ps, c) ==
  /\ N \in Nat /\ ps \in [1..N -> S] /\ c \in [1..N -> Nat]
  /\ \A i, j \in 1..N : ps[i] = ps[j] => i = j

\* How many they are, all and of each
LEMMA RepeatedIs ==
  ASSUME NEW S, NEW N, NEW ps, NEW c, Repeating(S, N, ps, c)
  PROVE  /\ FlattenSeq(Repeated(ps, c)) \in Seq(S)
         /\ Len(FlattenSeq(Repeated(ps, c))) = SumOf(c)
         /\ \A i \in 1..N : Count(FlattenSeq(Repeated(ps, c)), {ps[i]}) = c[i]
         /\ \A x \in ToSet(FlattenSeq(Repeated(ps, c))) : \E i \in 1..N : x = ps[i]
  <1> DEFINE ss == Repeated(ps, c)  t == FlattenSeq(ss)
  <1>1. /\ N \in Nat /\ ps \in [1..N -> S] /\ c \in [1..N -> Nat]
        /\ \A i, j \in 1..N : ps[i] = ps[j] => i = j
    BY DEF Repeating
  <1>2. ss = [i \in 1..N |-> [j \in 1..c[i] |-> ps[i]]]
    BY <1>1 DEF Repeated
  <1> HIDE DEF ss
  <1>3. ASSUME NEW i \in 1..N
        PROVE  /\ ss[i] \in Seq(S) /\ Len(ss[i]) = c[i] /\ c[i] \in Nat /\ DOMAIN ss[i] = 1..c[i]
               /\ \A j \in 1..c[i] : ss[i][j] = ps[i]
    <2>1. c[i] \in Nat /\ ps[i] \in S /\ ss[i] = [j \in 1..c[i] |-> ps[i]]
      BY <1>1, <1>2
    <2>2. ss[i] \in [1..c[i] -> S] /\ \A j \in 1..c[i] : ss[i][j] = ps[i]
      BY <2>1
    <2>3. ss[i] \in Seq(S) /\ Len(ss[i]) = c[i]
      BY <2>1, <2>2, LenIs
    <2> QED BY <2>1, <2>2, <2>3
  <1>4. ss \in Seq(Seq(S)) /\ Len(ss) = N
    <2>1. ss \in [1..N -> Seq(S)]
      BY <1>2, <1>3
    <2> QED BY <1>1, <2>1, LenIs
  <1>5. t \in Seq(S)
    BY <1>4, FlattenElements
  <1>6. Len(t) = SumOf(c)
    <2>1. Len(t) = SumOf([n \in 1..N |-> Len(ss[n])])
      BY <1>4, FlattenLen
    <2>2. [n \in 1..N |-> Len(ss[n])] = c
      BY <1>1, <1>3
    <2> QED BY <2>1, <2>2
  <1>7. ASSUME NEW i \in 1..N PROVE Count(t, {ps[i]}) = c[i]
    <2> DEFINE u == [n \in 1..N |-> Count(ss[n], {ps[i]})]
    <2>1. Count(t, {ps[i]}) = SumOf(u) /\ u \in [1..N -> Int]
      BY <1>4, CountFlatten
    <2>2. u[i] = c[i]
      <3>1. ToSet(ss[i]) \subseteq {ps[i]}
        BY <1>3 DEF ToSet
      <3>2. Count(ss[i], {ps[i]}) = Len(ss[i])
        BY <1>3, <3>1, CountAll
      <3> QED BY <1>3, <3>2
    <2>3. \A n \in 1..N : n # i => u[n] = 0
      <3> TAKE n \in 1..N
      <3> SUFFICES ASSUME n # i PROVE u[n] = 0
        OBVIOUS
      <3>1. ps[n] # ps[i]
        BY <1>1
      <3>2. {j \in DOMAIN ss[n] : ss[n][j] \in {ps[i]}} = {}
        BY <1>3, <3>1
      <3>3. Count(ss[n], {ps[i]}) = 0
        BY <3>2, FS_EmptySet DEF Count
      <3> QED BY <3>3
    <2>4. SumOf(u) = u[i]
      <3>1. N \in Nat /\ u \in [1..N -> Int]
        BY <1>1, <2>1
      <3> HIDE DEF u
      <3> QED BY <2>3, <3>1, SumOfOne
    <2> QED BY <2>1, <2>2, <2>4
  <1>8. \A x \in ToSet(t) : \E i \in 1..N : x = ps[i]
    <2> TAKE x \in ToSet(t)
    <2>1. PICK i \in 1..N : x \in ToSet(ss[i])
      BY <1>4, FlattenElements
    <2>2. x = ps[i]
      BY <1>3, <2>1 DEF ToSet
    <2> QED BY <2>2
  <1> QED BY <1>5, <1>6, <1>7, <1>8 DEF ss, t

\* What was drawn
LEMMA DrawnPaths ==
  ASSUME TreeInv, ValuesInv, bsets # << >>, NEW n \in Nat \ {0},
         NEW drawn \in [1..n -> ToSet(enumerate_paths)]
  PROVE  /\ drawn \in Seq(Seq(Branch)) /\ Len(drawn) = n /\ DOMAIN drawn = 1..n
         /\ IsFiniteSet(ToSet(drawn)) /\ ToSet(drawn) # {} /\ ToSet(drawn) \subseteq Seq(Branch)
         /\ \A p \in ToSet(drawn) : WayFrom(1, p)
         /\ Count(drawn, ToSet(drawn)) = n
         /\ \A p \in ToSet(drawn) : Count(drawn, {p}) \in Nat \ {0}
  <1> DEFINE E == ToSet(enumerate_paths)
  <1>2. \A p \in E : WayFrom(1, p) /\ p \in Seq(Branch)
    BY AllPaths
  <1> HIDE DEF E
  <1>3. drawn \in [1..n -> E]
    BY DEF E
  <1>4. \A i \in 1..n : drawn[i] \in E /\ drawn[i] \in Seq(Branch)
    BY <1>2, <1>3
  <1>5. drawn \in Seq(Seq(Branch)) /\ Len(drawn) = n /\ DOMAIN drawn = 1..n
    <2>1. drawn \in [1..n -> Seq(Branch)]
      BY <1>3, <1>4
    <2> QED BY <2>1, LenIs
  <1>6. ToSet(drawn) = {drawn[i] : i \in 1..n}
    BY <1>5 DEF ToSet
  <1>7. IsFiniteSet(ToSet(drawn))
    <2>1. IsFiniteSet(1..n)
      BY FS_Interval
    <2>2. drawn \in Surjection(1..n, ToSet(drawn))
      <3>1. drawn \in [1..n -> ToSet(drawn)]
        BY <1>3, <1>6
      <3> QED BY <1>6, <3>1 DEF Surjection
    <2> QED BY <2>1, <2>2, FS_Surjection
  <1>8. \A p \in ToSet(drawn) : p \in E
    BY <1>4, <1>6
  <1>9. 1 \in 1..n
    OBVIOUS
  <1>10. Count(drawn, ToSet(drawn)) = n
    BY <1>5, CountAll
  <1>11. ASSUME NEW p \in ToSet(drawn) PROVE Count(drawn, {p}) \in Nat \ {0}
    <2>1. Count(drawn, {p}) \in Nat
      BY <1>5, CountType
    <2> DEFINE A == {i \in DOMAIN drawn : drawn[i] \in {p}}
    <2>2. A # {}
      BY <1>5, <1>6
    <2>3. IsFiniteSet(A)
      <3>1. IsFiniteSet(1..n) /\ A \subseteq 1..n
        BY <1>5, FS_Interval
      <3> QED BY <3>1, FS_Subset
    <2>4. Count(drawn, {p}) = Cardinality(A)
      BY DEF Count
    <2> HIDE DEF A
    <2>5. Cardinality(A) # 0
      BY <2>2, <2>3, FS_EmptySet
    <2> QED BY <2>1, <2>4, <2>5
  <1> QED BY <1>2, <1>4, <1>5, <1>6, <1>7, <1>8, <1>9, <1>10, <1>11

\* Sampling
LEMMA Sampled ==
  ASSUME TreeInv, ValuesInv, bsets # << >>, NEW n \in Nat \ {0},
         NEW gs \in [1..TRT -> 1..MaxGsims],
         NEW drawn \in [1..n -> ToSet(enumerate_paths)], NEW values \in [1..n -> ToSet(Product(gs))],
         NEW sm, NEW rz,
         sm = Effective(drawn),
         rz = [i \in 1..n |->
                [path |-> FlattenSeq([k \in DOMAIN sm |-> Repeat(sm[k].path, sm[k].samples)])[i],
                 gsim |-> values[i], weight |-> 1]]
  PROVE  Agree(gs, n, sm, rz)
  <1> DEFINE P == ToSet(drawn)  S == Seq(Branch)  N == Cardinality(P)  ips == InOrderOfIDs(P)
             c == [i \in 1..N |-> Count(drawn, {ips[i]})]  rep == FlattenSeq(Repeated(ips, c))
  <1>1. /\ drawn \in Seq(S) /\ IsFiniteSet(P) /\ P # {} /\ P \subseteq S
        /\ \A p \in P : WayFrom(1, p)
        /\ Count(drawn, P) = n
        /\ \A p \in P : Count(drawn, {p}) \in Nat \ {0}
    BY DrawnPaths
  <1>2. /\ N \in Nat /\ ips \in [1..N -> P] /\ \A i, j \in 1..N : ips[i] = ips[j] => i = j
        /\ \A p \in P : \E i \in 1..N : ips[i] = p
    <2>1. N \in Nat /\ ips \in Bijection(1..N, P)
      <3> HIDE DEF P
      <3> QED BY <1>1, InOrder
    <2> HIDE DEF N, P, ips
    <2> QED BY <2>1 DEF Bijection, Injection, Surjection, IsInjective
  <1>3. c \in [1..N -> Nat] /\ \A i \in 1..N : c[i] \in Nat \ {0} /\ c[i] = Count(drawn, {ips[i]})
    <2> HIDE DEF N, P, ips
    <2> QED BY <1>1, <1>2
  <1>4. sm = [i \in 1..N |-> [path |-> ips[i], ordinal |-> i - 1, samples |-> c[i]]]
    <2>1. DOMAIN ips = 1..N
      BY <1>2
    <2>2. Effective(drawn) = [i \in DOMAIN ips |-> [path |-> ips[i], ordinal |-> i - 1,
                                                   samples |-> Count(drawn, {ips[i]})]]
      BY DEF Effective
    <2> HIDE DEF N, P, ips, c
    <2> QED BY <1>3, <2>1, <2>2
  <1> HIDE DEF N, P, ips, c, rep
  <1>5. /\ DOMAIN sm = 1..N
        /\ \A i \in 1..N : sm[i].path = ips[i] /\ sm[i].samples = c[i]
    BY <1>4
  <1>6. Repeating(S, N, ips, c)
    <2>1. ips \in [1..N -> S]
      BY <1>1, <1>2
    <2> HIDE DEF S
    <2> QED BY <1>2, <1>3, <2>1 DEF Repeating
  <1> HIDE DEF S
  <1>7. /\ rep \in Seq(S) /\ Len(rep) = SumOf(c)
        /\ \A i \in 1..N : Count(rep, {ips[i]}) = c[i]
        /\ \A x \in ToSet(rep) : \E i \in 1..N : x = ips[i]
    BY <1>6, RepeatedIs DEF rep
  <1>8. SumOf(c) = n
    <2>1. Naming(N, P, ips) /\ drawn \in Seq(S)
      BY <1>1, <1>2 DEF Naming
    <2>2. SumOf(Counts(drawn, N, ips)) = Count(drawn, P)
      BY <2>1, CountedOneByOne
    <2>3. Counts(drawn, N, ips) = c
      BY DEF Counts, c
    <2> QED BY <1>1, <2>2, <2>3
  <1>9. DOMAIN rep = 1..n /\ Len(rep) = n
    BY <1>7, <1>8
  <1>10. FlattenSeq([k \in DOMAIN sm |-> Repeat(sm[k].path, sm[k].samples)]) = rep
    <2>1. \A k \in 1..N : Repeat(sm[k].path, sm[k].samples) = [j \in 1..c[k] |-> ips[k]]
      BY <1>5 DEF Repeat
    <2>2. DOMAIN ips = 1..N
      BY <1>2
    <2>3. [k \in DOMAIN sm |-> Repeat(sm[k].path, sm[k].samples)] = Repeated(ips, c)
      BY <1>5, <2>1, <2>2 DEF Repeated
    <2> QED BY <2>3 DEF rep
  <1>11. rz = [i \in 1..n |-> [path |-> rep[i], gsim |-> values[i], weight |-> 1]]
    BY <1>10
  <1>12. /\ DOMAIN rz = 1..n
         /\ \A k \in 1..n : rz[k].path = rep[k] /\ rz[k].gsim = values[k]
    BY <1>11
  <1>13. Len(rz) = n
    <2> DEFINE r(i) == [path |-> rep[i], gsim |-> values[i], weight |-> 1]  R == {r(i) : i \in 1..n}
    <2>1. rz = [i \in 1..n |-> r(i)]
      BY <1>11
    <2> HIDE DEF r
    <2>2. rz \in [1..n -> R] /\ n \in Nat
      BY <2>1
    <2> QED BY <2>2, LenIs
  <1>14. ASSUME NEW i \in 1..N
         PROVE  /\ WayFrom(1, sm[i].path) /\ sm[i].samples \in Nat \ {0}
                /\ Cardinality({k \in DOMAIN rz : rz[k].path = sm[i].path}) = sm[i].samples
    <2>1. ips[i] \in P /\ sm[i].path = ips[i] /\ sm[i].samples = c[i] /\ c[i] \in Nat \ {0}
      BY <1>2, <1>3, <1>5
    <2>2. {k \in DOMAIN rz : rz[k].path = sm[i].path} = {k \in DOMAIN rep : rep[k] \in {ips[i]}}
      BY <1>9, <1>12, <2>1
    <2>3. Cardinality({k \in DOMAIN rep : rep[k] \in {ips[i]}}) = c[i]
      BY <1>7 DEF Count
    <2>4. WayFrom(1, ips[i])
      BY <1>1, <2>1
    <2>5. Cardinality({k \in DOMAIN rz : rz[k].path = sm[i].path}) = sm[i].samples
      BY <2>1, <2>2, <2>3
    <2>6. WayFrom(1, sm[i].path)
      BY <2>1, <2>4
    <2> QED BY <2>1, <2>5, <2>6
  <1>15. \A i, j \in DOMAIN sm : sm[i].path = sm[j].path => i = j
    BY <1>2, <1>5
  <1>16. ASSUME NEW k \in 1..n
         PROVE  rz[k].gsim \in Values(gs, TRT) /\ \E i \in DOMAIN sm : rz[k].path = sm[i].path
    <2>1. rep[k] \in ToSet(rep)
      BY <1>9 DEF ToSet
    <2>2. PICK i \in 1..N : rep[k] = ips[i]
      BY <1>7, <2>1
    <2>3. Product(gs) \in Seq(Values(gs, TRT))
      BY ProductValues DEF Valued
    <2>4. ToSet(Product(gs)) \subseteq Values(gs, TRT)
      BY <2>3 DEF ToSet
    <2>5. values[k] \in ToSet(Product(gs))
      OBVIOUS
    <2> QED BY <1>5, <1>12, <2>2, <2>4, <2>5
  <1>17. [i \in DOMAIN sm |-> IF n > 0 THEN sm[i].samples ELSE ProductOf(gs)] = c
    <2>1. n > 0
      OBVIOUS
    <2> QED BY <1>3, <1>5, <2>1
  <1>18. \A i \in DOMAIN sm :
           /\ WayFrom(1, sm[i].path) /\ sm[i].samples \in Nat \ {0}
           /\ Cardinality({k \in DOMAIN rz : rz[k].path = sm[i].path}) = sm[i].samples
    BY <1>5, <1>14
  <1>19. \A k \in DOMAIN rz : /\ rz[k].gsim \in Values(gs, TRT)
                              /\ \E i \in DOMAIN sm : rz[k].path = sm[i].path
    BY <1>12, <1>16
  <1>20. SumOf([i \in DOMAIN sm |-> IF n > 0 THEN sm[i].samples ELSE ProductOf(gs)]) = Len(rz)
    BY <1>8, <1>13, <1>17
  <1>21. gs \in [1..TRT -> 1..MaxGsims] /\ n \in Nat /\ n # 0
    OBVIOUS
  <1> QED BY <1>12, <1>13, <1>15, <1>18, <1>19, <1>20, <1>21 DEF Agree

-----------------------------------------------------------------------------
(* The realizations, in every state *)

\* Nothing before the tree is complete, and then what agrees
RlzsInv ==
  /\ pc \in {"smlt", "full_lt", "csm", "raised"}
  /\ num_samples \in Samples \cup {0}
  /\ pc = "smlt" => gsims = << >> /\ sm_rlzs = << >> /\ rlzs = << >>
  /\ pc \in {"full_lt", "csm"} => bsets # << >> /\ Agree(gsims, num_samples, sm_rlzs, rlzs)
  /\ \/ gsims = << >> /\ sm_rlzs = << >> /\ rlzs = << >>
     \/ Agree(gsims, num_samples, sm_rlzs, rlzs)

\* The branches are not changed any more.
LEMMA AgreeStays ==
  ASSUME NEW gs, NEW ns, NEW sm, NEW rz, Agree(gs, ns, sm, rz), UNCHANGED bset,
         gsims' = gs, num_samples' = ns, sm_rlzs' = sm, rlzs' = rz
  PROVE  Agree(gsims, num_samples, sm_rlzs, rlzs)'
  <1>1. \A p : WayFrom(1, p) => WayFrom(1, p)'
    BY DEF WayFrom, Branch
  <1>2. \A i \in DOMAIN sm : WayFrom(1, sm[i].path)'
    BY <1>1 DEF Agree
  <1>3. Agree(gs, ns, sm, rz)'
    <2> HIDE DEF WayFrom
    <2> QED BY <1>2 DEF Agree, Values
  <1> QED BY <1>3

\* The realizations always agree.
LEMMA NextRlzsInv == TreeInv /\ ValuesInv /\ RlzsInv /\ [Next]_vars => RlzsInv'
  <1> SUFFICES ASSUME TreeInv, ValuesInv, RlzsInv, [Next]_vars PROVE RlzsInv'
    OBVIOUS
  <1>1. CASE Enumerate
    <2>1. PICK gs \in TupleOf(1..MaxGsims, TRT) :
            /\ gsims' = gs
            /\ sm_rlzs' = [i \in DOMAIN enumerate_paths |->
                             [path |-> enumerate_paths[i], ordinal |-> i - 1,
                              samples |-> get_num_paths(gs)]]
            /\ rlzs' = FlattenSeq([i \in DOMAIN enumerate_paths |->
                         [k \in DOMAIN Product(gs) |->
                            [path |-> enumerate_paths[i], gsim |-> Product(gs)[k],
                             weight |-> PathWeight(enumerate_paths[i]) * GsimWeight(gs, Product(gs)[k])]]])
      BY <1>1 DEF Enumerate
    <2>2. gs \in [1..TRT -> 1..MaxGsims]
      BY DEF TupleOf
    <2>3. /\ bsets # << >> /\ UNCHANGED <<bset, bsets>> /\ num_samples' = 0 /\ pc' = "full_lt"
      BY <1>1 DEF Enumerate
    <2>4. PICK sm : sm = sm_rlzs'
      OBVIOUS
    <2>5. PICK rz : rz = rlzs'
      OBVIOUS
    <2>6. Agree(gs, 0, sm, rz)
      BY <2>1, <2>2, <2>3, <2>4, <2>5, Enumerated
    <2>7. Agree(gsims, num_samples, sm_rlzs, rlzs)'
      BY <2>1, <2>3, <2>4, <2>5, <2>6, AgreeStays
    <2> QED BY <2>3, <2>7 DEF RlzsInv
  <1>2. CASE Sample
    <2>1. PICK n \in Samples \ {0} : \E gs \in TupleOf(1..MaxGsims, TRT) :
          \E drawn \in TupleOf(ToSet(enumerate_paths), n) :
          \E values \in TupleOf(ToSet(Product(gs)), n) :
            /\ num_samples' = n /\ gsims' = gs /\ sm_rlzs' = Effective(drawn)
            /\ rlzs' = [i \in 1..n |->
                 [path |-> FlattenSeq([k \in DOMAIN Effective(drawn) |->
                             Repeat(Effective(drawn)[k].path, Effective(drawn)[k].samples)])[i],
                  gsim |-> values[i], weight |-> 1]]
      BY <1>2 DEF Sample
    <2>2. PICK gs \in TupleOf(1..MaxGsims, TRT) :
          \E drawn \in TupleOf(ToSet(enumerate_paths), n) :
          \E values \in TupleOf(ToSet(Product(gs)), n) :
            /\ num_samples' = n /\ gsims' = gs /\ sm_rlzs' = Effective(drawn)
            /\ rlzs' = [i \in 1..n |->
                 [path |-> FlattenSeq([k \in DOMAIN Effective(drawn) |->
                             Repeat(Effective(drawn)[k].path, Effective(drawn)[k].samples)])[i],
                  gsim |-> values[i], weight |-> 1]]
      BY <2>1
    <2>3. PICK drawn \in TupleOf(ToSet(enumerate_paths), n) :
          \E values \in TupleOf(ToSet(Product(gs)), n) :
            /\ num_samples' = n /\ gsims' = gs /\ sm_rlzs' = Effective(drawn)
            /\ rlzs' = [i \in 1..n |->
                 [path |-> FlattenSeq([k \in DOMAIN Effective(drawn) |->
                             Repeat(Effective(drawn)[k].path, Effective(drawn)[k].samples)])[i],
                  gsim |-> values[i], weight |-> 1]]
      BY <2>2
    <2>4. PICK values \in TupleOf(ToSet(Product(gs)), n) :
            /\ num_samples' = n /\ gsims' = gs /\ sm_rlzs' = Effective(drawn)
            /\ rlzs' = [i \in 1..n |->
                 [path |-> FlattenSeq([k \in DOMAIN Effective(drawn) |->
                             Repeat(Effective(drawn)[k].path, Effective(drawn)[k].samples)])[i],
                  gsim |-> values[i], weight |-> 1]]
      BY <2>3
    <2>5. /\ n \in Nat \ {0} /\ gs \in [1..TRT -> 1..MaxGsims]
          /\ drawn \in [1..n -> ToSet(enumerate_paths)] /\ values \in [1..n -> ToSet(Product(gs))]
      BY LogicTreeAssumption DEF TupleOf
    <2>6. bsets # << >> /\ UNCHANGED <<bset, bsets>> /\ pc' = "full_lt"
      BY <1>2 DEF Sample
    <2>7. PICK sm : sm = Effective(drawn)
      OBVIOUS
    <2>8. PICK rz : rz = [i \in 1..n |->
             [path |-> FlattenSeq([k \in DOMAIN sm |-> Repeat(sm[k].path, sm[k].samples)])[i],
              gsim |-> values[i], weight |-> 1]]
      OBVIOUS
    <2>9. Agree(gs, n, sm, rz)
      BY <2>5, <2>6, <2>7, <2>8, Sampled
    <2>10. rlzs' = rz
      BY <2>4, <2>7, <2>8
    <2>11. Agree(gsims, num_samples, sm_rlzs, rlzs)'
      BY <2>4, <2>6, <2>7, <2>9, <2>10, AgreeStays
    <2> QED BY <2>4, <2>6, <2>11 DEF RlzsInv
  <1>3. CASE UNCHANGED <<gsims, num_samples, sm_rlzs, rlzs, bset, bsets>>
             /\ pc' \in {pc, "raised"} \cup (IF pc = "full_lt" THEN {"csm"} ELSE {})
    <2>1. Agree(gsims, num_samples, sm_rlzs, rlzs) => Agree(gsims, num_samples, sm_rlzs, rlzs)'
      <3> SUFFICES ASSUME Agree(gsims, num_samples, sm_rlzs, rlzs)
                   PROVE  Agree(gsims, num_samples, sm_rlzs, rlzs)'
        OBVIOUS
      <3>1. PICK gs, ns, sm, rz : gs = gsims /\ ns = num_samples /\ sm = sm_rlzs /\ rz = rlzs
        OBVIOUS
      <3>2. Agree(gs, ns, sm, rz)
        BY <3>1
      <3> QED BY <1>3, <3>1, <3>2, AgreeStays
    <2> QED BY <1>3, <2>1 DEF RlzsInv
  <1>4. CASE pc = "smlt" /\ pc' \in {pc, "raised"} /\ UNCHANGED <<gsims, num_samples, sm_rlzs, rlzs>>
    BY <1>4 DEF RlzsInv
  <1>5. ParseSourceModels \/ ParseBranchset
          => pc = "smlt" /\ pc' \in {pc, "raised"} /\ UNCHANGED <<gsims, num_samples, sm_rlzs, rlzs>>
    BY DEF ParseSourceModels, ParseBranchset
  <1>6. GetCsm \/ UNCHANGED vars
          => UNCHANGED <<gsims, num_samples, sm_rlzs, rlzs, bset, bsets>>
             /\ pc' \in {pc, "raised"} \cup (IF pc = "full_lt" THEN {"csm"} ELSE {})
    BY DEF GetCsm, vars, lt
  <1> QED BY <1>1, <1>2, <1>3, <1>4, <1>5, <1>6 DEF Next, NextTree

\* The realizations agree in every state.
LEMMA RlzsInvariant == Spec => []RlzsInv
  <1>1. Init => RlzsInv
    BY DEF Init, TreeInit, RlzsInv
  <1> QED BY <1>1, TreeInvariant, ValuesInvariant, NextRlzsInv, PTL DEF Spec

-----------------------------------------------------------------------------
(* The groups of sources *)

\* A sequence of sequences, of whatever they are
LEMMA SeqOfSeqs ==
  ASSUME NEW L \in Nat, NEW ss, DOMAIN ss = 1..L, ss = [i \in 1..L |-> ss[i]],
         NEW S, \A i \in 1..L : ss[i] \in Seq(S)
  PROVE  ss \in Seq(Seq(S)) /\ Len(ss) = L
  <1>1. ss \in [1..L -> Seq(S)]
    OBVIOUS
  <1> QED BY <1>1, LenIs

\* The groups of a file
GroupType == [trt : 1..TRT, atomic : BOOLEAN, sources : Seq(Source)]

\* The groups of files are those of each, one after another.
LEMMA GroupsType ==
  ASSUME NEW files \in Seq(DOMAIN File)
  PROVE  Groups(files) \in Seq(GroupType)
  <1> DEFINE L == Len(files)  ss == [n \in DOMAIN files |-> File[files[n]]]
  <1>1. L \in Nat /\ DOMAIN files = 1..L /\ \A n \in 1..L : files[n] \in DOMAIN File
    OBVIOUS
  <1> HIDE DEF L
  <1>2. \A n \in 1..L : File[files[n]] \in Seq(GroupType)
    BY <1>1, LogicTreeAssumption DEF GroupType
  <1>3. DOMAIN ss = 1..L /\ ss = [n \in 1..L |-> ss[n]] /\ \A n \in 1..L : ss[n] \in Seq(GroupType)
    BY <1>1, <1>2
  <1>4. Groups(files) = FlattenSeq(ss)
    BY DEF Groups
  <1> HIDE DEF ss
  <1>5. ss \in Seq(Seq(GroupType))
    BY <1>1, <1>3, SeqOfSeqs
  <1> QED BY <1>4, <1>5, FlattenElements

\* The files of a path are those of a source model and of an extension, if any.
LEMMA FilesOfPath ==
  ASSUME TreeInv, ValuesInv, NEW p, WayFrom(1, p)
  PROVE  ValueOf(p[1]) \in SourceModels /\ Extension(p) \in Extensions \cup {<< >>}
  <1>1. /\ Len(p) \in Nat \ {0} /\ \A n \in 1..Len(p) : p[n] \in Branch
        /\ p[1][1] = 1
    <2>1. BranchesIn(p)
      BY WayBranches
    <2>2. 1 \in 1..Len(p)
      BY <2>1 DEF BranchesIn
    <2> QED BY <2>1, <2>2 DEF BranchesIn
  <1>2. \A br \in Branch : /\ br[1] \in 1..Len(bsets) /\ br[2] \in 1..Len(bsets[br[1]].values)
                           /\ br[2] \in DOMAIN bsets[br[1]].values
    <2> TAKE br \in Branch
    <2>1. PICK b \in 1..Len(bsets) : \E n \in 1..Len(bsets[b].values) : br = <<b, n>>
      BY DEF TreeInv, Branch
    <2>2. PICK n \in 1..Len(bsets[b].values) : br = <<b, n>>
      BY <2>1
    <2>3. DOMAIN bsets[b].values = 1..Len(bsets[b].values)
      BY ValuesOf
    <2> QED BY <2>2, <2>3
  <1>3. ValueOf(p[1]) \in SourceModels
    <2>1. p[1] \in Branch
      BY <1>1
    <2>2. 1 \in 1..Len(bsets) /\ p[1][2] \in DOMAIN bsets[1].values
      BY <1>1, <1>2, <2>1
    <2>3. bsets[1].values \in Seq(SourceModels)
      BY <2>2 DEF ValuesInv
    <2>4. bsets[1].values[p[1][2]] \in SourceModels
      BY <2>2, <2>3
    <2> QED BY <1>1, <2>4 DEF ValueOf
  <1>4. Extension(p) \in Extensions \cup {<< >>}
    <2>1. CASE Len(p) > 1 /\ bsets[p[2][1]].extend
      <3>1. 2 \in 1..Len(p)
        BY <1>1, <2>1
      <3>2. p[2] \in Branch
        BY <1>1, <3>1
      <3>3. p[2][1] \in 1..Len(bsets) /\ p[2][2] \in DOMAIN bsets[p[2][1]].values
        BY <1>2, <3>2
      <3>4. bsets[p[2][1]].values \in Seq(Extensions)
        BY <2>1, <3>3 DEF ValuesInv
      <3>5. ValueOf(p[2]) \in Extensions
        BY <3>3, <3>4 DEF ValueOf
      <3> QED BY <2>1, <3>5 DEF Extension
    <2>2. CASE ~(Len(p) > 1 /\ bsets[p[2][1]].extend)
      BY <2>2 DEF Extension
    <2> QED BY <2>1, <2>2
  <1> QED BY <1>3, <1>4

\* They are sequences.
LEMMA FilesType ==
  ASSUME TreeInv, ValuesInv, NEW p, WayFrom(1, p)
  PROVE  /\ ValueOf(p[1]) \in Seq(DOMAIN File) /\ Extension(p) \in Seq(DOMAIN File)
         /\ ValueOf(p[1]) \o Extension(p) \in Seq(DOMAIN File)
  <1>1. ValueOf(p[1]) \in SourceModels /\ Extension(p) \in Extensions \cup {<< >>}
    BY FilesOfPath
  <1>2. ValueOf(p[1]) \in Seq(DOMAIN File)
    BY <1>1, LogicTreeAssumption
  <1>3. Extension(p) \in Seq(DOMAIN File)
    <2>1. << >> \in Seq(DOMAIN File)
      OBVIOUS
    <2> QED BY <1>1, <2>1, LogicTreeAssumption
  <1> HIDE DEF ValueOf, Extension
  <1> QED BY <1>2, <1>3

\* The groups of the files of an effective realization
ModelGroups(sm) == Groups(ValueOf(sm.path[1]) \o Extension(sm.path))

\* What _build_groups makes of a source
Made(sm, t, s) ==
  [id |-> s.id, content |-> apply_uncertainties(s, Uncertainties(sm.path)),
   et_ids |-> <<get_et_id(t, sm.ordinal)>>,
   samples |-> IF sm.samples > 1 THEN sm.samples ELSE 1]

\* _build_groups makes a group of each group of the files.
LEMMA BuiltGroups ==
  ASSUME TreeInv, ValuesInv, NEW sm, WayFrom(1, sm.path)
  PROVE  /\ ModelGroups(sm) \in Seq(GroupType)
         /\ Len(ModelGroups(sm)) \in Nat /\ DOMAIN ModelGroups(sm) = 1..Len(ModelGroups(sm))
         /\ DOMAIN _build_groups(sm) = 1..Len(ModelGroups(sm))
         /\ _build_groups(sm) = [n \in DOMAIN _build_groups(sm) |-> _build_groups(sm)[n]]
         /\ \A n \in 1..Len(ModelGroups(sm)) :
              /\ ModelGroups(sm)[n].trt \in 1..TRT /\ ModelGroups(sm)[n].sources \in Seq(Source)
              /\ Len(ModelGroups(sm)[n].sources) \in Nat
              /\ _build_groups(sm)[n].trt = ModelGroups(sm)[n].trt
              /\ _build_groups(sm)[n].atomic = ModelGroups(sm)[n].atomic
              /\ _build_groups(sm)[n].sources
                   = [k \in 1..Len(ModelGroups(sm)[n].sources) |->
                        Made(sm, ModelGroups(sm)[n].trt, ModelGroups(sm)[n].sources[k])]
  <1> DEFINE groups == ModelGroups(sm)  built == _build_groups(sm)
             srcs(n) == [k \in DOMAIN groups[n].sources |->
                           Made(sm, groups[n].trt, groups[n].sources[k])]
  <1>1. groups \in Seq(GroupType)
    BY FilesType, GroupsType DEF ModelGroups
  <1>2. built = [n \in DOMAIN groups |->
                   [trt |-> groups[n].trt, atomic |-> groups[n].atomic, sources |-> srcs(n)]]
    BY DEF _build_groups, Made, ModelGroups
  <1> HIDE DEF groups, built, srcs
  <1>3. DOMAIN groups = 1..Len(groups) /\ Len(groups) \in Nat /\ DOMAIN built = 1..Len(groups)
        /\ built = [n \in DOMAIN built |-> built[n]]
    BY <1>1, <1>2
  <1>4. ASSUME NEW n \in 1..Len(groups)
        PROVE  /\ groups[n].trt \in 1..TRT /\ groups[n].sources \in Seq(Source)
               /\ Len(groups[n].sources) \in Nat
               /\ built[n].trt = groups[n].trt /\ built[n].atomic = groups[n].atomic
               /\ built[n].sources = [k \in 1..Len(groups[n].sources) |->
                                        Made(sm, groups[n].trt, groups[n].sources[k])]
    <2>1. groups[n] \in GroupType
      BY <1>1
    <2>2. groups[n].trt \in 1..TRT /\ groups[n].sources \in Seq(Source)
      BY <2>1 DEF GroupType
    <2>3. DOMAIN groups[n].sources = 1..Len(groups[n].sources) /\ Len(groups[n].sources) \in Nat
      BY <2>2
    <2>4. /\ built[n].trt = groups[n].trt /\ built[n].atomic = groups[n].atomic
          /\ built[n].sources = srcs(n)
      BY <1>2, <1>3
    <2> QED BY <2>2, <2>3, <2>4 DEF srcs
  <1> QED BY <1>1, <1>3, <1>4 DEF built, groups

\* The groups of all the effective realizations
Built(L) == UNION {{_build_groups(sm_rlzs[i])[n] : n \in 1..Len(ModelGroups(sm_rlzs[i]))} : i \in 1..L}

\* _get_csm is given the groups of each effective realization, one after another.
LEMMA AllGroupsAre ==
  ASSUME TreeInv, ValuesInv, NEW L \in Nat, DOMAIN sm_rlzs = 1..L,
         \A i \in 1..L : WayFrom(1, sm_rlzs[i].path)
  PROVE  /\ [i \in 1..L |-> _build_groups(sm_rlzs[i])] \in Seq(Seq(Built(L)))
         /\ Len([i \in 1..L |-> _build_groups(sm_rlzs[i])]) = L
         /\ AllGroups = FlattenSeq([i \in 1..L |-> _build_groups(sm_rlzs[i])])
         /\ AllGroups \in Seq(Built(L))
         /\ \A g \in ToSet(AllGroups) :
              \E i \in 1..L : \E n \in 1..Len(ModelGroups(sm_rlzs[i])) :
                g = _build_groups(sm_rlzs[i])[n]
         /\ \A i \in 1..L : \A n \in 1..Len(ModelGroups(sm_rlzs[i])) :
              _build_groups(sm_rlzs[i])[n] \in ToSet(AllGroups)
  <1> DEFINE b(i) == _build_groups(sm_rlzs[i])  N(i) == Len(ModelGroups(sm_rlzs[i]))
             S == UNION {{b(i)[n] : n \in 1..N(i)} : i \in 1..L}
             ss == [i \in 1..L |-> b(i)]
  <1>1. AllGroups = FlattenSeq(ss)
    BY DEF AllGroups
  <1>2. ASSUME NEW i \in 1..L
        PROVE  N(i) \in Nat /\ DOMAIN b(i) = 1..N(i) /\ b(i) = [n \in 1..N(i) |-> b(i)[n]]
    <2>1. WayFrom(1, sm_rlzs[i].path)
      OBVIOUS
    <2>2. DOMAIN b(i) = 1..N(i) /\ b(i) = [n \in DOMAIN b(i) |-> b(i)[n]] /\ N(i) \in Nat
      BY <2>1, BuiltGroups
    <2> HIDE DEF b, N
    <2> QED BY <2>2
  <1> HIDE DEF b, N
  <1>3. ASSUME NEW i \in 1..L PROVE ss[i] = b(i) /\ b(i) \in Seq(S)
    <2>1. \A n \in 1..N(i) : b(i)[n] \in S
      OBVIOUS
    <2> HIDE DEF S
    <2>2. b(i) \in [1..N(i) -> S]
      BY <1>2, <2>1
    <2>3. N(i) \in Nat
      BY <1>2
    <2>4. b(i) \in Seq(S)
      BY <2>2, <2>3, LenIs
    <2> QED BY <2>4
  <1> HIDE DEF S
  <1>4. ss \in Seq(Seq(S)) /\ Len(ss) = L
    <2>1. ss \in [1..L -> Seq(S)]
      BY <1>3
    <2> HIDE DEF ss
    <2> QED BY <2>1, LenIs
  <1>5. AllGroups \in Seq(S)
        /\ \A g : g \in ToSet(AllGroups) <=> \E i \in 1..L : g \in ToSet(ss[i])
    <2> HIDE DEF ss
    <2> QED BY <1>1, <1>4, FlattenElements
  <1>6. \A i \in 1..L : \A g : g \in ToSet(ss[i]) <=> \E n \in 1..N(i) : g = b(i)[n]
    BY <1>2, <1>3 DEF ToSet
  <1>7. \A g \in ToSet(AllGroups) : \E i \in 1..L : \E n \in 1..N(i) : g = b(i)[n]
    BY <1>5, <1>6
  <1>8. \A i \in 1..L : \A n \in 1..N(i) : b(i)[n] \in ToSet(AllGroups)
    BY <1>5, <1>6
  <1>9. ss \in Seq(Seq(S)) /\ Len(ss) = L /\ AllGroups = FlattenSeq(ss)
        /\ AllGroups \in Seq(S)
    BY <1>1, <1>4, <1>5
  <1> QED BY <1>7, <1>8, <1>9 DEF b, N, S, Built

-----------------------------------------------------------------------------
(* What the realizations are *)

\* The groups of the composite source model
GroupsInv == \A g \in csm : g.trt \in 1..TRT /\ g.sources # {}

\* No group that _get_csm returns is empty.
LEMMA NoEmptyGroup ==
  ASSUME TreeInv, ValuesInv, RlzInv, RlzsInv, pc = "full_lt",
         NEW g \in _get_csm(AllGroups)
  PROVE  g.trt \in 1..TRT /\ g.sources # {}
  <1>1. CASE \E t \in 1..TRT : g \in Regroup(AllGroups, t)
    <2>1. PICK t \in 1..TRT : g \in Regroup(AllGroups, t)
      BY <1>1
    <2>2. PICK reduced : \E e \in {s.et_ids : s \in reduced} :
            g = [trt |-> t, sources |-> {s \in reduced : s.et_ids = e}]
      BY <2>1 DEF Regroup
    <2>3. PICK x \in reduced : g = [trt |-> t, sources |-> {s \in reduced : s.et_ids = x.et_ids}]
      BY <2>2
    <2> QED BY <2>3
  <1>2. CASE g \in {[trt |-> h.trt, sources |-> ToSet(h.sources)] :
                      h \in {h \in ToSet(AllGroups) : h.atomic /\ h.sources # << >>}}
    <2>1. PICK h \in ToSet(AllGroups) :
            h.sources # << >> /\ g = [trt |-> h.trt, sources |-> ToSet(h.sources)]
      BY <1>2
    <2>2. PICK n \in Nat : DOMAIN sm_rlzs = 1..n
      BY DEF RlzInv
    <2>3. \A i \in 1..n : WayFrom(1, sm_rlzs[i].path)
      BY <2>2 DEF RlzsInv, Agree
    <2>4. \E i \in 1..n : \E k \in 1..Len(ModelGroups(sm_rlzs[i])) :
            h = _build_groups(sm_rlzs[i])[k]
      BY <2>1, <2>2, <2>3, AllGroupsAre
    <2>5. PICK i \in 1..n : \E k \in 1..Len(ModelGroups(sm_rlzs[i])) :
            h = _build_groups(sm_rlzs[i])[k]
      BY <2>4
    <2> DEFINE sm == sm_rlzs[i]
    <2>6. PICK k \in 1..Len(ModelGroups(sm)) : h = _build_groups(sm)[k]
      BY <2>5
    <2>7. WayFrom(1, sm.path)
      BY <2>3
    <2> HIDE DEF sm
    <2>8. /\ h.trt = ModelGroups(sm)[k].trt /\ ModelGroups(sm)[k].trt \in 1..TRT
          /\ Len(ModelGroups(sm)[k].sources) \in Nat
          /\ h.sources = [m \in 1..Len(ModelGroups(sm)[k].sources) |->
                            Made(sm, ModelGroups(sm)[k].trt, ModelGroups(sm)[k].sources[m])]
      BY <2>6, <2>7, BuiltGroups
    <2>9. DOMAIN h.sources # {}
      <3>1. h.sources = << >> \/ Len(ModelGroups(sm)[k].sources) # 0
        BY <2>8
      <3> QED BY <2>1, <2>8, <3>1
    <2>10. ToSet(h.sources) # {}
      BY <2>9 DEF ToSet
    <2> QED BY <2>1, <2>8, <2>10
  <1> QED BY <1>1, <1>2 DEF _get_csm

\* _get_csm keeps what the groups are.
LEMMA NextGroupsInv ==
  TreeInv /\ ValuesInv /\ RlzInv /\ RlzsInv /\ GroupsInv /\ [Next]_vars => GroupsInv'
  <1> SUFFICES ASSUME TreeInv, ValuesInv, RlzInv, RlzsInv, GroupsInv, [Next]_vars
               PROVE  GroupsInv'
    OBVIOUS
  <1>1. CASE csm' = csm
    BY <1>1 DEF GroupsInv
  <1>2. CASE GetCsm
    <2>1. CASE csm' = _get_csm(AllGroups)
      <3>1. pc = "full_lt"
        BY <1>2 DEF GetCsm
      <3>2. \A g \in csm' : g.trt \in 1..TRT /\ g.sources # {}
        BY <2>1, <3>1, NoEmptyGroup
      <3> QED BY <3>2 DEF GroupsInv
    <2> QED BY <1>1, <1>2, <2>1 DEF GetCsm
  <1> QED BY <1>1, <1>2 DEF Next, vars

\* No group is empty in any state.
LEMMA GroupsInvariant == Spec => []GroupsInv
  <1>1. Init => GroupsInv
    BY DEF Init, GroupsInv
  <1> QED BY <1>1, TreeInvariant, ValuesInvariant, RealizationsAreNumbered, RlzsInvariant,
             NextGroupsInv, PTL DEF Spec

\* The types of the variables
LEMMA Typed == TreeInv /\ RlzsInv /\ GroupsInv => TypeOK
  <1> SUFFICES ASSUME TreeInv, RlzsInv, GroupsInv PROVE TypeOK
    OBVIOUS
  <1>1. DOMAIN bset = UNION {BranchesOf(b, Len(bsets[b].values)) : b \in DOMAIN bsets}
    <2>1. DOMAIN bsets = 1..Len(bsets)
      BY DEF TreeInv
    <2>2. \A br : br \in DOMAIN bset <=>
            \E b \in DOMAIN bsets : br \in BranchesOf(b, Len(bsets[b].values))
      BY <2>1 DEF TreeInv, BranchesOf
    <2> QED BY <2>2
  <1>2. \A br \in DOMAIN bset : bset[br] \in {0} \cup br[1] + 1..Len(bsets)
    BY DEF TreeInv
  <1>3. gsims # << >> => gsims \in TupleOf(1..MaxGsims, TRT)
    BY DEF RlzsInv, Agree, TupleOf
  <1>4. \A i \in DOMAIN sm_rlzs : IsPath(sm_rlzs[i].path) /\ sm_rlzs[i].samples > 0
    <2> SUFFICES ASSUME NEW i \in DOMAIN sm_rlzs
                 PROVE  IsPath(sm_rlzs[i].path) /\ sm_rlzs[i].samples > 0
      OBVIOUS
    <2>1. sm_rlzs # << >>
      OBVIOUS
    <2>2. WayFrom(1, sm_rlzs[i].path) /\ sm_rlzs[i].samples \in Nat \ {0}
      BY <2>1 DEF RlzsInv, Agree
    <2> QED BY <2>2 DEF WayFrom, IsPath, Last
  <1> QED BY <1>1, <1>2, <1>3, <1>4 DEF TypeOK, RlzsInv, GroupsInv

\* The numbers of the realizations
LEMMA Numbers ==
  ASSUME TreeInv, RlzInv, Agree(gsims, num_samples, sm_rlzs, rlzs)
  PROVE  /\ get_num_rlzs = Len(rlzs)
         /\ \A i \in DOMAIN sm_rlzs : get_eri_by_ltp(sm_rlzs[i].path) = i - 1
  <1>1. get_num_rlzs = Len(rlzs)
    BY DEF Agree, get_num_rlzs, get_num_paths
  <1>2. ASSUME NEW i \in DOMAIN sm_rlzs PROVE get_eri_by_ltp(sm_rlzs[i].path) = i - 1
    <2>1. PICK n \in Nat : DOMAIN sm_rlzs = 1..n
      BY DEF RlzInv
    <2>2. i - 1 \in Nat
      BY <2>1
    <2>3. {j - 1 : j \in {j \in DOMAIN sm_rlzs : sm_rlzs[j].path = sm_rlzs[i].path}} = {i - 1}
      <3>1. \A j \in DOMAIN sm_rlzs : sm_rlzs[j].path = sm_rlzs[i].path => j = i
        BY DEF Agree
      <3> QED BY <3>1
    <2>4. Max({i - 1}) = i - 1
      <3>1. {i - 1} \in SUBSET Nat /\ {i - 1} # {} /\ \A m \in {i - 1} : m <= i - 1
        BY <2>2
      <3>2. Max({i - 1}) \in {i - 1}
        BY <2>2, <3>1, MaxOf
      <3> QED BY <3>2
    <2> QED BY <2>3, <2>4 DEF get_eri_by_ltp
  <1> QED BY <1>1, <1>2

\* The realizations are those the effective realizations announce, as many for each
\* path as its samples, and the weights sum to one: for any tree, any branches of the
\* GSIM logic tree and any number of samples.
THEOREM RealizationsAlwaysAgree == Spec => []RealizationsAgree
  <1>1. TreeInv /\ ValuesInv /\ RlzInv /\ RlzsInv /\ GroupsInv => RealizationsAgree
    <2> SUFFICES ASSUME TreeInv, ValuesInv, RlzInv, RlzsInv, GroupsInv
                 PROVE  RealizationsAgree
      OBVIOUS
    <2>1. TypeOK /\ PathsWeighOne
      BY Typed, WeighOne
    <2>2. CASE rlzs # << >>
      <3>1. Agree(gsims, num_samples, sm_rlzs, rlzs)
        BY <2>2 DEF RlzsInv
      <3>2. /\ get_num_rlzs = Len(rlzs)
            /\ \A i \in DOMAIN sm_rlzs : get_eri_by_ltp(sm_rlzs[i].path) = i - 1
        BY <3>1, Numbers
      <3>3. /\ \A i \in DOMAIN sm_rlzs :
                 Cardinality({k \in DOMAIN rlzs : rlzs[k].path = sm_rlzs[i].path})
                   = sm_rlzs[i].samples
            /\ num_samples = 0 =>
                 /\ IsInjective(rlzs)
                 /\ SumOf([k \in DOMAIN rlzs |-> rlzs[k].weight]) = One(MaxLevels) * One(TRT)
        BY <3>1 DEF Agree
      <3> QED BY <2>1, <3>2, <3>3 DEF RealizationsAgree
    <2> QED BY <2>1, <2>2 DEF RealizationsAgree
  <1> QED BY <1>1, TreeInvariant, ValuesInvariant, RealizationsAreNumbered, RlzsInvariant,
             GroupsInvariant, PTL

-----------------------------------------------------------------------------
(* The sources of the realizations *)

\* The groups of two lists of files are those of one and those of the other.
LEMMA GroupsOfBoth ==
  ASSUME NEW a \in Seq(DOMAIN File), NEW b \in Seq(DOMAIN File)
  PROVE  /\ Groups(a) \in Seq(GroupType) /\ Groups(b) \in Seq(GroupType)
         /\ Groups(a \o b) = Groups(a) \o Groups(b)
  <1> DEFINE G(c) == [n \in 1..Len(c) |-> File[c[n]]]
  <1>1. ASSUME NEW c \in Seq(DOMAIN File)
        PROVE  /\ Groups(c) = FlattenSeq(G(c)) /\ G(c) \in Seq(Seq(GroupType)) /\ Len(G(c)) = Len(c)
               /\ \A n \in 1..Len(c) : G(c)[n] = File[c[n]]
    <2>1. Len(c) \in Nat /\ DOMAIN c = 1..Len(c) /\ \A n \in 1..Len(c) : c[n] \in DOMAIN File
      OBVIOUS
    <2>2. \A n \in 1..Len(c) : File[c[n]] \in Seq(GroupType)
      BY <2>1, LogicTreeAssumption DEF GroupType
    <2>3. G(c) \in [1..Len(c) -> Seq(GroupType)]
      BY <2>2
    <2>4. Groups(c) = FlattenSeq(G(c))
      BY <2>1 DEF Groups
    <2>5. \A n \in 1..Len(c) : G(c)[n] = File[c[n]]
      OBVIOUS
    <2> HIDE DEF G
    <2> QED BY <2>1, <2>3, <2>4, <2>5, LenIs
  <1>2. a \o b \in Seq(DOMAIN File)
    OBVIOUS
  <1> HIDE DEF G
  <1>3. G(a \o b) = G(a) \o G(b)
    <2>1. /\ Len(a) \in Nat /\ Len(b) \in Nat /\ Len(a \o b) = Len(a) + Len(b)
          /\ \A n \in 1..Len(a) : (a \o b)[n] = a[n] /\ n \in 1..Len(a \o b)
          /\ \A n \in 1..Len(b) : (a \o b)[Len(a) + n] = b[n] /\ Len(a) + n \in 1..Len(a \o b)
      OBVIOUS
    <2> DEFINE c == a \o b  x == G(c)  y == G(a)  z == G(b)
    <2>2. /\ x \in Seq(Seq(GroupType)) /\ Len(x) = Len(c) /\ \A n \in 1..Len(c) : x[n] = File[c[n]]
          /\ y \in Seq(Seq(GroupType)) /\ Len(y) = Len(a) /\ \A n \in 1..Len(a) : y[n] = File[a[n]]
          /\ z \in Seq(Seq(GroupType)) /\ Len(z) = Len(b) /\ \A n \in 1..Len(b) : z[n] = File[b[n]]
      BY <1>1, <1>2
    <2> HIDE DEF c, x, y, z
    <2>3. ASSUME NEW n \in 1..Len(a) PROVE x[n] = y[n]
      BY <2>1, <2>2 DEF c
    <2>4. ASSUME NEW n \in 1..Len(b) PROVE x[Len(a) + n] = z[n]
      BY <2>1, <2>2 DEF c
    <2>5. Len(x) = Len(y) + Len(z)
      BY <2>1, <2>2 DEF c
    <2>6. x = y \o z
      <3> DEFINE w == y \o z  T == Seq(GroupType)
      <3>1. y \in Seq(T) /\ z \in Seq(T) /\ x \in Seq(T)
        BY <2>2
      <3> HIDE DEF T
      <3>2. /\ Len(w) = Len(y) + Len(z) /\ w \in Seq(T)
            /\ \A n \in 1..Len(y) : w[n] = y[n]
            /\ \A n \in 1..Len(z) : w[Len(y) + n] = z[n]
        BY <3>1
      <3> HIDE DEF w
      <3>3. ASSUME NEW n \in 1..Len(x) PROVE x[n] = w[n]
        <4>0. n \in Nat /\ n >= 1 /\ Len(a) \in Nat /\ Len(b) \in Nat
              /\ Len(y) = Len(a) /\ Len(z) = Len(b) /\ n <= Len(a) + Len(b)
          <5>1. /\ Len(y) = Len(a) /\ Len(z) = Len(b) /\ Len(a) \in Nat /\ Len(b) \in Nat
                /\ Len(x) = Len(a) + Len(b)
            BY <2>1, <2>2, <2>5
          <5> QED BY <5>1
        <4>1. CASE n <= Len(a)
          <5>1. n \in 1..Len(a) /\ n \in 1..Len(y)
            BY <4>0, <4>1
          <5>2. x[n] = y[n]
            BY <2>3, <5>1
          <5>3. w[n] = y[n]
            BY <3>2, <5>1
          <5> QED BY <5>2, <5>3
        <4>2. CASE ~(n <= Len(a))
          <5>a. PICK l \in Nat : l = Len(a)
            BY <4>0
          <5>b. n - l \in Nat
            BY <4>0, <4>2, <5>a
          <5>1. PICK k \in Nat : k = n - l
            BY <5>b
          <5>2. k \in 1..Len(b) /\ n = Len(a) + k
            BY <4>0, <4>2, <5>a, <5>1
          <5>3. x[Len(a) + k] = z[k]
            BY <2>4, <5>2
          <5>4. w[Len(y) + k] = z[k]
            BY <3>2, <4>0, <5>2
          <5> QED BY <4>0, <5>2, <5>3, <5>4
        <4> QED BY <4>1, <4>2
      <3>4. Len(x) = Len(w)
        BY <2>5, <3>2
      <3>5. x = w
        BY <3>1, <3>2, <3>3, <3>4, SeqEqual
      <3> QED BY <3>5 DEF w
    <2> QED BY <2>6 DEF x, y, z, c
  <1>4. FlattenSeq(G(a) \o G(b)) = FlattenSeq(G(a)) \o FlattenSeq(G(b))
    BY <1>1, FlattenConcat
  <1> QED BY <1>1, <1>2, <1>3, <1>4, FlattenElements

\* If the files list no source twice, and an extension none of the source model, then
\* all the files of a path list none twice.
LEMMA OnceInPath ==
  ASSUME TreeInv, ValuesInv, SourcesOnce, NEW sm, WayFrom(1, sm.path), ~BadPath(sm.path)
  PROVE  Once(ModelGroups(sm))
  <1> DEFINE a == ValueOf(sm.path[1])  b == Extension(sm.path)  A == Groups(a)  B == Groups(b)
  <1>1. a \in SourceModels /\ b \in Extensions \cup {<< >>}
    BY FilesOfPath
  <1>2. a \in Seq(DOMAIN File) /\ b \in Seq(DOMAIN File)
    BY FilesType
  <1>3. ModelGroups(sm) = Groups(a \o b)
    BY DEF ModelGroups
  <1>4. Ids(a) \cap Ids(b) = {}
    BY DEF BadPath
  <1> HIDE DEF a, b
  <1>5. A \in Seq(GroupType) /\ B \in Seq(GroupType) /\ Groups(a \o b) = A \o B
    BY <1>2, GroupsOfBoth
  <1>6. Once(A)
    BY <1>1 DEF SourcesOnce
  <1>7. Once(B)
    <2>1. CASE b = << >>
      <3>1. Groups(<< >>) = FlattenSeq(<< >>) /\ FlattenSeq(<< >>) = << >>
        BY DEF Groups, FlattenSeq
      <3> QED BY <2>1, <3>1 DEF Once
    <2> QED BY <1>1, <2>1 DEF SourcesOnce
  <1>8. ASSUME NEW n \in DOMAIN A, NEW m \in DOMAIN B,
               NEW i \in DOMAIN A[n].sources, NEW j \in DOMAIN B[m].sources
        PROVE  A[n].sources[i].id # B[m].sources[j].id
    <2>1. A[n].sources[i].id \in Ids(a)
      BY DEF Ids, ToSet
    <2>2. B[m].sources[j].id \in Ids(b)
      BY DEF Ids, ToSet
    <2> QED BY <1>4, <2>1, <2>2
  <1> HIDE DEF A, B
  <1>9. /\ Len(A) \in Nat /\ Len(B) \in Nat /\ DOMAIN A = 1..Len(A) /\ DOMAIN B = 1..Len(B)
        /\ DOMAIN (A \o B) = 1..Len(A) + Len(B)
        /\ \A n \in 1..Len(A) : (A \o B)[n] = A[n]
        /\ \A n \in 1..Len(B) : (A \o B)[Len(A) + n] = B[n]
    BY <1>5
  <1> DEFINE C == A \o B
  <1>10. \A n \in DOMAIN C : \/ n \in DOMAIN A /\ C[n] = A[n]
                             \/ \E k \in DOMAIN B : n = Len(A) + k /\ C[n] = B[k]
    <2> TAKE n \in DOMAIN C
    <2>1. CASE n <= Len(A)
      BY <1>9, <2>1
    <2>2. CASE ~(n <= Len(A))
      <3>1. n - Len(A) \in 1..Len(B) /\ n = Len(A) + (n - Len(A))
        BY <1>9, <2>2
      <3> QED BY <1>9, <3>1
    <2> QED BY <2>1, <2>2
  <1> HIDE DEF C
  <1>11. ASSUME NEW n \in DOMAIN C, NEW m \in DOMAIN C,
                NEW i \in DOMAIN C[n].sources, NEW j \in DOMAIN C[m].sources,
                C[n].trt = C[m].trt, C[n].sources[i].id = C[m].sources[j].id,
                C[n].sources[i].base = C[m].sources[j].base
         PROVE  n = m /\ i = j
    <2>1. CASE n \in DOMAIN A /\ C[n] = A[n]
      <3>1. CASE m \in DOMAIN A /\ C[m] = A[m]
        BY <1>6, <1>11, <2>1, <3>1 DEF Once
      <3>2. CASE \E k \in DOMAIN B : m = Len(A) + k /\ C[m] = B[k]
        BY <1>8, <1>11, <2>1, <3>2
      <3> QED BY <1>10, <3>1, <3>2
    <2>2. CASE \E k \in DOMAIN B : n = Len(A) + k /\ C[n] = B[k]
      <3>0. PICK k \in DOMAIN B : n = Len(A) + k /\ C[n] = B[k]
        BY <2>2
      <3>1. CASE m \in DOMAIN A /\ C[m] = A[m]
        BY <1>8, <1>11, <3>0, <3>1
      <3>2. CASE \E l \in DOMAIN B : m = Len(A) + l /\ C[m] = B[l]
        <4>1. PICK l \in DOMAIN B : m = Len(A) + l /\ C[m] = B[l]
          BY <3>2
        <4>2. k = l /\ i = j
          BY <1>7, <1>11, <3>0, <4>1 DEF Once
        <4> QED BY <3>0, <4>1, <4>2
      <3> QED BY <1>10, <3>1, <3>2
    <2> QED BY <1>10, <2>1, <2>2
  <1>12. Once(C)
    BY <1>11 DEF Once
  <1> QED BY <1>3, <1>5, <1>12 DEF C

\* The et_id of a realization of the source model, for a tectonic region type
EtId(t, i) == get_et_id(t, i - 1)

\* It is that of no other, and get_trti_eri finds it.
LEMMA EtIdsDiffer ==
  ASSUME RlzInv, NEW t \in 1..TRT, NEW L \in Nat, DOMAIN sm_rlzs = 1..L,
         NEW i \in 1..L, NEW j \in 1..L
  PROVE  /\ get_trti_eri(EtId(t, i)) = <<t - 1, i - 1>>
         /\ EtId(t, i) = EtId(t, j) => i = j
         /\ EtId(t, i) = get_et_id(t, sm_rlzs[i].ordinal)
  <1>1. Len(sm_rlzs) = L
    <2>1. PICK n \in Nat : sm_rlzs \in Seq({sm_rlzs[k] : k \in 1..n}) /\ DOMAIN sm_rlzs = 1..n
      BY DEF RlzInv
    <2> DEFINE S == {sm_rlzs[k] : k \in 1..n}
    <2>2. sm_rlzs \in Seq(S)
      BY <2>1
    <2> HIDE DEF S
    <2>3. Len(sm_rlzs) \in Nat /\ DOMAIN sm_rlzs = 1..Len(sm_rlzs)
      BY <2>2
    <2>4. 1..L = 1..Len(sm_rlzs)
      BY <2>3
    <2> QED BY <2>3, <2>4
  <1>2. sm_rlzs # << >>
    OBVIOUS
  <1>3. \A k \in 1..L : k - 1 \in 0..Len(sm_rlzs) - 1
    BY <1>1
  <1>4. \A k \in 1..L : get_trti_eri(EtId(t, k)) = <<t - 1, k - 1>>
    <2> TAKE k \in 1..L
    <2>1. k - 1 \in 0..Len(sm_rlzs) - 1
      BY <1>3
    <2>2. EtIdsArePairs
      BY EtIdsOfPairs
    <2> HIDE DEF get_trti_eri, get_et_id
    <2> QED BY <1>2, <2>1, <2>2 DEF EtIdsArePairs, EtId
  <1>5. EtId(t, i) = EtId(t, j) => i = j
    <2> HAVE EtId(t, i) = EtId(t, j)
    <2>1. get_trti_eri(EtId(t, i)) = get_trti_eri(EtId(t, j))
      OBVIOUS
    <2>2. <<t - 1, i - 1>> = <<t - 1, j - 1>>
      BY <1>4, <2>1
    <2>3. i - 1 = j - 1
      BY <2>2
    <2> QED BY <2>3
  <1>6. sm_rlzs[i].ordinal = i - 1
    <2>1. PICK n \in Nat : DOMAIN sm_rlzs = 1..n /\ \A k \in 1..n : sm_rlzs[k].ordinal = k - 1
      BY DEF RlzInv
    <2> QED BY <2>1
  <1> QED BY <1>4, <1>5, <1>6 DEF EtId

\* The L effective realizations have good paths, and the files list no source twice.
Ready(L) ==
  /\ SourcesOnce /\ TreeInv /\ ValuesInv /\ RlzInv /\ L \in Nat /\ DOMAIN sm_rlzs = 1..L
  /\ \A i \in 1..L : WayFrom(1, sm_rlzs[i].path) /\ ~BadPath(sm_rlzs[i].path)

\* The groups of the files of the effective realization i, one that has the tectonic region
\* type t, and a source in it
GroupsAt(i) == ModelGroups(sm_rlzs[i])
Place(t, i, n, k) ==
  n \in 1..Len(GroupsAt(i)) /\ GroupsAt(i)[n].trt = t /\ k \in 1..Len(GroupsAt(i)[n].sources)
SourceAt(i, n, k) == GroupsAt(i)[n].sources[k]
MadeAt(t, i, n, k) == Made(sm_rlzs[i], t, SourceAt(i, n, k))

\* The content of a source begins with what the file says.
LEMMA ContentIs ==
  ASSUME TreeInv, NEW p, WayFrom(1, p), NEW s
  PROVE  apply_uncertainties(s, Uncertainties(p))[1] = s.base
  <1>1. p \in Seq(Branch) /\ p # << >>
    BY DEF WayFrom
  <1>2. Tail(p) \in Seq(Branch) /\ (Len(p) > 1 => Tail(p) # << >>)
    <2>a. Len(p) \in Nat /\ Tail(p) \in Seq(Branch)
      BY <1>1
    <2>b. Len(Tail(p)) = Len(p) - 1
      BY <1>1, HeadTailProperties
    <2>1. Tail(p) \in Seq(Branch) /\ Len(Tail(p)) = Len(p) - 1 /\ Len(p) \in Nat
      BY <2>a, <2>b
    <2> DEFINE q == Tail(p)
    <2> HIDE DEF q
    <2>2. q = << >> => Len(q) = 0
      OBVIOUS
    <2> QED BY <2>1, <2>2 DEF q
  <1>3. Uncertainties(p) \in Seq(Branch)
    <2>1. CASE Extension(p) = << >>
      BY <1>2, <2>1 DEF Uncertainties, bset_values
    <2>2. CASE Extension(p) # << >>
      <3>1. Len(p) > 1
        BY <2>2 DEF Extension
      <3>2. Tail(Tail(p)) \in Seq(Branch)
        <4> DEFINE q == Tail(p)
        <4>1. q \in Seq(Branch) /\ q # << >>
          BY <1>2, <3>1
        <4> HIDE DEF q
        <4>2. Tail(q) \in Seq(Branch)
          BY <4>1
        <4> QED BY <4>2 DEF q
      <3> QED BY <2>2, <3>2 DEF Uncertainties, bset_values
    <2> QED BY <2>1, <2>2
  <1> DEFINE brs == Uncertainties(p)  changed == {br \in ToSet(brs) : filter_source(br[1], s)}
             x == Select(brs, changed)
  <1>4. x \in Seq(Branch)
    <2> HIDE DEF brs, changed
    <2>1. brs \in Seq(Branch)
      BY <1>3 DEF brs
    <2> QED BY <2>1, PickedType
  <1>5. apply_uncertainties(s, brs) = <<s.base>> \o x
    BY DEF apply_uncertainties
  <1> HIDE DEF x, brs
  <1>6. x \in Seq(Branch \cup {s.base}) /\ <<s.base>> \in Seq(Branch \cup {s.base})
    BY <1>4
  <1>7. (<<s.base>> \o x)[1] = s.base
    BY <1>6
  <1> QED BY <1>5, <1>7 DEF brs

\* The group that _build_groups makes of one of the files, and a source in it
LEMMA MadeIs ==
  ASSUME NEW L, Ready(L), NEW t \in 1..TRT, NEW i \in 1..L, NEW n, NEW k, Place(t, i, n, k)
  PROVE  /\ _build_groups(sm_rlzs[i])[n].trt = t
         /\ _build_groups(sm_rlzs[i])[n].atomic = GroupsAt(i)[n].atomic
         /\ DOMAIN _build_groups(sm_rlzs[i])[n].sources = 1..Len(GroupsAt(i)[n].sources)
         /\ _build_groups(sm_rlzs[i])[n].sources[k] = MadeAt(t, i, n, k)
         /\ MadeAt(t, i, n, k).id = SourceAt(i, n, k).id
         /\ MadeAt(t, i, n, k).content
              = apply_uncertainties(SourceAt(i, n, k), Uncertainties(sm_rlzs[i].path))
         /\ MadeAt(t, i, n, k).content[1] = SourceAt(i, n, k).base
         /\ MadeAt(t, i, n, k).et_ids = <<EtId(t, i)>>
  <1> DEFINE sm == sm_rlzs[i]
  <1>1. WayFrom(1, sm.path) /\ TreeInv /\ ValuesInv /\ RlzInv /\ L \in Nat /\ DOMAIN sm_rlzs = 1..L
    BY DEF Ready
  <1>2. n \in 1..Len(ModelGroups(sm)) /\ ModelGroups(sm)[n].trt = t
        /\ k \in 1..Len(ModelGroups(sm)[n].sources)
    BY DEF Place, GroupsAt
  <1>3. /\ _build_groups(sm)[n].trt = t
        /\ _build_groups(sm)[n].atomic = ModelGroups(sm)[n].atomic
        /\ _build_groups(sm)[n].sources
             = [q \in 1..Len(ModelGroups(sm)[n].sources) |->
                  Made(sm, ModelGroups(sm)[n].trt, ModelGroups(sm)[n].sources[q])]
    <2> HIDE DEF sm
    <2> QED BY <1>1, <1>2, BuiltGroups
  <1>4. /\ DOMAIN _build_groups(sm)[n].sources = 1..Len(ModelGroups(sm)[n].sources)
        /\ _build_groups(sm)[n].sources[k] = Made(sm, t, ModelGroups(sm)[n].sources[k])
    BY <1>2, <1>3
  <1>5. get_et_id(t, sm.ordinal) = EtId(t, i)
    BY <1>1, EtIdsDiffer
  <1> DEFINE s == SourceAt(i, n, k)
  <1>6. apply_uncertainties(s, Uncertainties(sm.path))[1] = s.base
    BY <1>1, ContentIs
  <1>7. /\ MadeAt(t, i, n, k).id = s.id
        /\ MadeAt(t, i, n, k).content = apply_uncertainties(s, Uncertainties(sm.path))
        /\ MadeAt(t, i, n, k).et_ids = <<get_et_id(t, sm.ordinal)>>
    BY DEF MadeAt, Made
  <1> QED BY <1>3, <1>4, <1>5, <1>6, <1>7 DEF MadeAt, SourceAt, GroupsAt

\* The sources of a realization with the same ID and content are one.
LEMMA SamePlace ==
  ASSUME NEW L, Ready(L), NEW t \in 1..TRT, NEW i \in 1..L, NEW n, NEW k, Place(t, i, n, k),
         NEW m, NEW l, Place(t, i, m, l),
         MadeAt(t, i, n, k).id = MadeAt(t, i, m, l).id,
         MadeAt(t, i, n, k).content = MadeAt(t, i, m, l).content
  PROVE  n = m /\ k = l
  <1>1. Once(GroupsAt(i))
    <2> DEFINE sm == sm_rlzs[i]
    <2>1. SourcesOnce /\ TreeInv /\ ValuesInv /\ WayFrom(1, sm.path) /\ ~BadPath(sm.path)
      BY DEF Ready
    <2> HIDE DEF sm
    <2>2. Once(ModelGroups(sm))
      BY <2>1, OnceInPath
    <2> QED BY <2>2 DEF GroupsAt, sm
  <1>2. /\ SourceAt(i, n, k).id = SourceAt(i, m, l).id
        /\ SourceAt(i, n, k).base = SourceAt(i, m, l).base
    <2>1. /\ MadeAt(t, i, n, k).id = SourceAt(i, n, k).id
          /\ MadeAt(t, i, n, k).content[1] = SourceAt(i, n, k).base
      BY MadeIs
    <2>2. /\ MadeAt(t, i, m, l).id = SourceAt(i, m, l).id
          /\ MadeAt(t, i, m, l).content[1] = SourceAt(i, m, l).base
      BY MadeIs
    <2> QED BY <2>1, <2>2
  <1>3. /\ DOMAIN GroupsAt(i) = 1..Len(GroupsAt(i))
        /\ \A q \in 1..Len(GroupsAt(i)) :
             DOMAIN GroupsAt(i)[q].sources = 1..Len(GroupsAt(i)[q].sources)
    <2> DEFINE sm == sm_rlzs[i]
    <2>1. TreeInv /\ ValuesInv /\ WayFrom(1, sm.path)
      BY DEF Ready
    <2> HIDE DEF sm
    <2>2. /\ DOMAIN ModelGroups(sm) = 1..Len(ModelGroups(sm))
          /\ \A q \in 1..Len(ModelGroups(sm)) : ModelGroups(sm)[q].sources \in Seq(Source)
      BY <2>1, BuiltGroups
    <2>3. \A q \in 1..Len(ModelGroups(sm)) :
            DOMAIN ModelGroups(sm)[q].sources = 1..Len(ModelGroups(sm)[q].sources)
      BY <2>2
    <2> QED BY <2>2, <2>3 DEF GroupsAt, sm
  <1>4. /\ n \in DOMAIN GroupsAt(i) /\ m \in DOMAIN GroupsAt(i)
        /\ k \in DOMAIN GroupsAt(i)[n].sources /\ l \in DOMAIN GroupsAt(i)[m].sources
        /\ GroupsAt(i)[n].trt = GroupsAt(i)[m].trt
    BY <1>3 DEF Place
  <1> QED BY <1>1, <1>2, <1>4 DEF Once, SourceAt

\* The sources of a tectonic region type that _get_csm puts together, all of them and
\* those of one group
Ungrouped(t) ==
  FlattenSeq([n \in DOMAIN AllGroups |->
    IF AllGroups[n].trt = t /\ ~AllGroups[n].atomic THEN AllGroups[n].sources ELSE << >>])
SourcesIn(L) == UNION {ToSet(g.sources) : g \in Built(L)}
SourcesOf(L, t) == [g \in Built(L) |-> IF g.trt = t /\ ~g.atomic THEN g.sources ELSE << >>]

\* The place of a source that is not in an atomic group
Free(t, i, n, k) == Place(t, i, n, k) /\ ~GroupsAt(i)[n].atomic

\* A source in such a place
IsFree(L, t, x) == \E i \in 1..L : \E n, k : Free(t, i, n, k) /\ x = MadeAt(t, i, n, k)

\* What a group that _build_groups makes gives to a tectonic region type
LEMMA SourcesOfGroup ==
  ASSUME NEW L, Ready(L), NEW t \in 1..TRT, NEW i \in 1..L, NEW n \in 1..Len(GroupsAt(i))
  PROVE  /\ _build_groups(sm_rlzs[i])[n] \in Built(L)
         /\ _build_groups(sm_rlzs[i])[n].sources \in Seq(SourcesIn(L))
         /\ \A x : x \in ToSet(SourcesOf(L, t)[_build_groups(sm_rlzs[i])[n]]) <=>
                     \E k : Free(t, i, n, k) /\ x = MadeAt(t, i, n, k)
  <1> DEFINE sm == sm_rlzs[i]  g == _build_groups(sm)[n]  N == Len(ModelGroups(sm)[n].sources)
  <1>1. WayFrom(1, sm.path) /\ TreeInv /\ ValuesInv /\ n \in 1..Len(ModelGroups(sm))
    BY DEF Ready, GroupsAt
  <1>2. /\ N \in Nat /\ g.trt = ModelGroups(sm)[n].trt /\ g.atomic = ModelGroups(sm)[n].atomic
        /\ g.sources = [k \in 1..N |-> Made(sm, ModelGroups(sm)[n].trt, ModelGroups(sm)[n].sources[k])]
    <2> HIDE DEF sm
    <2> QED BY <1>1, BuiltGroups
  <1>3. g \in Built(L)
    BY <1>1 DEF Built
  <1> HIDE DEF g
  <1>4. g.sources \in Seq(SourcesIn(L))
    <2>1. \A k \in 1..N : g.sources[k] \in SourcesIn(L)
      <3> TAKE k \in 1..N
      <3>1. g.sources[k] \in ToSet(g.sources)
        BY <1>2 DEF ToSet
      <3> QED BY <1>3, <3>1 DEF SourcesIn
    <2>2. g.sources \in [1..N -> SourcesIn(L)]
      BY <1>2, <2>1
    <2> HIDE DEF N
    <2> QED BY <1>2, <2>2, LenIs
  <1>5. ASSUME NEW x
        PROVE  x \in ToSet(SourcesOf(L, t)[g]) <=> \E k : Free(t, i, n, k) /\ x = MadeAt(t, i, n, k)
    <2>1. CASE g.trt = t /\ ~g.atomic
      <3>1. SourcesOf(L, t)[g] = g.sources
        BY <1>3, <2>1 DEF SourcesOf
      <3>2. x \in ToSet(g.sources) <=> \E k \in 1..N : x = Made(sm, t, ModelGroups(sm)[n].sources[k])
        BY <1>2, <2>1 DEF ToSet
      <3>3. \A k : Free(t, i, n, k) <=> k \in 1..N
        BY <1>1, <1>2, <2>1 DEF Free, Place, GroupsAt
      <3> QED BY <3>1, <3>2, <3>3 DEF MadeAt, SourceAt, GroupsAt
    <2>2. CASE ~(g.trt = t /\ ~g.atomic)
      <3>1. SourcesOf(L, t)[g] = << >>
        BY <1>3, <2>2 DEF SourcesOf
      <3>2. ToSet(<< >>) = {}
        BY DEF ToSet
      <3>3. \A k : ~Free(t, i, n, k)
        BY <1>2, <2>2 DEF Free, Place, GroupsAt
      <3> QED BY <3>1, <3>2, <3>3
    <2> QED BY <2>1, <2>2
  <1> QED BY <1>3, <1>4, <1>5 DEF g

\* What the groups of all the realizations give
LEMMA SourcesOfGroups ==
  ASSUME NEW L, Ready(L), NEW t \in 1..TRT
  PROVE  \A i \in 1..L : \A n \in 1..Len(GroupsAt(i)) :
           /\ _build_groups(sm_rlzs[i])[n] \in Built(L)
           /\ \A x : x \in ToSet(SourcesOf(L, t)[_build_groups(sm_rlzs[i])[n]]) <=>
                      \E k : Free(t, i, n, k) /\ x = MadeAt(t, i, n, k)
  <1> TAKE i \in 1..L
  <1> TAKE n \in 1..Len(GroupsAt(i))
  <1>1. _build_groups(sm_rlzs[i])[n] \in Built(L)
    BY SourcesOfGroup
  <1>2. \A x : x \in ToSet(SourcesOf(L, t)[_build_groups(sm_rlzs[i])[n]]) <=>
               \E k : Free(t, i, n, k) /\ x = MadeAt(t, i, n, k)
    BY SourcesOfGroup
  <1> QED BY <1>1, <1>2

\* What AllGroups and Ungrouped are made of
LEMMA UngroupedIs ==
  ASSUME NEW L, Ready(L), NEW t \in 1..TRT
  PROVE  /\ SourcesOf(L, t) \in [Built(L) -> Seq(SourcesIn(L))]
         /\ Ungrouped(t) = FlattenSeq([k \in DOMAIN AllGroups |-> SourcesOf(L, t)[AllGroups[k]]])
         /\ Ungrouped(t) \in Seq(SourcesIn(L))
         /\ \A x : x \in ToSet(Ungrouped(t)) <=> IsFree(L, t, x)
  <1> DEFINE f == SourcesOf(L, t)  S == Built(L)  T == SourcesIn(L)  G == AllGroups
             ss == [k \in DOMAIN G |-> f[G[k]]]  b(i) == _build_groups(sm_rlzs[i])
  <1>1. /\ TreeInv /\ ValuesInv /\ L \in Nat /\ DOMAIN sm_rlzs = 1..L
        /\ \A i \in 1..L : WayFrom(1, sm_rlzs[i].path)
    BY DEF Ready
  <1>2. /\ G \in Seq(S)
        /\ \A g \in ToSet(G) : \E i \in 1..L : \E n \in 1..Len(GroupsAt(i)) : g = b(i)[n]
        /\ \A i \in 1..L : \A n \in 1..Len(GroupsAt(i)) : b(i)[n] \in ToSet(G)
    BY <1>1, AllGroupsAre DEF GroupsAt
  <1>3. \A g \in S : \E i \in 1..L : \E n \in 1..Len(GroupsAt(i)) : g = b(i)[n]
    BY DEF Built, GroupsAt
  <1>4. ASSUME NEW g \in S PROVE f[g] \in Seq(T)
    <2>1. PICK i \in 1..L : \E n \in 1..Len(GroupsAt(i)) : g = b(i)[n]
      BY <1>3
    <2>2. PICK n \in 1..Len(GroupsAt(i)) : g = b(i)[n]
      BY <2>1
    <2>3. g.sources \in Seq(T)
      BY <2>2, SourcesOfGroup
    <2>4. << >> \in Seq(T)
      OBVIOUS
    <2> HIDE DEF T
    <2> QED BY <2>3, <2>4 DEF SourcesOf
  <1>5. f \in [S -> Seq(T)]
    <2>1. f = [g \in S |-> f[g]]
      BY DEF SourcesOf
    <2> HIDE DEF f, S, T
    <2> QED BY <1>4, <2>1
  <1>6. Len(G) \in Nat /\ DOMAIN G = 1..Len(G) /\ \A k \in 1..Len(G) : G[k] \in S
    <2> HIDE DEF G, S
    <2> QED BY <1>2
  <1>7. Ungrouped(t) = FlattenSeq(ss)
    <2>1. \A k \in DOMAIN G :
            f[G[k]] = IF G[k].trt = t /\ ~G[k].atomic THEN G[k].sources ELSE << >>
      <3> TAKE k \in DOMAIN G
      <3>1. G[k] \in S
        BY <1>6
      <3> HIDE DEF G
      <3> QED BY <3>1 DEF SourcesOf
    <2>2. ss = [k \in DOMAIN G |-> IF G[k].trt = t /\ ~G[k].atomic THEN G[k].sources ELSE << >>]
      <3> HIDE DEF f, G
      <3> QED BY <2>1
    <2> QED BY <2>2 DEF Ungrouped
  <1> HIDE DEF f, S, T, G
  <1>8. ss \in Seq(Seq(T)) /\ Len(ss) = Len(G) /\ \A k \in 1..Len(G) : ss[k] = f[G[k]]
    <2>1. ss \in [1..Len(G) -> Seq(T)]
      BY <1>5, <1>6
    <2>2. \A k \in 1..Len(G) : ss[k] = f[G[k]]
      BY <1>6
    <2> HIDE DEF ss
    <2> QED BY <1>6, <2>1, <2>2, LenIs
  <1> HIDE DEF ss
  <1>9. Ungrouped(t) \in Seq(T)
        /\ \A x : x \in ToSet(Ungrouped(t)) <=> \E k \in 1..Len(G) : x \in ToSet(f[G[k]])
    <2>1. FlattenSeq(ss) \in Seq(T)
          /\ \A x : x \in ToSet(FlattenSeq(ss)) <=> \E k \in 1..Len(ss) : x \in ToSet(ss[k])
      BY <1>8, FlattenElements
    <2> QED BY <1>7, <1>8, <2>1
  <1>10. \A i \in 1..L : \A n \in 1..Len(GroupsAt(i)) :
           \A x : x \in ToSet(f[b(i)[n]]) <=> \E k : Free(t, i, n, k) /\ x = MadeAt(t, i, n, k)
    BY SourcesOfGroups DEF f
  <1> HIDE DEF b
  <1>11. ASSUME NEW x
         PROVE  x \in ToSet(Ungrouped(t)) <=>
                  \E i \in 1..L : \E n, k : Free(t, i, n, k) /\ x = MadeAt(t, i, n, k)
    <2>1. ASSUME x \in ToSet(Ungrouped(t))
          PROVE  \E i \in 1..L : \E n, k : Free(t, i, n, k) /\ x = MadeAt(t, i, n, k)
      <3>1. PICK k \in 1..Len(G) : x \in ToSet(f[G[k]])
        BY <1>9, <2>1
      <3>2. G[k] \in ToSet(G)
        BY <1>6 DEF ToSet
      <3>3. PICK i \in 1..L : \E n \in 1..Len(GroupsAt(i)) : G[k] = b(i)[n]
        BY <1>2, <3>2
      <3>4. PICK n \in 1..Len(GroupsAt(i)) : G[k] = b(i)[n]
        BY <3>3
      <3>5. \A y : y \in ToSet(f[b(i)[n]]) <=> \E q : Free(t, i, n, q) /\ y = MadeAt(t, i, n, q)
        BY <1>10
      <3>6. \E q : Free(t, i, n, q) /\ x = MadeAt(t, i, n, q)
        BY <3>1, <3>4, <3>5
      <3> QED BY <3>6
    <2>2. ASSUME NEW i \in 1..L, NEW n, NEW k, Free(t, i, n, k), x = MadeAt(t, i, n, k)
          PROVE  x \in ToSet(Ungrouped(t))
      <3>1. n \in 1..Len(GroupsAt(i))
        BY <2>2 DEF Free, Place
      <3>2. b(i)[n] \in ToSet(G) /\ x \in ToSet(f[b(i)[n]])
        BY <1>2, <1>10, <2>2, <3>1
      <3>3. PICK q \in 1..Len(G) : G[q] = b(i)[n]
        BY <1>6, <3>2 DEF ToSet
      <3> QED BY <1>9, <3>2, <3>3
    <2> QED BY <2>1, <2>2
  <1>12. \A x : x \in ToSet(Ungrouped(t)) <=> IsFree(L, t, x)
    BY <1>11 DEF IsFree
  <1> QED BY <1>5, <1>7, <1>9, <1>12 DEF f, S, T, G, ss

\* Each source is there once.
LEMMA UngroupedOnce ==
  ASSUME NEW L, Ready(L), NEW t \in 1..TRT, NEW i \in 1..L, NEW n, NEW k, Free(t, i, n, k)
  PROVE  Count(Ungrouped(t), {MadeAt(t, i, n, k)}) = 1
  <1> DEFINE f == SourcesOf(L, t)  S == Built(L)  T == SourcesIn(L)  x == MadeAt(t, i, n, k)
             bs == [j \in 1..L |-> _build_groups(sm_rlzs[j])]
  <1>1. /\ TreeInv /\ ValuesInv /\ RlzInv /\ L \in Nat /\ DOMAIN sm_rlzs = 1..L
        /\ \A j \in 1..L : WayFrom(1, sm_rlzs[j].path)
    BY DEF Ready
  <1>2. bs \in Seq(Seq(S)) /\ Len(bs) = L /\ AllGroups = FlattenSeq(bs)
    BY <1>1, AllGroupsAre
  <1>3. f \in [S -> Seq(T)] /\ Ungrouped(t) = FlattenSeq([q \in DOMAIN AllGroups |-> f[AllGroups[q]]])
    BY UngroupedIs
  <1>4. \A j \in 1..L : bs[j] = _build_groups(sm_rlzs[j]) /\ Len(bs[j]) = Len(GroupsAt(j))
    <2> TAKE j \in 1..L
    <2>1. bs[j] = _build_groups(sm_rlzs[j]) /\ bs[j] \in Seq(S)
      <3>1. bs[j] = _build_groups(sm_rlzs[j])
        OBVIOUS
      <3> HIDE DEF bs, S
      <3>2. bs[j] \in Seq(S)
        BY <1>2
      <3> QED BY <3>1, <3>2
    <2> DEFINE sm == sm_rlzs[j]
    <2>2. WayFrom(1, sm.path)
      BY <1>1
    <2> HIDE DEF sm
    <2>3. DOMAIN _build_groups(sm) = 1..Len(ModelGroups(sm)) /\ Len(ModelGroups(sm)) \in Nat
      BY <1>1, <2>2, BuiltGroups
    <2>4. DOMAIN bs[j] = 1..Len(bs[j]) /\ Len(bs[j]) \in Nat
      <3> HIDE DEF bs, S
      <3> QED BY <2>1
    <2>5. 1..Len(bs[j]) = 1..Len(GroupsAt(j)) /\ Len(GroupsAt(j)) \in Nat
      BY <2>1, <2>3, <2>4 DEF GroupsAt, sm
    <2> QED BY <2>1, <2>4, <2>5
  <1> HIDE DEF bs
  <1>5. \A j \in 1..L : \A m \in 1..Len(GroupsAt(j)) :
           \A y : y \in ToSet(f[bs[j][m]]) <=> \E l : Free(t, j, m, l) /\ y = MadeAt(t, j, m, l)
    <2> HIDE DEF S, T, x
    <2>1. \A j \in 1..L : \A m \in 1..Len(GroupsAt(j)) :
            \A y : y \in ToSet(f[_build_groups(sm_rlzs[j])[m]]) <=>
                    \E l : Free(t, j, m, l) /\ y = MadeAt(t, j, m, l)
      BY SourcesOfGroups
    <2> HIDE DEF f
    <2> TAKE j \in 1..L
    <2> TAKE m \in 1..Len(GroupsAt(j))
    <2>2. bs[j] = _build_groups(sm_rlzs[j])
      BY <1>4
    <2>3. \A y : y \in ToSet(f[_build_groups(sm_rlzs[j])[m]]) <=>
                 \E l : Free(t, j, m, l) /\ y = MadeAt(t, j, m, l)
      BY <2>1
    <2> QED BY <2>2, <2>3
  <1>6. n \in 1..Len(GroupsAt(i)) /\ Place(t, i, n, k)
    BY DEF Free, Place
  <1>7. ASSUME NEW j \in 1..L, NEW m \in 1..Len(bs[j]), x \in ToSet(f[bs[j][m]])
        PROVE  j = i /\ m = n
    <2>1. m \in 1..Len(GroupsAt(j))
      BY <1>4
    <2>a. \A y : y \in ToSet(f[bs[j][m]]) <=> \E l : Free(t, j, m, l) /\ y = MadeAt(t, j, m, l)
      <3> HIDE DEF x, f
      <3> QED BY <1>5, <2>1
    <2>2. PICK l : Free(t, j, m, l) /\ x = MadeAt(t, j, m, l)
      <3> HIDE DEF x, f
      <3> QED BY <1>7, <2>a
    <2>3. Place(t, j, m, l)
      BY <2>2 DEF Free
    <2>4. x.et_ids = <<EtId(t, i)>>
      BY <1>6, MadeIs
    <2>5. x.et_ids = <<EtId(t, j)>>
      BY <2>2, <2>3, MadeIs
    <2>6. EtId(t, i) = EtId(t, j)
      BY <2>4, <2>5
    <2>7. i = j
      BY <1>1, <2>6, EtIdsDiffer
    <2>8. n = m
      BY <1>6, <2>2, <2>3, <2>7, SamePlace
    <2> QED BY <2>7, <2>8
  <1>8. NamedOnce(S, T, bs, f, x, i, n)
    <2>1. i \in 1..Len(bs) /\ n \in 1..Len(bs[i])
      BY <1>2, <1>4, <1>6
    <2>2. \A j \in 1..Len(bs) : \A m \in 1..Len(bs[j]) : x \in ToSet(f[bs[j][m]]) => j = i /\ m = n
      BY <1>2, <1>7
    <2> HIDE DEF S, T, f, x
    <2> QED BY <1>2, <1>3, <2>1, <2>2 DEF NamedOnce
  <1>9. Count(Ungrouped(t), {x}) = Count(f[bs[i][n]], {x})
    <2> HIDE DEF S, T, f, x
    <2>1. Count(FlattenSeq([q \in DOMAIN FlattenSeq(bs) |-> f[FlattenSeq(bs)[q]]]), {x})
            = Count(f[bs[i][n]], {x})
      BY <1>8, CountAlone
    <2> QED BY <1>2, <1>3, <2>1
  <1>10. f[bs[i][n]] = _build_groups(sm_rlzs[i])[n].sources
    <2> DEFINE g == _build_groups(sm_rlzs[i])[n]
    <2>1. g \in Built(L) /\ bs[i][n] = g
      BY <1>4, <1>6, SourcesOfGroups
    <2>2. g.trt = t /\ ~g.atomic
      BY <1>6, MadeIs DEF Free
    <2> HIDE DEF g
    <2>3. f[g] = g.sources
      BY <2>1, <2>2 DEF SourcesOf
    <2> QED BY <2>1, <2>3 DEF g
  <1>11. Count(_build_groups(sm_rlzs[i])[n].sources, {x}) = 1
    <2> DEFINE s == _build_groups(sm_rlzs[i])[n].sources
    <2>1. /\ DOMAIN s = 1..Len(GroupsAt(i)[n].sources)
          /\ \A l \in 1..Len(GroupsAt(i)[n].sources) : s[l] = MadeAt(t, i, n, l) /\ Place(t, i, n, l)
      <3>1. \A l \in 1..Len(GroupsAt(i)[n].sources) : Place(t, i, n, l)
        BY <1>6 DEF Place
      <3>2. DOMAIN s = 1..Len(GroupsAt(i)[n].sources)
        BY <1>6, MadeIs
      <3>3. \A l \in 1..Len(GroupsAt(i)[n].sources) : s[l] = MadeAt(t, i, n, l)
        <4> TAKE l \in 1..Len(GroupsAt(i)[n].sources)
        <4>1. Place(t, i, n, l)
          BY <3>1
        <4> QED BY <4>1, MadeIs
      <3> QED BY <3>1, <3>2, <3>3
    <2> HIDE DEF s
    <2>2. k \in 1..Len(GroupsAt(i)[n].sources)
      BY <1>6 DEF Place
    <2>3. \A l \in 1..Len(GroupsAt(i)[n].sources) : s[l] = x => l = k
      <3> TAKE l \in 1..Len(GroupsAt(i)[n].sources)
      <3> HAVE s[l] = x
      <3>1. Place(t, i, n, l) /\ MadeAt(t, i, n, l) = x
        BY <2>1
      <3> QED BY <1>6, <3>1, SamePlace
    <2> HIDE DEF x
    <2>4. s[k] = x
      BY <2>1, <2>2 DEF x
    <2>5. {l \in DOMAIN s : s[l] \in {x}} = {k}
      BY <2>1, <2>2, <2>3, <2>4
    <2> QED BY <2>5, FS_Singleton DEF Count, s
  <1> QED BY <1>9, <1>10, <1>11

\* The sources that reduce_sources takes for one, and the one it makes of them
Alike(t, x) == {y \in ToSet(Ungrouped(t)) : y.id = x.id /\ y.content = x.content}
Same(t, x) == Select(Ungrouped(t), Alike(t, x))
Reduced(t, x) == OneOf(Same(t, x))

\* How often an et_id is in a list
Keys(e, key) == {q \in DOMAIN e : e[q] = key}

\* The ungrouped sources that are alike
LEMMA SameIs ==
  ASSUME NEW L, Ready(L), NEW t \in 1..TRT, NEW x \in ToSet(Ungrouped(t))
  PROVE  /\ Same(t, x) \in Seq(SourcesIn(L)) /\ Len(Same(t, x)) \in Nat \ {0}
         /\ DOMAIN Same(t, x) = 1..Len(Same(t, x))
         /\ \A y : y \in ToSet(Same(t, x)) <=> y \in Alike(t, x)
         /\ \A q \in DOMAIN Same(t, x) : IsFree(L, t, Same(t, x)[q])
  <1> DEFINE s == Same(t, x)  U == Ungrouped(t)  A == Alike(t, x)  T == SourcesIn(L)
  <1>1. U \in Seq(T) /\ \A y : y \in ToSet(U) <=> IsFree(L, t, y)
    BY UngroupedIs
  <1>2. x \in A /\ \A y : y \in A => y \in ToSet(U)
    BY DEF Alike
  <1>3. s = Select(U, A)
    BY DEF Same
  <1> HIDE DEF s, U, A, T
  <1>4. s \in Seq(T)
    BY <1>1, <1>3, PickedType
  <1>5. \A y : y \in ToSet(s) <=> y \in A
    <2>1. \A y : y \in ToSet(Select(U, A)) <=> y \in ToSet(U) /\ y \in A
      BY <1>1, SelectElements
    <2> QED BY <1>2, <1>3, <2>1
  <1>6. Len(s) \in Nat /\ DOMAIN s = 1..Len(s)
    BY <1>4
  <1>7. Len(s) # 0
    <2>1. x \in ToSet(s)
      BY <1>2, <1>5
    <2>2. \E q \in 1..Len(s) : x = s[q]
      BY <1>6, <2>1 DEF ToSet
    <2> QED BY <1>6, <2>2
  <1>8. ASSUME NEW q \in DOMAIN s PROVE IsFree(L, t, s[q])
    <2>1. s[q] \in ToSet(s)
      BY DEF ToSet
    <2>2. s[q] \in ToSet(U)
      BY <1>2, <1>5, <2>1
    <2> QED BY <1>1, <2>2
  <1> QED BY <1>4, <1>5, <1>6, <1>7, <1>8 DEF s, A, T

\* The source made of those
LEMMA ReducedIs ==
  ASSUME NEW L, Ready(L), NEW t \in 1..TRT, NEW x \in ToSet(Ungrouped(t))
  PROVE  /\ Reduced(t, x).id = x.id /\ Reduced(t, x).content = x.content
         /\ Reduced(t, x).et_ids = [q \in 1..Len(Same(t, x)) |-> Same(t, x)[q].et_ids[1]]
         /\ \A y : y \in Alike(t, x) => Reduced(t, y) = Reduced(t, x)
  <1> DEFINE s == Same(t, x)
  <1>1. /\ Len(s) \in Nat \ {0} /\ DOMAIN s = 1..Len(s)
        /\ \A y : y \in ToSet(s) <=> y \in Alike(t, x)
        /\ \A q \in DOMAIN s : IsFree(L, t, s[q])
    BY SameIs
  <1>2. 1 \in DOMAIN s
    BY <1>1
  <1>3. PICK j \in 1..L : \E m, l : Free(t, j, m, l) /\ s[1] = MadeAt(t, j, m, l)
    BY <1>1, <1>2 DEF IsFree
  <1>4. PICK m, l : s[1] = MadeAt(t, j, m, l)
    BY <1>3
  <1>5. s[1].id = x.id /\ s[1].content = x.content
    <2>1. s[1] \in ToSet(s)
      BY <1>2 DEF ToSet
    <2> QED BY <1>1, <2>1 DEF Alike
  <1>6. DOMAIN s[1] = {"id", "content", "et_ids", "samples"}
    BY <1>4 DEF MadeAt, Made
  <1> DEFINE e == [q \in DOMAIN s |-> s[q].et_ids[1]]
  <1>7. Reduced(t, x) = [s[1] EXCEPT !.et_ids = e]
    BY DEF Reduced, OneOf
  <1>8. ASSUME NEW y \in Alike(t, x) PROVE Reduced(t, y) = Reduced(t, x)
    <2>1. Alike(t, y) = Alike(t, x)
      BY DEF Alike
    <2> QED BY <2>1 DEF Reduced, Same
  <1>9. e = [q \in 1..Len(s) |-> s[q].et_ids[1]]
    BY <1>1
  <1> HIDE DEF s, e
  <1>10. /\ Reduced(t, x).id = s[1].id /\ Reduced(t, x).content = s[1].content
         /\ Reduced(t, x).et_ids = e
    BY <1>6, <1>7
  <1> QED BY <1>5, <1>8, <1>9, <1>10 DEF s

\* A reduced source has the et_ids of the effective realizations that have one of its
\* sources, each once.
LEMMA KeysOfReduced ==
  ASSUME NEW L, Ready(L), NEW t \in 1..TRT, NEW x \in ToSet(Ungrouped(t)), NEW i \in 1..L
  PROVE  /\ \A q \in DOMAIN Reduced(t, x).et_ids : \E j \in 1..L : Reduced(t, x).et_ids[q] = EtId(t, j)
         /\ \/ Keys(Reduced(t, x).et_ids, EtId(t, i)) = {}
            \/ /\ Cardinality(Keys(Reduced(t, x).et_ids, EtId(t, i))) = 1
               /\ \E m, l : Free(t, i, m, l) /\ MadeAt(t, i, m, l) \in Alike(t, x)
  <1> DEFINE s == Same(t, x)  e == Reduced(t, x).et_ids  U == Ungrouped(t)
  <1>1. /\ Len(s) \in Nat \ {0} /\ DOMAIN s = 1..Len(s)
        /\ \A y : y \in ToSet(s) <=> y \in Alike(t, x)
        /\ \A q \in DOMAIN s : IsFree(L, t, s[q])
    BY SameIs
  <1>2. e = [q \in 1..Len(s) |-> s[q].et_ids[1]]
    BY ReducedIs
  <1>3. DOMAIN e = DOMAIN s /\ \A q \in DOMAIN s : e[q] = s[q].et_ids[1]
    BY <1>1, <1>2
  <1>4. s = Select(U, Alike(t, x)) /\ U \in Seq(SourcesIn(L))
    BY UngroupedIs DEF Same
  <1>5. RlzInv /\ L \in Nat /\ DOMAIN sm_rlzs = 1..L
    BY DEF Ready
  <1> HIDE DEF s, e, U
  <1>6. ASSUME NEW j \in 1..L, NEW m, NEW l, Free(t, j, m, l)
        PROVE  MadeAt(t, j, m, l).et_ids[1] = EtId(t, j)
    <2>1. Place(t, j, m, l)
      BY <1>6 DEF Free
    <2>2. MadeAt(t, j, m, l).et_ids = <<EtId(t, j)>>
      BY <2>1, MadeIs
    <2> QED BY <2>2
  <1>7. ASSUME NEW q \in DOMAIN s
        PROVE  \E j \in 1..L : \E m, l : Free(t, j, m, l) /\ s[q] = MadeAt(t, j, m, l) /\ e[q] = EtId(t, j)
    <2>1. PICK j \in 1..L : \E m, l : Free(t, j, m, l) /\ s[q] = MadeAt(t, j, m, l)
      BY <1>1 DEF IsFree
    <2>2. PICK m, l : Free(t, j, m, l) /\ s[q] = MadeAt(t, j, m, l)
      BY <2>1
    <2>3. e[q] = EtId(t, j)
      BY <1>3, <1>6, <2>2
    <2> QED BY <2>2, <2>3
  <1>8. ASSUME NEW q \in DOMAIN s, e[q] = EtId(t, i)
        PROVE  \E m, l : Free(t, i, m, l) /\ s[q] = MadeAt(t, i, m, l) /\ s[q] \in Alike(t, x)
    <2>1. PICK j \in 1..L : \E m, l : Free(t, j, m, l) /\ s[q] = MadeAt(t, j, m, l) /\ e[q] = EtId(t, j)
      BY <1>7
    <2>2. EtId(t, i) = EtId(t, j)
      BY <1>8, <2>1
    <2>3. j = i
      BY <1>5, <2>2, EtIdsDiffer
    <2>4. s[q] \in ToSet(s)
      BY DEF ToSet
    <2> QED BY <1>1, <2>1, <2>3, <2>4
  <1>9. ASSUME Keys(e, EtId(t, i)) # {}
        PROVE  /\ Cardinality(Keys(e, EtId(t, i))) = 1
               /\ \E m, l : Free(t, i, m, l) /\ MadeAt(t, i, m, l) \in Alike(t, x)
    <2>1. PICK q \in DOMAIN s : e[q] = EtId(t, i)
      BY <1>3, <1>9 DEF Keys
    <2>2. PICK m, l : Free(t, i, m, l) /\ s[q] = MadeAt(t, i, m, l) /\ s[q] \in Alike(t, x)
      BY <1>8, <2>1
    <2> DEFINE y == MadeAt(t, i, m, l)
    <2>3. y \in Alike(t, x) /\ y.id = x.id /\ y.content = x.content
      BY <2>2 DEF Alike
    <2>4. ASSUME NEW r \in DOMAIN s, e[r] = EtId(t, i) PROVE s[r] = y
      <3>1. PICK m2, l2 : Free(t, i, m2, l2) /\ s[r] = MadeAt(t, i, m2, l2) /\ s[r] \in Alike(t, x)
        BY <1>8, <2>4
      <3>2. MadeAt(t, i, m2, l2).id = x.id /\ MadeAt(t, i, m2, l2).content = x.content
        BY <3>1 DEF Alike
      <3>3. Place(t, i, m, l) /\ Place(t, i, m2, l2)
        BY <2>2, <3>1 DEF Free
      <3>4. MadeAt(t, i, m, l).id = MadeAt(t, i, m2, l2).id
            /\ MadeAt(t, i, m, l).content = MadeAt(t, i, m2, l2).content
        BY <2>3, <3>2
      <3>5. m = m2 /\ l = l2
        BY <3>3, <3>4, SamePlace
      <3> QED BY <3>1, <3>5
    <2>5. ASSUME NEW r \in DOMAIN s, s[r] = y PROVE e[r] = EtId(t, i)
      <3>1. e[r] = y.et_ids[1]
        BY <1>3, <2>5
      <3>2. y.et_ids[1] = EtId(t, i)
        BY <1>6, <2>2
      <3> QED BY <3>1, <3>2
    <2>6. Count(U, {y}) = 1
      BY <2>2, UngroupedOnce DEF U
    <2> HIDE DEF y
    <2>7. Keys(e, EtId(t, i)) = {r \in DOMAIN s : s[r] \in {y}}
      BY <1>3, <2>4, <2>5 DEF Keys
    <2>8. Count(s, {y}) = Count(U, Alike(t, x) \cap {y})
      BY <1>4, CountSelect
    <2>9. Alike(t, x) \cap {y} = {y}
      BY <2>3
    <2>10. Cardinality(Keys(e, EtId(t, i))) = 1
      BY <2>6, <2>7, <2>8, <2>9 DEF Count
    <2> QED BY <2>2, <2>3, <2>10 DEF y
  <1>10. \A q \in DOMAIN e : \E j \in 1..L : e[q] = EtId(t, j)
    BY <1>3, <1>7
  <1> QED BY <1>9, <1>10 DEF e

\* A source that is not in an atomic group has its et_id in the reduced one.
LEMMA KeyOfFree ==
  ASSUME NEW L, Ready(L), NEW t \in 1..TRT, NEW i \in 1..L, NEW n, NEW k, Free(t, i, n, k)
  PROVE  /\ MadeAt(t, i, n, k) \in ToSet(Ungrouped(t))
         /\ Keys(Reduced(t, MadeAt(t, i, n, k)).et_ids, EtId(t, i)) # {}
  <1> DEFINE x == MadeAt(t, i, n, k)  s == Same(t, x)  e == Reduced(t, x).et_ids
  <1>1. x \in ToSet(Ungrouped(t))
    <2>1. IsFree(L, t, x)
      BY DEF IsFree
    <2> HIDE DEF x
    <2> QED BY <2>1, UngroupedIs
  <1>2. x.et_ids = <<EtId(t, i)>>
    <2>1. Place(t, i, n, k)
      BY DEF Free
    <2> QED BY <2>1, MadeIs
  <1> HIDE DEF x
  <1>3. /\ DOMAIN s = 1..Len(s) /\ \A y : y \in ToSet(s) <=> y \in Alike(t, x)
    BY <1>1, SameIs
  <1>4. e = [q \in 1..Len(s) |-> s[q].et_ids[1]]
    BY <1>1, ReducedIs
  <1>5. x \in Alike(t, x)
    BY <1>1 DEF Alike
  <1> HIDE DEF s, e
  <1>6. PICK q \in DOMAIN s : s[q] = x
    BY <1>3, <1>5 DEF ToSet
  <1>7. e[q] = EtId(t, i) /\ q \in DOMAIN e
    BY <1>2, <1>3, <1>4, <1>6
  <1>8. Keys(e, EtId(t, i)) # {}
    BY <1>7 DEF Keys
  <1> QED BY <1>1, <1>8 DEF x, e

\* The group of the composite source model with the reduced sources of some et_ids, and
\* the one made of an atomic group
Regrouped(t, e) == [trt |-> t, sources |-> {s \in reduce_sources(Ungrouped(t)) : s.et_ids = e}]
Atomic(t, i, n) == [trt |-> t, sources |-> ToSet(_build_groups(sm_rlzs[i])[n].sources)]

\* What stands for a source in the composite source model, and its group
SourceOf(t, i, n, k) ==
  IF GroupsAt(i)[n].atomic THEN MadeAt(t, i, n, k) ELSE Reduced(t, MadeAt(t, i, n, k))
GroupOf(t, i, n, k) ==
  IF GroupsAt(i)[n].atomic THEN Atomic(t, i, n)
  ELSE Regrouped(t, Reduced(t, MadeAt(t, i, n, k)).et_ids)

\* The groups that are not atomic
LEMMA RegroupIs ==
  ASSUME NEW t \in 1..TRT
  PROVE  /\ reduce_sources(Ungrouped(t)) = {Reduced(t, x) : x \in ToSet(Ungrouped(t))}
         /\ Regroup(AllGroups, t) = {Regrouped(t, Reduced(t, x).et_ids) : x \in ToSet(Ungrouped(t))}
  <1> DEFINE R == reduce_sources(Ungrouped(t))  U == ToSet(Ungrouped(t))
  <1>1. R = {Reduced(t, x) : x \in U}
    BY DEF reduce_sources, Reduced, Same, Alike
  <1>2. Regroup(AllGroups, t) = {Regrouped(t, e) : e \in {s.et_ids : s \in R}}
    BY DEF Regroup, Ungrouped, Regrouped
  <1> HIDE DEF R, U
  <1>3. {s.et_ids : s \in R} = {Reduced(t, x).et_ids : x \in U}
    BY <1>1
  <1>4. {Regrouped(t, e) : e \in {Reduced(t, x).et_ids : x \in U}}
          = {Regrouped(t, Reduced(t, x).et_ids) : x \in U}
    OBVIOUS
  <1> QED BY <1>1, <1>2, <1>3, <1>4 DEF R, U

\* Each source of an effective realization is in the composite source model.
LEMMA SourceIsThere ==
  ASSUME NEW L, Ready(L), csm = _get_csm(AllGroups), NEW t \in 1..TRT, NEW i \in 1..L,
         NEW n, NEW k, Place(t, i, n, k)
  PROVE  /\ GroupOf(t, i, n, k) \in csm /\ GroupOf(t, i, n, k).trt = t
         /\ SourceOf(t, i, n, k) \in GroupOf(t, i, n, k).sources
         /\ SourceOf(t, i, n, k).id = MadeAt(t, i, n, k).id
         /\ SourceOf(t, i, n, k).content = MadeAt(t, i, n, k).content
         /\ Keys(SourceOf(t, i, n, k).et_ids, EtId(t, i)) # {}
  <1> DEFINE x == MadeAt(t, i, n, k)
  <1>1. CASE GroupsAt(i)[n].atomic
    <2> DEFINE h == _build_groups(sm_rlzs[i])[n]  g == Atomic(t, i, n)
    <2>1. /\ h.trt = t /\ h.atomic /\ DOMAIN h.sources = 1..Len(GroupsAt(i)[n].sources)
          /\ h.sources[k] = x /\ x.et_ids = <<EtId(t, i)>>
      BY <1>1, MadeIs
    <2>2. k \in DOMAIN h.sources
      BY <2>1 DEF Place
    <2>3. x \in ToSet(h.sources) /\ h.sources # << >>
      BY <2>1, <2>2 DEF ToSet
    <2>4. h \in ToSet(AllGroups)
      <3>1. TreeInv /\ ValuesInv /\ L \in Nat /\ DOMAIN sm_rlzs = 1..L
            /\ \A j \in 1..L : WayFrom(1, sm_rlzs[j].path)
        BY DEF Ready
      <3>2. \A j \in 1..L : \A m \in 1..Len(ModelGroups(sm_rlzs[j])) :
              _build_groups(sm_rlzs[j])[m] \in ToSet(AllGroups)
        BY <3>1, AllGroupsAre
      <3>3. n \in 1..Len(ModelGroups(sm_rlzs[i]))
        BY DEF Place, GroupsAt
      <3> QED BY <3>2, <3>3
    <2>5. g = [trt |-> h.trt, sources |-> ToSet(h.sources)]
      BY <2>1 DEF Atomic
    <2> HIDE DEF h, x
    <2>6. g \in _get_csm(AllGroups)
      BY <2>1, <2>3, <2>4, <2>5 DEF _get_csm
    <2>7. Keys(x.et_ids, EtId(t, i)) # {}
      BY <2>1 DEF Keys
    <2>8. SourceOf(t, i, n, k) = x /\ GroupOf(t, i, n, k) = g
      BY <1>1 DEF SourceOf, GroupOf, x
    <2> QED BY <2>1, <2>3, <2>5, <2>6, <2>7, <2>8 DEF x
  <1>2. CASE ~GroupsAt(i)[n].atomic
    <2> DEFINE R == Reduced(t, x)  g == Regrouped(t, R.et_ids)
    <2>1. Free(t, i, n, k)
      BY <1>2 DEF Free
    <2>2. x \in ToSet(Ungrouped(t)) /\ Keys(R.et_ids, EtId(t, i)) # {}
      BY <2>1, KeyOfFree
    <2>3. SourceOf(t, i, n, k) = R /\ GroupOf(t, i, n, k) = g
      BY <1>2 DEF SourceOf, GroupOf
    <2> HIDE DEF x
    <2>4. R.id = x.id /\ R.content = x.content
      BY <2>2, ReducedIs
    <2>5. g \in Regroup(AllGroups, t) /\ R \in reduce_sources(Ungrouped(t))
      BY <2>2, RegroupIs
    <2>6. R \in g.sources /\ g.trt = t
      BY <2>5 DEF Regrouped
    <2> HIDE DEF R, g
    <2>7. g \in csm
      BY <2>5 DEF _get_csm
    <2> QED BY <2>2, <2>3, <2>4, <2>6, <2>7 DEF x, R
  <1> QED BY <1>1, <1>2

\* The et_ids of a source s of the group g: those of the group, each that of an effective
\* realization; that of i is there once, for a source of i that s stands for, or not at all.
Known(L, t, g, s) ==
  /\ get_et_ids(g) = s.et_ids
  /\ \A q \in DOMAIN s.et_ids : \E j \in 1..L : s.et_ids[q] = EtId(t, j)
  /\ \A i \in 1..L :
       \/ Keys(s.et_ids, EtId(t, i)) = {}
       \/ /\ Cardinality(Keys(s.et_ids, EtId(t, i))) = 1
          /\ \E n, k : Place(t, i, n, k) /\ g = GroupOf(t, i, n, k) /\ s = SourceOf(t, i, n, k)

\* The sources of the groups that are not atomic
LEMMA RegroupedKnown ==
  ASSUME NEW L, Ready(L), NEW t \in 1..TRT, NEW g \in Regroup(AllGroups, t), NEW s \in g.sources
  PROVE  Known(L, t, g, s)
  <1> DEFINE U == ToSet(Ungrouped(t))
  <1>1. PICK e : g = Regrouped(t, e)
    BY RegroupIs
  <1>2. s.et_ids = e /\ s \in reduce_sources(Ungrouped(t)) /\ \A y \in g.sources : y.et_ids = e
    BY <1>1 DEF Regrouped
  <1>3. PICK x \in U : s = Reduced(t, x)
    BY <1>2, RegroupIs
  <1>4. get_et_ids(g) = s.et_ids
    BY <1>2 DEF get_et_ids
  <1> HIDE DEF U
  <1>5. \A q \in DOMAIN s.et_ids : \E j \in 1..L : s.et_ids[q] = EtId(t, j)
    <2>1. ASSUME NEW i \in 1..L
          PROVE  \A q \in DOMAIN s.et_ids : \E j \in 1..L : s.et_ids[q] = EtId(t, j)
      BY <1>3, KeysOfReduced DEF U
    <2>2. \E i \in 1..L : TRUE
      <3>1. IsFree(L, t, x)
        BY <1>3, UngroupedIs DEF U
      <3> QED BY <3>1 DEF IsFree
    <2> QED BY <2>1, <2>2
  <1>6. ASSUME NEW i \in 1..L, Keys(s.et_ids, EtId(t, i)) # {}
        PROVE  /\ Cardinality(Keys(s.et_ids, EtId(t, i))) = 1
               /\ \E n, k : Place(t, i, n, k) /\ g = GroupOf(t, i, n, k) /\ s = SourceOf(t, i, n, k)
    <2>1. /\ Cardinality(Keys(s.et_ids, EtId(t, i))) = 1
          /\ \E m, l : Free(t, i, m, l) /\ MadeAt(t, i, m, l) \in Alike(t, x)
      BY <1>3, <1>6, KeysOfReduced DEF U
    <2>2. PICK m, l : Free(t, i, m, l) /\ MadeAt(t, i, m, l) \in Alike(t, x)
      BY <2>1
    <2>3. Reduced(t, MadeAt(t, i, m, l)) = s
      <3> DEFINE y == MadeAt(t, i, m, l)
      <3>1. y \in Alike(t, x)
        BY <2>2
      <3> HIDE DEF y
      <3>2. Reduced(t, y) = Reduced(t, x)
        BY <1>3, <3>1, ReducedIs DEF U
      <3> QED BY <1>3, <3>2 DEF y
    <2>4. SourceOf(t, i, m, l) = s /\ GroupOf(t, i, m, l) = Regrouped(t, s.et_ids)
      BY <2>2, <2>3 DEF Free, SourceOf, GroupOf
    <2>5. Place(t, i, m, l)
      BY <2>2 DEF Free
    <2> QED BY <1>1, <1>2, <2>1, <2>4, <2>5
  <1> QED BY <1>4, <1>5, <1>6 DEF Known

\* The sources of the atomic groups
LEMMA AtomicKnown ==
  ASSUME NEW L, Ready(L), NEW t \in 1..TRT, NEW h \in ToSet(AllGroups), h.atomic, h.trt = t,
         NEW g, g = [trt |-> t, sources |-> ToSet(h.sources)], NEW s \in g.sources
  PROVE  Known(L, t, g, s)
  <1>1. /\ TreeInv /\ ValuesInv /\ RlzInv /\ L \in Nat /\ DOMAIN sm_rlzs = 1..L
        /\ \A i \in 1..L : WayFrom(1, sm_rlzs[i].path)
    BY DEF Ready
  <1>2. \E j \in 1..L : \E n \in 1..Len(ModelGroups(sm_rlzs[j])) : h = _build_groups(sm_rlzs[j])[n]
    BY <1>1, AllGroupsAre
  <1>3. PICK j \in 1..L : \E n \in 1..Len(GroupsAt(j)) : h = _build_groups(sm_rlzs[j])[n]
    BY <1>2 DEF GroupsAt
  <1>4. PICK n \in 1..Len(GroupsAt(j)) : h = _build_groups(sm_rlzs[j])[n]
    BY <1>3
  <1> DEFINE N == Len(GroupsAt(j)[n].sources)
  <1>5. /\ GroupsAt(j)[n].trt = t /\ GroupsAt(j)[n].atomic /\ DOMAIN h.sources = 1..N
    <2> DEFINE sm == sm_rlzs[j]
    <2>1. WayFrom(1, sm.path) /\ n \in 1..Len(ModelGroups(sm)) /\ h = _build_groups(sm)[n]
      BY <1>1, <1>4 DEF GroupsAt
    <2> HIDE DEF sm, N
    <2> DEFINE b == _build_groups(sm)[n]
    <2>2. /\ b.trt = ModelGroups(sm)[n].trt /\ b.atomic = ModelGroups(sm)[n].atomic
          /\ b.sources = [k \in 1..Len(ModelGroups(sm)[n].sources) |->
                            Made(sm, ModelGroups(sm)[n].trt, ModelGroups(sm)[n].sources[k])]
      BY <1>1, <2>1, BuiltGroups
    <2>3. DOMAIN b.sources = 1..Len(ModelGroups(sm)[n].sources)
      BY <2>2
    <2> HIDE DEF b
    <2>4. h = b
      BY <2>1 DEF b
    <2> QED BY <2>2, <2>3, <2>4 DEF GroupsAt, sm, N
  <1>6. \A k \in 1..N : Place(t, j, n, k)
    BY <1>4, <1>5 DEF Place
  <1>7. \A k \in 1..N : h.sources[k] = MadeAt(t, j, n, k) /\ h.sources[k].et_ids = <<EtId(t, j)>>
    <2> TAKE k \in 1..N
    <2>1. Place(t, j, n, k)
      BY <1>6
    <2>2. /\ _build_groups(sm_rlzs[j])[n].sources[k] = MadeAt(t, j, n, k)
          /\ MadeAt(t, j, n, k).et_ids = <<EtId(t, j)>>
      BY <2>1, MadeIs
    <2> QED BY <1>4, <2>2
  <1> HIDE DEF N
  <1>8. PICK k \in 1..N : s = h.sources[k]
    BY <1>5 DEF ToSet
  <1>9. \A y \in g.sources : y.et_ids = <<EtId(t, j)>>
    BY <1>5, <1>7 DEF ToSet
  <1>10. get_et_ids(g) = s.et_ids /\ s.et_ids = <<EtId(t, j)>>
    BY <1>9 DEF get_et_ids
  <1>11. s = SourceOf(t, j, n, k) /\ g = GroupOf(t, j, n, k)
    BY <1>4, <1>5, <1>7, <1>8 DEF SourceOf, GroupOf, Atomic
  <1>12. \A i \in 1..L : Keys(s.et_ids, EtId(t, i)) = IF i = j THEN {1} ELSE {}
    <2> TAKE i \in 1..L
    <2>1. EtId(t, j) = EtId(t, i) => j = i
      BY <1>1, EtIdsDiffer
    <2> HIDE DEF EtId
    <2>2. DOMAIN <<EtId(t, j)>> = {1} /\ <<EtId(t, j)>>[1] = EtId(t, j)
      OBVIOUS
    <2> QED BY <1>10, <2>1, <2>2 DEF Keys
  <1>13. \A q \in DOMAIN s.et_ids : s.et_ids[q] = EtId(t, j)
    BY <1>10
  <1>14. ASSUME NEW i \in 1..L, Keys(s.et_ids, EtId(t, i)) # {}
         PROVE  /\ Cardinality(Keys(s.et_ids, EtId(t, i))) = 1
                /\ \E m, l : Place(t, i, m, l) /\ g = GroupOf(t, i, m, l) /\ s = SourceOf(t, i, m, l)
    <2>1. i = j /\ Keys(s.et_ids, EtId(t, i)) = {1}
      BY <1>12, <1>14
    <2>2. Cardinality({1}) = 1
      BY FS_Singleton
    <2> QED BY <1>6, <1>11, <2>1, <2>2
  <1> QED BY <1>10, <1>13, <1>14 DEF Known

\* The sources of the composite source model
LEMMA SourceIsKnown ==
  ASSUME NEW L, Ready(L), csm = _get_csm(AllGroups), NEW g \in csm, NEW t \in 1..TRT, g.trt = t,
         NEW s \in g.sources
  PROVE  Known(L, t, g, s)
  <1>1. CASE \E u \in 1..TRT : g \in Regroup(AllGroups, u)
    <2>1. PICK u \in 1..TRT : g \in Regroup(AllGroups, u)
      BY <1>1
    <2>2. PICK e : g = Regrouped(u, e)
      BY <2>1, RegroupIs
    <2>3. u = t
      BY <2>2 DEF Regrouped
    <2> QED BY <2>1, <2>3, RegroupedKnown
  <1>2. CASE g \in {[trt |-> h.trt, sources |-> ToSet(h.sources)] :
                      h \in {h \in ToSet(AllGroups) : h.atomic /\ h.sources # << >>}}
    <2>1. PICK h \in ToSet(AllGroups) :
            h.atomic /\ g = [trt |-> h.trt, sources |-> ToSet(h.sources)]
      BY <1>2
    <2>2. h.trt = t
      BY <2>1
    <2>3. g = [trt |-> t, sources |-> ToSet(h.sources)]
      BY <2>1, <2>2
    <2> QED BY <2>1, <2>2, <2>3, AtomicKnown
  <1> QED BY <1>1, <1>2 DEF _get_csm

\* The realization k is one of the effective realization i.
OfRealization(L, k, i) ==
  /\ Agree(gsims, num_samples, sm_rlzs, rlzs)
  /\ i \in 1..L /\ k \in DOMAIN rlzs /\ rlzs[k].path = sm_rlzs[i].path

\* get_rlzs_by_gsim gives a realization to its own GSIM, for its effective realization.
LEMMA RlzsOf ==
  ASSUME NEW L, Ready(L), NEW t \in 1..TRT, NEW k, NEW i, OfRealization(L, k, i),
         NEW j \in 1..L, NEW x \in 1..gsims[t]
  PROVE  k - 1 \in get_rlzs_by_gsim(EtId(t, j))[x] <=> rlzs[k].gsim[t] = x /\ j = i
  <1>1. /\ TreeInv /\ RlzInv /\ L \in Nat /\ DOMAIN sm_rlzs = 1..L
        /\ Agree(gsims, num_samples, sm_rlzs, rlzs)
    BY DEF Ready, OfRealization
  <1>2. get_trti_eri(EtId(t, j)) = <<t - 1, j - 1>>
    BY <1>1, EtIdsDiffer
  <1>3. get_trti_eri(EtId(t, j))[1] + 1 = t /\ get_trti_eri(EtId(t, j))[2] = j - 1
    BY <1>2, LogicTreeAssumption
  <1>4. get_rlzs_by_gsim(EtId(t, j))[x]
          = {n - 1 : n \in {n \in DOMAIN rlzs : rlzs[n].gsim[t] = x
                                               /\ get_eri_by_ltp(rlzs[n].path) = j - 1}}
    BY <1>3 DEF get_rlzs_by_gsim
  <1>5. i \in 1..L /\ k \in DOMAIN rlzs /\ get_eri_by_ltp(rlzs[k].path) = i - 1
    <2>1. \A m \in DOMAIN sm_rlzs : get_eri_by_ltp(sm_rlzs[m].path) = m - 1
      BY <1>1, Numbers
    <2> QED BY <1>1, <2>1 DEF OfRealization
  <1>6. Len(rlzs) \in Nat /\ DOMAIN rlzs = 1..Len(rlzs)
    BY <1>1 DEF Agree
  <1>7. k - 1 \in get_rlzs_by_gsim(EtId(t, j))[x]
          <=> rlzs[k].gsim[t] = x /\ get_eri_by_ltp(rlzs[k].path) = j - 1
    <2>1. \A n \in DOMAIN rlzs : n \in Int /\ (n - 1 = k - 1 <=> n = k)
      BY <1>5, <1>6
    <2> QED BY <1>4, <1>5, <2>1
  <1>8. i - 1 = j - 1 <=> j = i
    BY <1>1, <1>5
  <1> QED BY <1>5, <1>7, <1>8

\* How often it is in the list of a GSIM, for a group of the composite source model
LEMMA TimesInGroup ==
  ASSUME NEW L, Ready(L), NEW t \in 1..TRT, NEW k, NEW i, OfRealization(L, k, i),
         NEW g, NEW s \in g.sources, Known(L, t, g, s), NEW x \in 1..gsims[t]
  PROVE  TimesIn(k - 1, g, x)
           = IF rlzs[k].gsim[t] = x THEN Cardinality(Keys(s.et_ids, EtId(t, i))) ELSE 0
  <1> DEFINE e == s.et_ids
  <1>1. get_et_ids(g) = e /\ \A q \in DOMAIN e : \E j \in 1..L : e[q] = EtId(t, j)
    BY DEF Known
  <1>2. i \in 1..L /\ RlzInv /\ L \in Nat /\ DOMAIN sm_rlzs = 1..L
    BY DEF OfRealization, Ready
  <1> HIDE DEF e
  <1>3. ASSUME NEW q \in DOMAIN e
        PROVE  k - 1 \in get_rlzs_by_gsim(e[q])[x] <=> rlzs[k].gsim[t] = x /\ e[q] = EtId(t, i)
    <2>1. PICK j \in 1..L : e[q] = EtId(t, j)
      BY <1>1
    <2>2. k - 1 \in get_rlzs_by_gsim(EtId(t, j))[x] <=> rlzs[k].gsim[t] = x /\ j = i
      BY RlzsOf
    <2>3. EtId(t, j) = EtId(t, i) => j = i
      BY <1>2, EtIdsDiffer
    <2> QED BY <2>1, <2>2, <2>3
  <1> DEFINE A == {q \in DOMAIN e : k - 1 \in get_rlzs_by_gsim(e[q])[x]}
  <1>4. TimesIn(k - 1, g, x) = Cardinality(A)
    BY <1>1 DEF TimesIn
  <1>5. A = IF rlzs[k].gsim[t] = x THEN Keys(e, EtId(t, i)) ELSE {}
    BY <1>3 DEF Keys
  <1> HIDE DEF A
  <1>6. Cardinality({}) = 0
    BY FS_EmptySet
  <1> QED BY <1>4, <1>5, <1>6 DEF e

\* The sources in the files of the effective realization i
OwnSourcesAt(t, i) == OwnSources(sm_rlzs[i].path, t)

\* They are finitely many, those of the places.
LEMMA OwnSourcesAre ==
  ASSUME NEW L, Ready(L), NEW t \in 1..TRT, NEW i \in 1..L
  PROVE  /\ IsFiniteSet(OwnSourcesAt(t, i))
         /\ \A s : s \in OwnSourcesAt(t, i) <=> \E n, k : Place(t, i, n, k) /\ s = SourceAt(i, n, k)
  <1> DEFINE G == GroupsAt(i)
  <1>1. /\ Len(G) \in Nat /\ DOMAIN G = 1..Len(G)
        /\ \A n \in 1..Len(G) : G[n].sources \in Seq(Source)
    <2> DEFINE sm == sm_rlzs[i]
    <2>1. TreeInv /\ ValuesInv /\ WayFrom(1, sm.path)
      BY DEF Ready
    <2> HIDE DEF sm
    <2>2. /\ Len(ModelGroups(sm)) \in Nat /\ DOMAIN ModelGroups(sm) = 1..Len(ModelGroups(sm))
          /\ \A n \in 1..Len(ModelGroups(sm)) : ModelGroups(sm)[n].sources \in Seq(Source)
      BY <2>1, BuiltGroups
    <2> QED BY <2>2 DEF GroupsAt, sm
  <1> HIDE DEF G
  <1>2. \A n \in 1..Len(G) : DOMAIN G[n].sources = 1..Len(G[n].sources) /\ Len(G[n].sources) \in Nat
    BY <1>1
  <1> DEFINE N == {n \in DOMAIN G : G[n].trt = t}  S(n) == ToSet(G[n].sources)
  <1>3. IsFiniteSet(N)
    <2>1. IsFiniteSet(1..Len(G))
      BY <1>1, FS_Interval
    <2>2. N \subseteq 1..Len(G)
      BY <1>1
    <2> HIDE DEF N
    <2> QED BY <2>1, <2>2, FS_Subset
  <1>4. \A n \in N : IsFiniteSet(S(n))
    <2> TAKE n \in N
    <2> DEFINE s == G[n].sources
    <2>1. s \in [1..Len(s) -> Source] /\ Len(s) \in Nat
      <3>1. s \in Seq(Source)
        BY <1>1
      <3> HIDE DEF s
      <3> QED BY <3>1
    <2> HIDE DEF s
    <2>2. IsFiniteSet(ToSet(s))
      BY <2>1, FinitelyMany
    <2> QED BY <2>2 DEF s
  <1> HIDE DEF N, S
  <1>5. IsFiniteSet({S(n) : n \in N})
    <2> DEFINE W == {S(n) : n \in N}  f == [n \in N |-> S(n)]
    <2>1. f \in Surjection(N, W)
      BY DEF Surjection
    <2> HIDE DEF W, f
    <2>2. IsFiniteSet(W)
      BY <1>3, <2>1, FS_Surjection
    <2> QED BY <2>2 DEF W
  <1>6. IsFiniteSet(UNION {S(n) : n \in N})
    <2> DEFINE W == {S(n) : n \in N}
    <2>1. \A w \in W : IsFiniteSet(w)
      BY <1>4
    <2>2. IsFiniteSet(W)
      BY <1>5
    <2> HIDE DEF W
    <2>3. IsFiniteSet(UNION W)
      BY <2>1, <2>2, FS_UNION
    <2> QED BY <2>3 DEF W
  <1>7. OwnSourcesAt(t, i) = UNION {S(n) : n \in N}
    BY DEF OwnSourcesAt, OwnSources, N, S, G, GroupsAt, ModelGroups
  <1>8. \A n : n \in N <=> n \in 1..Len(G) /\ G[n].trt = t
    BY <1>1 DEF N
  <1>9. ASSUME NEW n \in N, NEW s
        PROVE  s \in S(n) <=> \E k \in 1..Len(G[n].sources) : s = G[n].sources[k]
    BY <1>2, <1>8 DEF S, ToSet
  <1>10. ASSUME NEW s
         PROVE  s \in OwnSourcesAt(t, i) <=> \E n, k : Place(t, i, n, k) /\ s = SourceAt(i, n, k)
    <2>1. s \in OwnSourcesAt(t, i) <=> \E n \in N : s \in S(n)
      BY <1>7
    <2>2. \A n, k : Place(t, i, n, k) <=> n \in N /\ k \in 1..Len(G[n].sources)
      BY <1>8 DEF Place, G
    <2> QED BY <1>9, <2>1, <2>2 DEF SourceAt, G
  <1> QED BY <1>6, <1>7, <1>10

\* What a realization has of the composite source model
LEMMA GotIs ==
  ASSUME NEW L, Ready(L), csm = _get_csm(AllGroups), NEW t \in 1..TRT, NEW k, NEW i,
         OfRealization(L, k, i)
  PROVE  /\ \A y \in GotSources(k, t) :
              /\ y[3] = rlzs[k].gsim[t] /\ TimesIn(k - 1, y[1], y[3]) = 1
              /\ \E n, l : Place(t, i, n, l)
                           /\ y = <<GroupOf(t, i, n, l), SourceOf(t, i, n, l), rlzs[k].gsim[t]>>
         /\ \A n, l : Place(t, i, n, l) =>
              <<GroupOf(t, i, n, l), SourceOf(t, i, n, l), rlzs[k].gsim[t]>> \in GotSources(k, t)
  <1> DEFINE x == rlzs[k].gsim[t]
  <1>1. x \in 1..gsims[t] /\ i \in 1..L
    BY DEF OfRealization, Agree, Values
  <1> HIDE DEF x
  <1>2. x = rlzs[k].gsim[t]
    BY DEF x
  <1>3. ASSUME NEW y \in GotSources(k, t)
        PROVE  /\ y[3] = x /\ TimesIn(k - 1, y[1], y[3]) = 1
               /\ \E n, l : Place(t, i, n, l) /\ y = <<GroupOf(t, i, n, l), SourceOf(t, i, n, l), x>>
    <2>1. PICK g \in csm : g.trt = t /\ \E s \in g.sources : \E z \in 1..gsims[t] :
                             TimesIn(k - 1, g, z) > 0 /\ y = <<g, s, z>>
      BY DEF GotSources
    <2>2. PICK s \in g.sources : \E z \in 1..gsims[t] : TimesIn(k - 1, g, z) > 0 /\ y = <<g, s, z>>
      BY <2>1
    <2>3. PICK z \in 1..gsims[t] : TimesIn(k - 1, g, z) > 0 /\ y = <<g, s, z>>
      BY <2>2
    <2>4. Known(L, t, g, s)
      BY <2>1, SourceIsKnown
    <2>5. TimesIn(k - 1, g, z) = IF x = z THEN Cardinality(Keys(s.et_ids, EtId(t, i))) ELSE 0
      BY <1>2, <2>4, TimesInGroup
    <2>6. x = z /\ TimesIn(k - 1, g, z) = Cardinality(Keys(s.et_ids, EtId(t, i)))
      BY <2>3, <2>5
    <2>7. Keys(s.et_ids, EtId(t, i)) # {}
      BY <2>3, <2>6, FS_EmptySet
    <2>8. /\ Cardinality(Keys(s.et_ids, EtId(t, i))) = 1
          /\ \E n, l : Place(t, i, n, l) /\ g = GroupOf(t, i, n, l) /\ s = SourceOf(t, i, n, l)
      BY <1>1, <2>4, <2>7 DEF Known
    <2> QED BY <2>3, <2>6, <2>8
  <1>4. ASSUME NEW n, NEW l, Place(t, i, n, l)
        PROVE  <<GroupOf(t, i, n, l), SourceOf(t, i, n, l), x>> \in GotSources(k, t)
    <2> DEFINE g == GroupOf(t, i, n, l)  s == SourceOf(t, i, n, l)
    <2>1. g \in csm /\ g.trt = t /\ s \in g.sources /\ Keys(s.et_ids, EtId(t, i)) # {}
      BY <1>1, <1>4, SourceIsThere
    <2> HIDE DEF g, s
    <2>2. Known(L, t, g, s)
      BY <2>1, SourceIsKnown
    <2>3. Cardinality(Keys(s.et_ids, EtId(t, i))) = 1
      BY <1>1, <2>1, <2>2 DEF Known
    <2>4. TimesIn(k - 1, g, x) = 1
      BY <1>1, <1>2, <2>1, <2>2, <2>3, TimesInGroup
    <2> QED BY <1>1, <2>1, <2>4 DEF GotSources, g, s
  <1> QED BY <1>2, <1>3, <1>4

\* The names of the sources, in the files and in the composite source model
LEMMA NamesAre ==
  ASSUME NEW L, Ready(L), csm = _get_csm(AllGroups), NEW t \in 1..TRT, NEW i \in 1..L,
         NEW n, NEW k, Place(t, i, n, k)
  PROVE  /\ SourceOf(t, i, n, k).id = MadeAt(t, i, n, k).id
         /\ SourceOf(t, i, n, k).content = MadeAt(t, i, n, k).content
         /\ SourceAt(i, n, k).id = MadeAt(t, i, n, k).id
         /\ apply_uncertainties(SourceAt(i, n, k), Uncertainties(sm_rlzs[i].path))
              = MadeAt(t, i, n, k).content
  <1>1. /\ SourceOf(t, i, n, k).id = MadeAt(t, i, n, k).id
        /\ SourceOf(t, i, n, k).content = MadeAt(t, i, n, k).content
    BY SourceIsThere
  <1>2. /\ SourceAt(i, n, k).id = MadeAt(t, i, n, k).id
        /\ apply_uncertainties(SourceAt(i, n, k), Uncertainties(sm_rlzs[i].path))
             = MadeAt(t, i, n, k).content
    BY MadeIs
  <1> QED BY <1>1, <1>2

\* A realization gets the sources of its own files, with its own changes, each once.
LEMMA GetsItsSources ==
  ASSUME NEW L, Ready(L), csm = _get_csm(AllGroups), NEW t \in 1..TRT, NEW k, NEW i,
         OfRealization(L, k, i)
  PROVE  /\ Cardinality(GotSources(k, t)) = Cardinality(OwnSourcesAt(t, i))
         /\ {<<x[2].id, x[2].content>> : x \in GotSources(k, t)}
              = {<<s.id, apply_uncertainties(s, Uncertainties(sm_rlzs[i].path))>> :
                   s \in OwnSourcesAt(t, i)}
  <1> DEFINE own == OwnSourcesAt(t, i)  got == GotSources(k, t)
             brs == Uncertainties(sm_rlzs[i].path)
             y(n, l) == <<GroupOf(t, i, n, l), SourceOf(t, i, n, l), rlzs[k].gsim[t]>>
             a == [s \in own |-> <<s.id, apply_uncertainties(s, brs)>>]
             b == [x \in got |-> <<x[2].id, x[2].content>>]
             name(n, l) == <<MadeAt(t, i, n, l).id, MadeAt(t, i, n, l).content>>
  <1>0. i \in 1..L
    BY DEF OfRealization
  <1>1. IsFiniteSet(own)
    BY <1>0, OwnSourcesAre
  <1>2. \A s : s \in own <=> \E n, l : Place(t, i, n, l) /\ s = SourceAt(i, n, l)
    BY <1>0, OwnSourcesAre
  <1>3. \A x \in got : \E n, l : Place(t, i, n, l) /\ x = y(n, l)
    <2> HIDE DEF own, brs
    <2> QED BY GotIs
  <1>4. \A n, l : Place(t, i, n, l) => y(n, l) \in got
    BY GotIs
  <1> HIDE DEF own, got
  <1>5. ASSUME NEW n, NEW l, Place(t, i, n, l)
        PROVE  /\ SourceAt(i, n, l) \in own /\ a[SourceAt(i, n, l)] = name(n, l)
               /\ y(n, l) \in got /\ b[y(n, l)] = name(n, l)
    <2>1. /\ SourceOf(t, i, n, l).id = MadeAt(t, i, n, l).id
          /\ SourceOf(t, i, n, l).content = MadeAt(t, i, n, l).content
          /\ SourceAt(i, n, l).id = MadeAt(t, i, n, l).id
          /\ apply_uncertainties(SourceAt(i, n, l), brs) = MadeAt(t, i, n, l).content
      BY <1>0, <1>5, NamesAre
    <2>2. SourceAt(i, n, l) \in own /\ y(n, l) \in got
      BY <1>2, <1>4, <1>5
    <2>3. y(n, l)[2] = SourceOf(t, i, n, l)
      OBVIOUS
    <2> HIDE DEF brs, y
    <2> QED BY <2>1, <2>2, <2>3
  <1>6. ASSUME NEW n, NEW l, NEW m, NEW q, Place(t, i, n, l), Place(t, i, m, q), name(n, l) = name(m, q)
        PROVE  n = m /\ l = q
    <2>1. /\ MadeAt(t, i, n, l).id = MadeAt(t, i, m, q).id
          /\ MadeAt(t, i, n, l).content = MadeAt(t, i, m, q).content
      BY <1>6
    <2> HIDE DEF name, y
    <2> QED BY <1>0, <1>6, <2>1, SamePlace
  <1>a. \A s \in own : a[s] = <<s.id, apply_uncertainties(s, brs)>>
    OBVIOUS
  <1>b. \A x \in got : b[x] = <<x[2].id, x[2].content>>
    OBVIOUS
  <1> HIDE DEF a, b, name, y, brs
  <1>7. \A x, z \in own : a[x] = a[z] => x = z
    <2> SUFFICES ASSUME NEW x \in own, NEW z \in own, a[x] = a[z] PROVE x = z
      OBVIOUS
    <2>1. PICK n, l : Place(t, i, n, l) /\ x = SourceAt(i, n, l)
      BY <1>2
    <2>2. PICK m, q : Place(t, i, m, q) /\ z = SourceAt(i, m, q)
      BY <1>2
    <2>3. name(n, l) = name(m, q)
      BY <1>5, <2>1, <2>2
    <2> QED BY <1>6, <2>1, <2>2, <2>3
  <1>8. \A x, z \in got : b[x] = b[z] => x = z
    <2> SUFFICES ASSUME NEW x \in got, NEW z \in got, b[x] = b[z] PROVE x = z
      OBVIOUS
    <2>1. PICK n, l : Place(t, i, n, l) /\ x = y(n, l)
      BY <1>3
    <2>2. PICK m, q : Place(t, i, m, q) /\ z = y(m, q)
      BY <1>3
    <2>3. name(n, l) = name(m, q)
      BY <1>5, <2>1, <2>2
    <2> QED BY <1>6, <2>1, <2>2, <2>3
  <1>9. \A x \in own : \E z \in got : a[x] = b[z]
    <2> TAKE x \in own
    <2>1. PICK n, l : Place(t, i, n, l) /\ x = SourceAt(i, n, l)
      BY <1>2
    <2> QED BY <1>5, <2>1
  <1>10. \A z \in got : \E x \in own : a[x] = b[z]
    <2> TAKE z \in got
    <2>1. PICK n, l : Place(t, i, n, l) /\ z = y(n, l)
      BY <1>3
    <2> QED BY <1>5, <2>1
  <1>11. Cardinality(own) = Cardinality(got)
    BY <1>1, <1>7, <1>8, <1>9, <1>10, SameNames
  <1>12. {<<x[2].id, x[2].content>> : x \in got} = {<<s.id, apply_uncertainties(s, brs)>> : s \in own}
    <2>1. {b[x] : x \in got} = {a[s] : s \in own}
      BY <1>9, <1>10
    <2>2. {b[x] : x \in got} = {<<x[2].id, x[2].content>> : x \in got}
      BY <1>b
    <2>3. {a[s] : s \in own} = {<<s.id, apply_uncertainties(s, brs)>> : s \in own}
      BY <1>a
    <2> QED BY <2>1, <2>2, <2>3
  <1> QED BY <1>11, <1>12 DEF own, got, brs

-----------------------------------------------------------------------------
(* In every state *)

\* The composite source model is made of the groups of all the realizations.
CsmInv ==
  pc = "csm" => csm = _get_csm(AllGroups) /\ \A i \in DOMAIN sm_rlzs : ~BadPath(sm_rlzs[i].path)

\* The composite source model stays what it is made of.
LEMMA NextCsmInv == CsmInv /\ [Next]_vars => CsmInv'
  <1> SUFFICES ASSUME CsmInv, [Next]_vars PROVE CsmInv'
    OBVIOUS
  <1> DEFINE C == _get_csm(AllGroups)  Bad == \E i \in DOMAIN sm_rlzs : BadPath(sm_rlzs[i].path)
  <1>1. ASSUME UNCHANGED <<bsets, bset, gsims, num_samples, sm_rlzs, rlzs>>
        PROVE  C' = C /\ Bad' = Bad
    <2>1. C' = C
      <3>1. AllGroups' = AllGroups
        BY <1>1 DEF AllGroups, _build_groups, Groups,
          ValueOf, Extension, Uncertainties, bset_values, apply_uncertainties, filter_source,
          get_et_id
      <3> QED BY <3>1
    <2>2. Bad' = Bad
      BY <1>1 DEF BadPath, AppliedTo, Ids, Groups, ValueOf, Extension
    <2> QED BY <2>1, <2>2
  <1>2. CASE NextTree
    BY <1>2 DEF NextTree, ParseSourceModels, ParseBranchset, Enumerate, Sample, CsmInv
  <1>3. CASE GetCsm
    <2>1. C' = C /\ Bad' = Bad
      BY <1>1, <1>3 DEF GetCsm
    <2>2. pc' = "csm" => csm' = C /\ ~Bad
      BY <1>3 DEF GetCsm
    <2>3. pc' = "csm" => csm' = C' /\ ~Bad'
      BY <2>1, <2>2
    <2> QED BY <2>3 DEF CsmInv
  <1>4. CASE UNCHANGED vars
    <2>1. C' = C /\ Bad' = Bad /\ pc' = pc /\ csm' = csm
      BY <1>1, <1>4 DEF vars, lt
    <2>2. pc = "csm" => csm = C /\ ~Bad
      BY DEF CsmInv
    <2>3. pc' = "csm" => csm' = C' /\ ~Bad'
      BY <2>1, <2>2
    <2> QED BY <2>3 DEF CsmInv
  <1> QED BY <1>2, <1>3, <1>4 DEF Next

\* It is what GetCsm set, in any state.
LEMMA CsmInvariant == Spec => []CsmInv
  <1>1. Init => CsmInv
    BY DEF Init, TreeInit, CsmInv
  <1> QED BY <1>1, NextCsmInv, PTL DEF Spec

\* If no file lists a source twice, every realization gets each source of its own model,
\* with the changes of its own path, under its own GSIM, once, and nothing else: for any
\* tree, files, branches of the GSIM logic tree and number of samples.
THEOREM RealizationsAlwaysGetTheirSources ==
  ASSUME SourcesOnce
  PROVE  Spec => []RealizationsGetTheirSources
  <1>1. TreeInv /\ ValuesInv /\ RlzInv /\ RlzsInv /\ CsmInv => RealizationsGetTheirSources
    <2> SUFFICES ASSUME TreeInv, ValuesInv, RlzInv, RlzsInv, CsmInv, pc = "csm"
                 PROVE  RealizationsGetTheirSources
      BY DEF RealizationsGetTheirSources
    <2>1. Agree(gsims, num_samples, sm_rlzs, rlzs)
      BY DEF RlzsInv
    <2>2. PICK L \in Nat : DOMAIN sm_rlzs = 1..L
      BY DEF RlzInv
    <2>3. csm = _get_csm(AllGroups) /\ \A i \in 1..L : ~BadPath(sm_rlzs[i].path)
      BY <2>2 DEF CsmInv
    <2>4. Ready(L)
      BY <2>1, <2>2, <2>3 DEF Ready, Agree
    <2>5. ASSUME NEW k \in DOMAIN rlzs, NEW t \in 1..TRT
          PROVE  /\ Cardinality(GotSources(k, t)) = Cardinality(OwnSources(rlzs[k].path, t))
                 /\ {<<x[2].id, x[2].content>> : x \in GotSources(k, t)}
                      = {<<s.id, apply_uncertainties(s, Uncertainties(rlzs[k].path))>> :
                           s \in OwnSources(rlzs[k].path, t)}
                 /\ \A x \in GotSources(k, t) :
                      x[3] = rlzs[k].gsim[t] /\ TimesIn(k - 1, x[1], x[3]) = 1
      <3>1. PICK i \in 1..L : rlzs[k].path = sm_rlzs[i].path
        BY <2>1, <2>2 DEF Agree
      <3>2. OfRealization(L, k, i)
        BY <2>1, <3>1 DEF OfRealization
      <3>3. \A x \in GotSources(k, t) : x[3] = rlzs[k].gsim[t] /\ TimesIn(k - 1, x[1], x[3]) = 1
        BY <2>3, <2>4, <3>2, GotIs
      <3>4. /\ Cardinality(GotSources(k, t)) = Cardinality(OwnSourcesAt(t, i))
            /\ {<<x[2].id, x[2].content>> : x \in GotSources(k, t)}
                 = {<<s.id, apply_uncertainties(s, Uncertainties(sm_rlzs[i].path))>> :
                      s \in OwnSourcesAt(t, i)}
        BY <2>3, <2>4, <3>2, GetsItsSources
      <3> QED BY <3>1, <3>3, <3>4 DEF OwnSourcesAt
    <2> QED BY <2>5 DEF RealizationsGetTheirSources
  <1> QED BY <1>1, TreeInvariant, ValuesInvariant, RealizationsAreNumbered, RlzsInvariant,
             CsmInvariant, PTL
=============================================================================
