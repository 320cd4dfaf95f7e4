-------------------------- MODULE SplittingProofs --------------------------
(***************************************************************************)
(* Proofs about block_splitter in the hands of any caller (its blocks fit) *)
(* and about the callers of Splitting: every element is computed once, in   *)
(* order, in a number of blocks close to the hint, and what raises does so  *)
(* for a reason.  For all items, weights, keys and maximum weights.         *)
(***************************************************************************)
EXTENDS Splitting, DataLemmas

\* The items of the block that is being filled have the key of the last item:
\* what BlocksFit needs of an item that is appended.
KeyOfTheLast == \A n \in DOMAIN ws.seq : ws.seq[n].k = prev_key

\* What the proofs of the generator rest on
SplitterInv == TypeOK /\ KeyOfTheLast /\ BlocksFit

-----------------------------------------------------------------------------
\* One item more: what a block has, and the keys it has
LEMMA OneMore ==
  ASSUME NEW seq \in Seq(Item), NEW i \in Item
  PROVE  /\ Append(seq, i) \in Seq(Item)
         /\ DOMAIN Append(seq, i) = 1 .. Len(seq) + 1
         /\ \A n \in 1 .. Len(seq) : n \in DOMAIN seq /\ Append(seq, i)[n] = seq[n]
         /\ Append(seq, i)[Len(seq) + 1] = i
  OBVIOUS

\* The item the generator looks at
LEMMA FirstItem ==
  ASSUME TypeOK, Running
  PROVE  /\ Item1 \in Item /\ Item1.w \in Int
         /\ Item1.k \in Key /\ Tail(items) \in Seq(Item)
  <1>1. Item1 \in Item /\ Tail(items) \in Seq(Item)
    BY DEF TypeOK, Running, Item1
  <1>2. \A i \in Item : i.w \in Int /\ i.k \in Key
    BY DEF Item
  <1> QED BY <1>1, <1>2

\* A block that begins has one item.
LEMMA BlockOfOne ==
  ASSUME NEW i \in Item, i.w \in Int
  PROVE  /\ [seq |-> <<i>>, weight |-> i.w] \in WeightedSequence
         /\ BlockFits([seq |-> <<i>>, weight |-> i.w])
         /\ \A n \in DOMAIN <<i>> : <<i>>[n].k = i.k
  BY DEF WeightedSequence, BlockFits

\* The block before the first item
LEMMA EmptyBlock == Empty \in WeightedSequence /\ BlockFits(Empty)
  BY DEF Empty, WeightedSequence, BlockFits

\* What Yield returns: blocks that fit, if those before it and the last one do
LEMMA YieldFits ==
  ASSUME TypeOK, BlocksFit
  PROVE  /\ Yield \in Seq(WeightedSequence)
         /\ \A n \in DOMAIN Yield : BlockFits(Yield[n])
  <1>1. CASE ws.seq = <<>>
    BY <1>1 DEF Yield, TypeOK, BlocksFit
  <1>2. CASE ws.seq # <<>>
    <2>1. Yield = Append(blocks, ws)
      BY <1>2 DEF Yield
    <2>2. Append(blocks, ws) \in Seq(WeightedSequence)
      BY DEF TypeOK
    <2>3. ASSUME NEW n \in DOMAIN Append(blocks, ws)
          PROVE  BlockFits(Append(blocks, ws)[n])
      <3>1. CASE n \in DOMAIN blocks
        <4>1. Append(blocks, ws)[n] = blocks[n]
          BY <3>1 DEF TypeOK
        <4> QED BY <3>1, <4>1 DEF BlocksFit
      <3>2. CASE n \notin DOMAIN blocks
        <4>1. Append(blocks, ws)[n] = ws
          BY <2>3, <3>2 DEF TypeOK
        <4> QED BY <4>1 DEF BlocksFit
      <3> QED BY <3>1, <3>2
    <2> QED BY <2>1, <2>2, <2>3
  <1> QED BY <1>1, <1>2

-----------------------------------------------------------------------------
\* Before the generator is called the first time
LEMMA InitInv == NotCalled => SplitterInv
  <1> SUFFICES ASSUME NotCalled PROVE SplitterInv
    OBVIOUS
  <1>1. TypeOK
    BY EmptyBlock DEF NotCalled, TypeOK
  <1>2. KeyOfTheLast
    BY DEF NotCalled, KeyOfTheLast, Empty
  <1>3. BlocksFit
    BY EmptyBlock DEF NotCalled, BlocksFit
  <1> QED BY <1>1, <1>2, <1>3 DEF SplitterInv

\* A call begins with no blocks.
LEMMA CallInv ==
  ASSUME NEW its \in Seq(Item), NEW max \in Int, Call(its, max)
  PROVE  SplitterInv'
  <1>1. TypeOK'
    BY EmptyBlock DEF Call, TypeOK
  <1>2. KeyOfTheLast'
    BY DEF Call, KeyOfTheLast, Empty
  <1>3. BlockFits(Empty)'
    BY DEF Empty, BlockFits
  <1>4. BlocksFit'
    BY <1>3 DEF Call, BlocksFit
  <1> QED BY <1>1, <1>2, <1>4 DEF SplitterInv

-----------------------------------------------------------------------------
\* NegativeWeight only raises.
LEMMA NegativeWeightInv == ASSUME SplitterInv, NegativeWeight PROVE SplitterInv'
  BY DEF NegativeWeight, SplitterInv, TypeOK, KeyOfTheLast, BlocksFit, BlockFits

\* NewBlock yields a block that fits and begins one with the key of its item.
LEMMA NewBlockInv ==
  ASSUME SplitterInv, NewBlock
  PROVE  SplitterInv'
  <1>1. /\ Running /\ blocks' = Yield /\ items' = Tail(items)
        /\ ws' = [seq |-> <<Item1>>, weight |-> Item1.w]
        /\ prev_key' = Item1.k /\ max_weight' = max_weight /\ gen' = gen
    BY DEF NewBlock
  <1>2. Item1 \in Item /\ Item1.w \in Int /\ Tail(items) \in Seq(Item)
    BY <1>1, FirstItem DEF SplitterInv
  <1>3. /\ Yield \in Seq(WeightedSequence)
        /\ \A n \in DOMAIN Yield : BlockFits(Yield[n])
    BY YieldFits DEF SplitterInv
  <1>4. TypeOK'
    BY <1>1, <1>2, <1>3, BlockOfOne DEF SplitterInv, TypeOK
  <1>5. KeyOfTheLast'
    BY <1>1 DEF KeyOfTheLast
  <1>6. BlocksFit'
    <2>1. BlockFits(ws)'
      BY <1>1, <1>2 DEF BlockFits
    <2>2. \A n \in DOMAIN blocks' : BlockFits(blocks[n])'
      BY <1>1, <1>3 DEF BlockFits
    <2> QED BY <2>1, <2>2 DEF BlocksFit
  <1> QED BY <1>4, <1>5, <1>6 DEF SplitterInv

\* AppendItem adds an item of the same key, when the weight allows it.
LEMMA AppendItemInv ==
  ASSUME SplitterInv, AppendItem
  PROVE  SplitterInv'
  <1>1. /\ Running /\ Fits(Item1) /\ items' = Tail(items)
        /\ ws' = [seq |-> Append(ws.seq, Item1), weight |-> ws.weight + Item1.w]
        /\ prev_key' = prev_key /\ max_weight' = max_weight
        /\ blocks' = blocks /\ gen' = gen
    BY DEF AppendItem
  <1>2. Item1 \in Item /\ Item1.w \in Int /\ Tail(items) \in Seq(Item)
    BY <1>1, FirstItem DEF SplitterInv
  <1>3. ws.seq \in Seq(Item) /\ ws.weight \in Int
    BY DEF SplitterInv, TypeOK, WeightedSequence
  <1>4. TypeOK'
    BY <1>1, <1>2, <1>3 DEF SplitterInv, TypeOK, WeightedSequence
  <1>5. KeyOfTheLast'
    <2>1. SUFFICES ASSUME NEW n \in DOMAIN Append(ws.seq, Item1)
                   PROVE  Append(ws.seq, Item1)[n].k = prev_key
      BY <1>1 DEF KeyOfTheLast
    <2>2. CASE n \in 1 .. Len(ws.seq)
      BY <2>2, <1>2, <1>3, OneMore DEF SplitterInv, KeyOfTheLast
    <2>3. CASE n = Len(ws.seq) + 1
      BY <2>3, <1>1, <1>2, <1>3, OneMore DEF Fits
    <2> QED BY <2>1, <2>2, <2>3, <1>2, <1>3, OneMore
  <1>6. BlockFits(ws)'
    <2>1. ws'.weight <= max_weight'
      BY <1>1 DEF Fits
    <2>2. \A i, j \in DOMAIN ws'.seq : ws'.seq[i].k = ws'.seq[j].k
      BY <1>5 DEF KeyOfTheLast
    <2> QED BY <2>1, <2>2 DEF BlockFits
  <1>7. \A n \in DOMAIN blocks' : BlockFits(blocks[n])'
    BY <1>1 DEF SplitterInv, BlocksFit, BlockFits
  <1> QED BY <1>4, <1>5, <1>6, <1>7 DEF SplitterInv, BlocksFit

\* IgnoreItem leaves the block as it is.
LEMMA IgnoreItemInv ==
  ASSUME SplitterInv, IgnoreItem
  PROVE  SplitterInv'
  <1>1. TypeOK'
    BY FirstItem DEF IgnoreItem, SplitterInv, TypeOK
  <1>2. KeyOfTheLast' /\ BlocksFit'
    BY DEF IgnoreItem, SplitterInv, KeyOfTheLast, BlocksFit, BlockFits
  <1> QED BY <1>1, <1>2 DEF SplitterInv

\* LastBlock yields the block that was being filled.
LEMMA LastBlockInv ==
  ASSUME SplitterInv, LastBlock
  PROVE  SplitterInv'
  <1>1. /\ Yield \in Seq(WeightedSequence)
        /\ \A n \in DOMAIN Yield : BlockFits(Yield[n])
    BY YieldFits DEF SplitterInv
  <1>2. TypeOK'
    BY <1>1, EmptyBlock DEF LastBlock, SplitterInv, TypeOK
  <1>3. KeyOfTheLast'
    BY DEF LastBlock, KeyOfTheLast, Empty
  <1>4. BlockFits(ws)'
    BY DEF LastBlock, Empty, BlockFits
  <1>5. \A n \in DOMAIN blocks' : BlockFits(blocks[n])'
    BY <1>1 DEF LastBlock, BlockFits
  <1> QED BY <1>2, <1>3, <1>4, <1>5 DEF SplitterInv, BlocksFit

\* Nothing changes for the generator.
LEMMA StutterInv ==
  ASSUME SplitterInv, UNCHANGED splitter
  PROVE  SplitterInv'
  BY DEF splitter, SplitterInv, TypeOK, KeyOfTheLast, BlocksFit, BlockFits

-----------------------------------------------------------------------------
\* The inductive invariant holds in every state of the generator.
LEMMA SplitterInvariance == SplitterSpec => []SplitterInv
  <1>1. NotCalled => SplitterInv
    BY InitInv
  <1>2. SplitterInv /\ [NextItem \/ \E its \in Seq(Item), max \in Int : Call(its, max)]_splitter
          => SplitterInv'
    BY NegativeWeightInv, NewBlockInv, AppendItemInv, IgnoreItemInv, LastBlockInv,
       CallInv, StutterInv
    DEF NextItem
  <1> QED BY <1>1, <1>2, PTL DEF SplitterSpec

\* The types of the generator, whatever it is called with.
THEOREM SplitterTypes == SplitterSpec => []TypeOK
  <1>1. SplitterInv => TypeOK
    BY DEF SplitterInv
  <1> QED BY <1>1, SplitterInvariance, PTL

\* block_splitter: the blocks are of one key and no heavier than max_weight, or of
\* one item, for every sequence of items and every maximum weight.
THEOREM BlocksAlwaysFit == SplitterSpec => []BlocksFit
  <1>1. SplitterInv => BlocksFit
    BY DEF SplitterInv
  <1> QED BY <1>1, SplitterInvariance, PTL

-----------------------------------------------------------------------------
(* Sorting *)

\* t has the elements of s, each in its place, f tells from where.
IsSorting(P, s, before, t, f) ==
  /\ f \in Bijection(P, P)
  /\ t = [r \in P |-> s[f[r]]]
  /\ \A q, r \in P : q < r => f[q] \in before[f[r]]

\* What Ordered returns
LEMMA OrderedIs ==
  ASSUME NEW s \in Seq(Item), NEW before, IsOrder(1..Len(s), before)
  PROVE  \E f : IsSorting(1..Len(s), s, before, Ordered(s, before), f)
  <1> DEFINE L == Len(s)
  <1>1. L \in Nat /\ DOMAIN s = 1..L /\ IsOrder(1..L, before)
    OBVIOUS
  <1> HIDE DEF L
  <1>2. IsFiniteSet(1..L) /\ Cardinality(1..L) = L
    BY <1>1, FS_Interval
  <1>3. PICK f \in Bijection(1..L, 1..L) :
           /\ f = [r \in 1..L |-> CHOOSE n \in 1..L : Cardinality(before[n]) = r - 1]
           /\ \A q, r \in 1..L : q < r => f[q] \in before[f[r]]
    <2> DEFINE P == 1..L
    <2>1. IsFiniteSet(P) /\ IsOrder(P, before) /\ Cardinality(P) = L
      BY <1>1, <1>2
    <2> HIDE DEF P
    <2>2. PICK f \in Bijection(1..Cardinality(P), P) :
             /\ f = [r \in 1..Cardinality(P) |-> CHOOSE n \in P : Cardinality(before[n]) = r - 1]
             /\ \A q, r \in 1..Cardinality(P) : q < r => f[q] \in before[f[r]]
             /\ \A r \in 1..Cardinality(P) : \A n \in P : Cardinality(before[n]) = r - 1 <=> n = f[r]
      BY <2>1, Ranked
    <2>3. \E g \in Bijection(1..L, P) :
             /\ g = [r \in 1..L |-> CHOOSE n \in P : Cardinality(before[n]) = r - 1]
             /\ \A q, r \in 1..L : q < r => g[q] \in before[g[r]]
      BY <2>1, <2>2, Zenon
    <2> QED BY <2>3 DEF P
  <1>4. Ordered(s, before) = [r \in 1..L |-> s[f[r]]]
    <2>1. \A r \in 1..L : f[r] = CHOOSE n \in 1..L : Cardinality(before[n]) = r - 1
      BY <1>3
    <2>2. Ordered(s, before) = [r \in 1..L |-> s[CHOOSE n \in 1..L : Cardinality(before[n]) = r - 1]]
      BY <1>1 DEF Ordered
    <2>3. \A r \in 1..L : s[f[r]] = s[CHOOSE n \in 1..L : Cardinality(before[n]) = r - 1]
      BY <2>1
    <2> QED BY <2>2, <2>3
  <1>5. IsSorting(1..L, s, before, Ordered(s, before), f)
    BY <1>3, <1>4, Zenon DEF IsSorting
  <1> QED BY <1>5 DEF L

-----------------------------------------------------------------------------
(* The items of blocks *)

\* Blocks are of items.
LEMMA SeqsType ==
  ASSUME NEW bs \in Seq(WeightedSequence)
  PROVE  /\ Seqs(bs) \in Seq(Seq(Item)) /\ Len(Seqs(bs)) = Len(bs)
         /\ Flat(Seqs(bs)) \in Seq(Item)
  <1>1. Len(bs) \in Nat /\ DOMAIN bs = 1..Len(bs) /\ \A n \in 1..Len(bs) : bs[n] \in WeightedSequence
    OBVIOUS
  <1>2. \A n \in 1..Len(bs) : bs[n].seq \in Seq(Item)
    BY <1>1 DEF WeightedSequence
  <1>3. Seqs(bs) \in [1..Len(bs) -> Seq(Item)]
    BY <1>1, <1>2 DEF Seqs
  <1>4. Seqs(bs) \in Seq(Seq(Item)) /\ Len(Seqs(bs)) = Len(bs)
    BY <1>1, <1>3, IsASeq, LenProperties, SeqDef
  <1> QED BY <1>4, FlattenElements DEF Flat

\* The items of one block more
LEMMA SeqsOneMore ==
  ASSUME NEW bs \in Seq(WeightedSequence), NEW b \in WeightedSequence
  PROVE  /\ Seqs(Append(bs, b)) = Append(Seqs(bs), b.seq)
         /\ Flat(Seqs(Append(bs, b))) = Flat(Seqs(bs)) \o b.seq
  <1> DEFINE cs == Append(bs, b)  x == Seqs(bs)  y == Seqs(cs)
  <1>1. /\ cs \in Seq(WeightedSequence) /\ Len(cs) = Len(bs) + 1 /\ Len(bs) \in Nat
        /\ \A n \in 1..Len(bs) : cs[n] = bs[n]
        /\ cs[Len(bs) + 1] = b
        /\ DOMAIN bs = 1..Len(bs) /\ DOMAIN cs = 1..Len(cs)
    OBVIOUS
  <1>2. x \in Seq(Seq(Item)) /\ y \in Seq(Seq(Item)) /\ Len(x) = Len(bs) /\ Len(y) = Len(cs)
    <2> HIDE DEF cs
    <2> QED BY <1>1, SeqsType
  <1>3. b.seq \in Seq(Item)
    BY DEF WeightedSequence
  <1>4. \A n \in 1..Len(bs) : y[n] = x[n] /\ y[Len(bs) + 1] = b.seq
    <2> HIDE DEF cs
    <2> QED BY <1>1 DEF Seqs
  <1>5. y[Len(bs) + 1] = b.seq
    <2> HIDE DEF cs
    <2>1. Len(bs) + 1 \in DOMAIN cs
      BY <1>1
    <2> QED BY <1>1, <2>1 DEF Seqs
  <1>6. y = Append(x, b.seq)
    <2> DEFINE U == Seq(Item)  e == b.seq
    <2>1. x \in Seq(U) /\ y \in Seq(U) /\ e \in U
      BY <1>2, <1>3
    <2>2. Len(y) = Len(x) + 1 /\ y[Len(x) + 1] = e /\ \A n \in 1..Len(x) : y[n] = x[n]
      BY <1>1, <1>2, <1>4, <1>5
    <2> HIDE DEF U, e, x, y
    <2>3. Append(x, e) \in Seq(U)
      BY <2>1
    <2>4. Len(y) = Len(Append(x, e)) /\ \A n \in 1..Len(y) : y[n] = Append(x, e)[n]
      BY <2>1, <2>2
    <2>5. y = Append(x, e)
      BY <2>1, <2>3, <2>4, SeqEqual
    <2> QED BY <2>5 DEF e
  <1>7. FlattenSeq(Append(x, b.seq)) = FlattenSeq(x) \o b.seq
    <2> HIDE DEF x
    <2> QED BY <1>2, <1>3, FlattenOneMore
  <1> QED BY <1>6, <1>7 DEF Flat

\* The same with \o, the form the actions have
LEMMA SeqsConcat ==
  ASSUME NEW bs \in Seq(WeightedSequence), NEW b \in WeightedSequence
  PROVE  /\ Flat(Seqs(bs \o <<b>>)) = Flat(Seqs(bs)) \o b.seq
         /\ Flat(Seqs(<<b>>)) = b.seq
         /\ Flat(Seqs(<< >>)) = << >>
  <1>1. bs \o <<b>> = Append(bs, b)
    OBVIOUS
  <1>2. Seqs(<< >>) = << >> /\ Flat(<< >>) = << >>
    BY DEF Seqs, Flat, FlattenSeq
  <1>3. Append(<< >>, b) = <<b>> /\ << >> \in Seq(WeightedSequence) /\ b.seq \in Seq(Item)
    BY DEF WeightedSequence
  <1>4. Flat(Seqs(Append(<< >>, b))) = Flat(Seqs(<< >>)) \o b.seq
    BY <1>3, SeqsOneMore
  <1>5. Flat(Seqs(<<b>>)) = << >> \o b.seq
    BY <1>2, <1>3, <1>4
  <1>6. << >> \o b.seq = b.seq
    BY <1>3, ConcatEmptySeq
  <1> QED BY <1>1, <1>2, <1>5, <1>6, SeqsOneMore

\* The count of one block more
LEMMA CountBlocks ==
  ASSUME NEW bs \in Seq(WeightedSequence), NEW b \in WeightedSequence, NEW S
  PROVE  /\ Count(Flat(Seqs(bs \o <<b>>)), S) = Count(Flat(Seqs(bs)), S) + Count(b.seq, S)
         /\ Count(Flat(Seqs(bs)), S) \in Nat /\ Count(b.seq, S) \in Nat
  <1> DEFINE x == Flat(Seqs(bs))  y == b.seq
  <1>1. x \in Seq(Item) /\ y \in Seq(Item)
    BY SeqsType DEF WeightedSequence
  <1>2. Flat(Seqs(bs \o <<b>>)) = x \o y
    BY SeqsConcat
  <1> HIDE DEF x, y
  <1>3. Count(x \o y, S) = Count(x, S) + Count(y, S) /\ Count(x, S) \in Nat /\ Count(y, S) \in Nat
    BY <1>1, CountConcat, CountType
  <1> QED BY <1>2, <1>3 DEF x, y

\* The heavy and the light blocks have the items of all.
LEMMA HeavyAndLight ==
  ASSUME NEW bs \in Seq(WeightedSequence), NEW A, NEW S
  PROVE  Count(Flat(Seqs(Select(bs, A))), S) + Count(Flat(Seqs(Select(bs, WeightedSequence \ A))), S)
           = Count(Flat(Seqs(bs)), S)
  <1> DEFINE L == Len(bs)  part(m) == SubSeq(bs, 1, m)  B == WeightedSequence \ A
             Good(p) == Count(Flat(Seqs(Select(p, A))), S) + Count(Flat(Seqs(Select(p, B))), S)
                          = Count(Flat(Seqs(p)), S)
             G == {m \in 0..L : Good(part(m))}
  <1>0. L \in Nat
    OBVIOUS
  <1>1. 0 \in G
    <2>1. part(0) = << >>
      OBVIOUS
    <2>2. Select(<< >>, A) = << >> /\ Select(<< >>, B) = << >>
      BY SelectOne
    <2>3. Seqs(<< >>) = << >> /\ Flat(<< >>) = << >>
      BY DEF Seqs, Flat, FlattenSeq
    <2>4. Count(<< >>, S) = 0
      BY CountOne
    <2>5. Good(<< >>)
      BY <2>2, <2>3, <2>4
    <2> HIDE DEF part, Good
    <2> QED BY <1>0, <2>1, <2>5
  <1>2. ASSUME NEW m \in 0..L - 1, m \in G PROVE m + 1 \in G
    <2> DEFINE p == part(m)  x == bs[m + 1]  y == <<x>>
               a == Select(p, A)  b == Select(p, B)
    <2>1. p \in Seq(WeightedSequence) /\ x \in WeightedSequence /\ part(m + 1) = p \o y
      BY OneLonger
    <2>2. Good(p)
      BY <1>2
    <2> HIDE DEF p, part
    <2>3. y \in Seq(WeightedSequence)
      BY <2>1
    <2>4. /\ Select(y, A) = IF x \in A THEN y ELSE << >>
          /\ Select(y, B) = IF x \in A THEN << >> ELSE y
      BY <2>1, SelectOne
    <2> HIDE DEF x, y
    <2>5. a \in Seq(WeightedSequence) /\ b \in Seq(WeightedSequence)
      BY <2>1, PickedType
    <2> HIDE DEF B
    <2>6. \A R : Select(p \o y, R) = Select(p, R) \o Select(y, R)
      BY <2>1, <2>3, SelectConcat
    <2>61. Select(p \o y, A) = a \o Select(y, A) /\ Select(p \o y, B) = b \o Select(y, B)
      BY <2>6
    <2> HIDE DEF a, b
    <2>7. a \o << >> = a /\ b \o << >> = b
      BY <2>5
    <2>8. \A c \in Seq(WeightedSequence) :
            Count(Flat(Seqs(c \o y)), S) = Count(Flat(Seqs(c)), S) + Count(x.seq, S)
            /\ Count(Flat(Seqs(c)), S) \in Nat /\ Count(x.seq, S) \in Nat
      BY <2>1, CountBlocks DEF y
    <2>9. Count(Flat(Seqs(a)), S) + Count(Flat(Seqs(b)), S) = Count(Flat(Seqs(p)), S)
      BY <2>2 DEF a, b
    <2>10. Good(p \o y)
      <3>1. CASE x \in A
        <4>1. Select(p \o y, A) = a \o y /\ Select(p \o y, B) = b
          BY <2>4, <2>61, <2>7, <3>1
        <4> QED BY <2>1, <2>5, <2>8, <2>9, <4>1
      <3>2. CASE x \notin A
        <4>1. Select(p \o y, A) = a /\ Select(p \o y, B) = b \o y
          BY <2>4, <2>61, <2>7, <3>2
        <4> QED BY <2>1, <2>5, <2>8, <2>9, <4>1
      <3> QED BY <3>1, <3>2
    <2>11. m + 1 \in 0..L /\ Good(part(m + 1))
      <3>1. m + 1 \in 0..L
        BY <1>0
      <3> HIDE DEF Good
      <3> QED BY <2>1, <2>10, <3>1
    <2> QED BY <2>11 DEF part
  <1>3. 0..L \subseteq G
    <2> HIDE DEF G
    <2> QED BY <1>0, <1>1, <1>2, Upwards
  <1>4. L \in G
    <2>1. L \in 0..L
      BY <1>0
    <2> HIDE DEF G
    <2> QED BY <1>3, <2>1
  <1>5. part(L) = bs
    OBVIOUS
  <1> HIDE DEF part, Good
  <1>6. Good(bs)
    BY <1>4, <1>5
  <1> QED BY <1>6 DEF Good

\* Two sets without common members
LEMMA CountDisjoint ==
  ASSUME NEW T, NEW s \in Seq(T), NEW A, NEW B, A \cap B = {}
  PROVE  Count(s, A \cup B) = Count(s, A) + Count(s, B)
  <1> DEFINE X == {n \in DOMAIN s : s[n] \in A}  Y == {n \in DOMAIN s : s[n] \in B}
  <1>1. {n \in DOMAIN s : s[n] \in A \cup B} = X \cup Y /\ X \cap Y = {}
    OBVIOUS
  <1>2. IsFiniteSet(X) /\ IsFiniteSet(Y) /\ Cardinality(X) \in Nat /\ Cardinality(Y) \in Nat
    <2>1. IsFiniteSet(X)
      BY CountType
    <2>2. IsFiniteSet(Y)
      BY CountType
    <2> HIDE DEF X, Y
    <2> QED BY <2>1, <2>2, FS_CardinalityType
  <1>3. Count(s, A \cup B) = Cardinality(X \cup Y) /\ Count(s, A) = Cardinality(X)
        /\ Count(s, B) = Cardinality(Y)
    BY <1>1 DEF Count
  <1> HIDE DEF X, Y
  <1>4. Cardinality(X \cup Y) = Cardinality(X) + Cardinality(Y) - Cardinality(X \cap Y)
    BY <1>2, FS_Union
  <1>5. Cardinality(X \cap Y) = 0
    BY <1>1, FS_EmptySet
  <1> QED BY <1>2, <1>3, <1>4, <1>5

\* groupby has each item in the group of its key.
LEMMA GroupsCount ==
  ASSUME NEW s \in Seq(Item), NEW S
  PROVE  groupby(s) \in Seq(Seq(Item)) /\ Count(Flat(groupby(s)), S) = Count(s, S)
  <1> DEFINE K == Keys(s)  c == Cardinality(K)  gs == groupby(s)
             less(i) == Cardinality({k \in K : k < i.k})
             Upto(m) == {i \in Item : less(i) \in 0..m - 1}
             part(m) == SubSeq(gs, 1, m)
             Good(m) == Count(Flat(part(m)), S) = Count(s, Upto(m) \cap S)
             G == {m \in 0..c : Good(m)}
  <1>1. IsFiniteSet(K) /\ c \in Nat
    <2> DEFINE f == [n \in 1..Len(s) |-> s[n].k]
    <2>1. K = {s[n].k : n \in 1..Len(s)}
      BY DEF Keys, ToSet
    <2>2. f \in Surjection(1..Len(s), K)
      BY <2>1 DEF Surjection
    <2>3. IsFiniteSet(1..Len(s))
      <3>1. Len(s) \in Nat
        OBVIOUS
      <3> QED BY <3>1, FS_Interval
    <2> HIDE DEF f, K
    <2> QED BY <2>2, <2>3, FS_Surjection, FS_CardinalityType
  <1>2. gs \in Seq(Seq(Item)) /\ Len(gs) = c
    <2>1. \A n \in 1..c : Select(s, OfKey(s, n - 1)) \in Seq(Item)
      BY PickedType
    <2>2. gs \in [1..c -> Seq(Item)]
      BY <2>1 DEF groupby
    <2> HIDE DEF gs, c
    <2> QED BY <1>1, <2>2, IsASeq, LenProperties, SeqDef
  <1>3. ASSUME NEW n \in 1..Len(s) PROVE s[n] \in Upto(c)
    <2>1. s[n] \in Item /\ s[n].k \in K /\ ~(s[n].k < s[n].k)
      <3>1. s[n] \in Item
        OBVIOUS
      <3>2. s[n].k \in K
        BY DEF Keys, ToSet
      <3>3. s[n].k \in Int
        BY <3>1, KeyAssumption DEF Item
      <3> QED BY <3>1, <3>2, <3>3
    <2> DEFINE M == {k \in K : k < s[n].k}
    <2>2. M \in SUBSET K /\ M # K
      BY <2>1
    <2> HIDE DEF M, K
    <2>3. IsFiniteSet(M) /\ Cardinality(M) <= c /\ (c = Cardinality(M) => K = M)
      BY <1>1, <2>2, FS_Subset
    <2>4. Cardinality(M) \in 0..c - 1
      <3>1. Cardinality(M) \in Nat
        BY <2>3, FS_CardinalityType
      <3> QED BY <1>1, <2>2, <2>3, <3>1
    <2> QED BY <2>1, <2>4 DEF M
  <1>4. Good(0)
    <2>1. part(0) = << >> /\ Flat(<< >>) = << >>
      BY DEF Flat, FlattenSeq
    <2>2. Upto(0) \cap S = {}
      OBVIOUS
    <2>3. Count(s, {}) = 0
      <3>1. {n \in DOMAIN s : s[n] \in {}} = {}
        OBVIOUS
      <3> QED BY <3>1, FS_EmptySet DEF Count
    <2>4. Count(<< >>, S) = 0
      BY CountOne
    <2> HIDE DEF part, Upto
    <2> QED BY <2>1, <2>2, <2>3, <2>4
  <1>5. ASSUME NEW m \in 0..c - 1, Good(m) PROVE Good(m + 1)
    <2> DEFINE p == part(m)  x == gs[m + 1]  A == Upto(m) \cap S  B == OfKey(s, m) \cap S
    <2>0. m \in 0..Len(gs) - 1
      BY <1>2
    <2>1. p \in Seq(Seq(Item)) /\ x \in Seq(Item) /\ part(m + 1) = p \o <<x>>
      <3> HIDE DEF gs
      <3> QED BY <1>2, <2>0, OneLonger
    <2>2. x = Select(s, OfKey(s, m))
      <3>1. m + 1 \in 1..c /\ (m + 1) - 1 = m
        BY <1>1
      <3> QED BY <3>1 DEF groupby
    <2>3. Count(Flat(p), S) = Count(s, A)
      BY <1>5
    <2>4. Count(x, S) = Count(s, B)
      BY <2>2, CountSelect
    <2>5. Upto(m + 1) \cap S = A \cup B /\ A \cap B = {}
      <3>1. ASSUME NEW i PROVE i \in Upto(m + 1) <=> i \in Upto(m) \/ i \in OfKey(s, m)
        <4>1. less(i) \in 0..(m + 1) - 1 <=> less(i) \in 0..m - 1 \/ less(i) = m
          BY <1>1
        <4> HIDE DEF less
        <4>2. i \in OfKey(s, m) <=> i \in Item /\ less(i) = m
          BY DEF OfKey, less
        <4> QED BY <4>1, <4>2
      <3>2. ASSUME NEW i \in Upto(m) PROVE i \notin OfKey(s, m)
        <4>1. less(i) # m
          BY <1>1
        <4> QED BY <4>1 DEF OfKey
      <3> HIDE DEF Upto
      <3> QED BY <3>1, <3>2
    <2> HIDE DEF p, x, A, B, part, gs
    <2>6. Flat(p \o <<x>>) = Flat(p) \o x /\ Flat(p) \in Seq(Item)
      <3>1. p \o <<x>> = Append(p, x)
        BY <2>1
      <3> QED BY <2>1, <3>1, FlattenOneMore, FlattenElements DEF Flat
    <2> DEFINE y == Flat(p)
    <2>7. Count(y \o x, S) = Count(y, S) + Count(x, S)
      <3>1. y \in Seq(Item)
        BY <2>6
      <3> HIDE DEF y
      <3> QED BY <2>1, <3>1, CountConcat
    <2>8. Count(s, A \cup B) = Count(s, A) + Count(s, B)
      BY <2>5, CountDisjoint
    <2> QED BY <2>1, <2>3, <2>4, <2>5, <2>6, <2>7, <2>8
  <1> HIDE DEF Good
  <1>6. 0..c \subseteq G
    <2>1. 0 \in G /\ \A m \in 0..c - 1 : m \in G => m + 1 \in G
      <3>1. 0 \in 0..c /\ \A m \in 0..c - 1 : m + 1 \in 0..c
        BY <1>1
      <3> HIDE DEF c
      <3> QED BY <1>4, <1>5, <3>1
    <2> HIDE DEF G, c
    <2> QED BY <1>1, <2>1, Upwards
  <1>7. Good(c)
    <2>1. c \in 0..c
      BY <1>1
    <2> HIDE DEF c
    <2> QED BY <1>6, <2>1
  <1>8. part(c) = gs
    <2>1. part(Len(gs)) = gs
      <3> HIDE DEF gs
      <3> QED BY <1>2
    <2> QED BY <1>2, <2>1
  <1>9. Count(s, Upto(c) \cap S) = Count(s, S)
    <2>1. {n \in DOMAIN s : s[n] \in Upto(c) \cap S} = {n \in DOMAIN s : s[n] \in S}
      <3> HIDE DEF Upto
      <3> QED BY <1>3
    <2> HIDE DEF Upto
    <2> QED BY <2>1 DEF Count
  <1> HIDE DEF part, Upto, gs, c
  <1> QED BY <1>2, <1>7, <1>8, <1>9 DEF Good, gs

-----------------------------------------------------------------------------
(* Types *)

\* How far a caller is
Stages == {"called", "splitting", "submitted", "task", "returned", "raised"}

\* The types of the callers, with those of the generator
Types ==
  /\ TypeOK /\ prev_key \in Key
  /\ caller \in Callers /\ elements \in Seq(Item) /\ hint \in Nat /\ stage \in Stages
  /\ tasks \in Seq(Seq(Item)) /\ calls \in Seq(Seq(Item))

-----------------------------------------------------------------------------
(* Sorted sequences *)

\* What sorting by weight does
LEMMA ByWeightIs ==
  ASSUME NEW s \in Seq(Item)
  PROVE  \E f \in Bijection(1..Len(s), 1..Len(s)) :
           /\ ByWeight(s) = [r \in 1..Len(s) |-> s[f[r]]]
           /\ \A q, r \in 1..Len(s) : q < r => s[f[q]].w >= s[f[r]].w
  <1> DEFINE b == Heavier(s)  P == 1..Len(s)
  <1>1. Len(s) \in Nat /\ DOMAIN s = P /\ \A n \in P : s[n] \in Item /\ s[n].w \in Int
    <2>1. \A i \in Item : i.w \in Int
      BY DEF Item
    <2> QED BY <2>1
  <1>2. \A n \in P : b[n] = {m \in P : s[m].w > s[n].w \/ (s[m].w = s[n].w /\ m < n)}
    BY <1>1 DEF Heavier
  <1>3. b \in [P -> SUBSET P]
    <2>1. \A n \in P : {m \in P : s[m].w > s[n].w \/ (s[m].w = s[n].w /\ m < n)} \in SUBSET P
      OBVIOUS
    <2>2. b = [n \in P |-> {m \in P : s[m].w > s[n].w \/ (s[m].w = s[n].w /\ m < n)}]
      BY <1>1 DEF Heavier
    <2> HIDE DEF b, P
    <2> QED BY <2>1, <2>2
  <1>0. P \in SUBSET Nat
    BY <1>1
  <1> HIDE DEF b, P
  <1>4. \A n \in P : n \notin b[n]
    BY <1>0, <1>1, <1>2
  <1>5. \A m, n \in P : m \in b[n] => b[m] \subseteq b[n]
    <2> SUFFICES ASSUME NEW m \in P, NEW n \in P, m \in b[n], NEW l \in b[m] PROVE l \in b[n]
      OBVIOUS
    <2>1. l \in P /\ (s[l].w > s[m].w \/ (s[l].w = s[m].w /\ l < m))
      BY <1>2
    <2>2. s[m].w > s[n].w \/ (s[m].w = s[n].w /\ m < n)
      BY <1>2
    <2>3. s[l].w \in Int /\ s[m].w \in Int /\ s[n].w \in Int /\ l \in Nat /\ m \in Nat /\ n \in Nat
      BY <1>0, <1>1, <2>1
    <2>4. s[l].w > s[n].w \/ (s[l].w = s[n].w /\ l < n)
      BY <2>1, <2>2, <2>3
    <2> QED BY <1>2, <2>1, <2>4
  <1>6. \A m, n \in P : m = n \/ m \in b[n] \/ n \in b[m]
    BY <1>0, <1>1, <1>2
  <1>7. PICK f \in Bijection(P, P) :
           /\ Ordered(s, b) = [r \in P |-> s[f[r]]]
           /\ \A q, r \in P : q < r => f[q] \in b[f[r]]
    <2>1. IsOrder(1..Len(s), b)
      BY <1>3, <1>4, <1>5, <1>6 DEF P, IsOrder
    <2>2. \E f : IsSorting(1..Len(s), s, b, Ordered(s, b), f)
      BY <2>1, OrderedIs
    <2> QED BY <2>2 DEF P, IsSorting
  <1>8. \A q, r \in P : q < r => s[f[q]].w >= s[f[r]].w
    <2>1. \A q \in P : f[q] \in P
      BY DEF Bijection, Injection
    <2> SUFFICES ASSUME NEW q \in P, NEW r \in P, q < r PROVE s[f[q]].w >= s[f[r]].w
      OBVIOUS
    <2>2. s[f[q]].w > s[f[r]].w \/ s[f[q]].w = s[f[r]].w
      BY <1>2, <1>7, <2>1
    <2>3. s[f[q]].w \in Int /\ s[f[r]].w \in Int
      BY <1>1, <2>1
    <2> QED BY <2>2, <2>3
  <1> QED BY <1>7, <1>8 DEF ByWeight, b, P

\* What sorting by key and weight does
LEMMA ByKeyIs ==
  ASSUME NEW s \in Seq(Item)
  PROVE  \E f \in Bijection(1..Len(s), 1..Len(s)) :
           /\ ByKey(s) = [r \in 1..Len(s) |-> s[f[r]]]
           /\ \A q, r \in 1..Len(s) : q < r => s[f[q]].k <= s[f[r]].k
  <1> DEFINE b == Lesser(s)  P == 1..Len(s)
             Before(m, n) == \/ s[m].k < s[n].k
                             \/ /\ s[m].k = s[n].k
                                /\ s[m].w < s[n].w \/ (s[m].w = s[n].w /\ m < n)
  <1>1. /\ Len(s) \in Nat /\ DOMAIN s = P
        /\ \A n \in P : s[n] \in Item /\ s[n].w \in Int /\ s[n].k \in Int
    <2>1. \A i \in Item : i.w \in Int /\ i.k \in Int
      BY KeyAssumption DEF Item
    <2> QED BY <2>1
  <1>2. b = [n \in P |-> {m \in P : Before(m, n)}]
    BY <1>1 DEF Lesser
  <1>0. P \in SUBSET Nat
    BY <1>1
  <1>a. \A n \in P : ~Before(n, n)
    BY <1>0, <1>1
  <1>b. \A l, m, n \in P : Before(l, m) /\ Before(m, n) => Before(l, n)
    BY <1>0, <1>1
  <1>c. \A m, n \in P : m = n \/ Before(m, n) \/ Before(n, m)
    BY <1>0, <1>1
  <1>d. \A m, n \in P : Before(m, n) => s[m].k <= s[n].k
    BY <1>0, <1>1
  <1> HIDE DEF b, P, Before
  <1>3. b \in [P -> SUBSET P] /\ \A n \in P : b[n] = {m \in P : Before(m, n)}
    BY <1>2
  <1>4. \A n \in P : n \notin b[n]
    BY <1>a, <1>3
  <1>5. \A m, n \in P : m \in b[n] => b[m] \subseteq b[n]
    BY <1>b, <1>3
  <1>6. \A m, n \in P : m = n \/ m \in b[n] \/ n \in b[m]
    BY <1>c, <1>3
  <1>7. PICK f \in Bijection(P, P) :
           /\ Ordered(s, b) = [r \in P |-> s[f[r]]]
           /\ \A q, r \in P : q < r => f[q] \in b[f[r]]
    <2>1. IsOrder(1..Len(s), b)
      BY <1>3, <1>4, <1>5, <1>6 DEF P, IsOrder
    <2>2. \E f : IsSorting(1..Len(s), s, b, Ordered(s, b), f)
      BY <2>1, OrderedIs
    <2> QED BY <2>2 DEF P, IsSorting
  <1>8. \A q, r \in P : q < r => s[f[q]].k <= s[f[r]].k
    <2>1. \A q \in P : f[q] \in P
      BY DEF Bijection, Injection
    <2> QED BY <1>d, <1>3, <1>7, <2>1
  <1> QED BY <1>7, <1>8 DEF ByKey, b, P

\* Sorting keeps the elements.
LEMMA SortedCount ==
  ASSUME NEW s \in Seq(Item)
  PROVE  /\ ByWeight(s) \in Seq(Item) /\ ByKey(s) \in Seq(Item)
         /\ Len(ByWeight(s)) = Len(s) /\ Len(ByKey(s)) = Len(s)
         /\ \A S : Count(ByWeight(s), S) = Count(s, S) /\ Count(ByKey(s), S) = Count(s, S)
  <1>1. PICK f \in Bijection(1..Len(s), 1..Len(s)) : ByWeight(s) = [r \in 1..Len(s) |-> s[f[r]]]
    BY ByWeightIs
  <1>2. PICK g \in Bijection(1..Len(s), 1..Len(s)) : ByKey(s) = [r \in 1..Len(s) |-> s[g[r]]]
    BY ByKeyIs
  <1>3. Len(s) \in Nat
    OBVIOUS
  <1>4. /\ ByWeight(s) \in Seq(Item)
        /\ \A S : Count(ByWeight(s), S) = Count(s, S)
    BY <1>1, CountPermuted
  <1>5. /\ ByKey(s) \in Seq(Item)
        /\ \A S : Count(ByKey(s), S) = Count(s, S)
    BY <1>2, CountPermuted
  <1>6. DOMAIN ByWeight(s) = 1..Len(s) /\ DOMAIN ByKey(s) = 1..Len(s)
    BY <1>1, <1>2
  <1>7. Len(ByWeight(s)) = Len(s) /\ Len(ByKey(s)) = Len(s)
    BY <1>3, <1>4, <1>5, <1>6, LenProperties
  <1> QED BY <1>4, <1>5, <1>7

-----------------------------------------------------------------------------
(* Weigh *)

\* One turn of Weigh
Weighed(s, f, n) == IF n = 0 THEN 0 ELSE f[n - 1] + s[n].w

\* Weigh adds the weights one by one. It is a recursive function: it exists for
\* one item more if it exists without it.
LEMMA WeighTurns ==
  ASSUME NEW s \in Seq(Item)
  PROVE  \E F : /\ Weigh(s) = F[Len(s)] /\ F[0] = 0
                /\ \A m \in 1..Len(s) : F[m] = F[m - 1] + s[m].w
  <1> DEFINE Good(m) == \E f : f = [n \in 0..m |-> Weighed(s, f, n)]
             G == {m \in 0..Len(s) : Good(m)}
  <1>0. Len(s) \in Nat
    OBVIOUS
  <1>1. Good(0)
    <2>1. [n \in 0..0 |-> 0] = [n \in 0..0 |-> Weighed(s, [k \in 0..0 |-> 0], n)]
      BY DEF Weighed
    <2> QED BY <2>1
  <1>2. ASSUME NEW m \in Nat, Good(m) PROVE Good(m + 1)
    <2>1. PICK f : f = [n \in 0..m |-> Weighed(s, f, n)]
      BY <1>2
    <2> DEFINE g == [n \in 0..(m + 1) |-> IF n = m + 1 THEN Weighed(s, f, n) ELSE f[n]]
    <2>2. \A n \in 0..m : g[n] = f[n] /\ f[n] = Weighed(s, f, n)
      <3>1. \A n \in 0..m : f[n] = Weighed(s, f, n)
        <4> HIDE DEF g
        <4> QED BY <2>1
      <3>2. \A n \in 0..m : n \in 0..(m + 1) /\ n # m + 1
        OBVIOUS
      <3> QED BY <3>1, <3>2
    <2>3. \A n \in 0..(m + 1) : Weighed(s, g, n) = Weighed(s, f, n)
      <3> TAKE n \in 0..(m + 1)
      <3>1. n # 0 => g[n - 1] = f[n - 1]
        BY <2>2
      <3> HIDE DEF g
      <3> QED BY <3>1 DEF Weighed
    <2>4. \A n \in 0..(m + 1) : g[n] = Weighed(s, g, n)
      <3> TAKE n \in 0..(m + 1)
      <3>1. CASE n = m + 1
        BY <2>3, <3>1
      <3>2. CASE n # m + 1
        <4>1. n \in 0..m
          BY <3>2
        <4> QED BY <2>2, <2>3, <4>1
      <3> QED BY <3>1, <3>2
    <2>5. g = [n \in 0..(m + 1) |-> g[n]]
      OBVIOUS
    <2> HIDE DEF g
    <2>6. g = [n \in 0..(m + 1) |-> Weighed(s, g, n)]
      BY <2>4, <2>5
    <2> QED BY <2>6
  <1> HIDE DEF Good
  <1>3. Good(Len(s))
    <2>1. 0 \in G /\ \A m \in 0..Len(s) - 1 : m \in G => m + 1 \in G
      BY <1>0, <1>1, <1>2
    <2> HIDE DEF G
    <2>2. 0..Len(s) \subseteq G
      BY <1>0, <2>1, Upwards
    <2> QED BY <1>0, <2>2 DEF G
  <1> DEFINE F == CHOOSE f : f = [n \in 0..Len(s) |-> Weighed(s, f, n)]
  <1>4. F = [n \in 0..Len(s) |-> Weighed(s, F, n)]
    BY <1>3 DEF Good
  <1>5. Weigh(s) = F[Len(s)]
    BY DEF Weigh, Weighed
  <1> HIDE DEF F
  <1>6. \A n \in 0..Len(s) : F[n] = IF n = 0 THEN 0 ELSE F[n - 1] + s[n].w
    BY <1>4 DEF Weighed
  <1>7. 0 \in 0..Len(s) /\ \A m \in 1..Len(s) : m # 0 /\ m \in 0..Len(s)
    BY <1>0
  <1> QED BY <1>5, <1>6, <1>7

-----------------------------------------------------------------------------
(* Weights in units *)

\* Weights in units: n has the units <<n, 1>> .. <<n, w[n]>>, none if w[n] is negative
Units(w, m) == {p \in (1..m) \X Nat : 1 <= p[2] /\ p[2] <= w[p[1]]}

\* One item more has so many units more.
LEMMA UnitsOneMore ==
  ASSUME NEW L \in Nat, NEW w \in [1..L -> Int], NEW m \in 0..L - 1, IsFiniteSet(Units(w, m))
  PROVE  /\ IsFiniteSet(Units(w, m + 1))
         /\ Cardinality(Units(w, m + 1))
              = Cardinality(Units(w, m)) + (IF w[m + 1] > 0 THEN w[m + 1] ELSE 0)
  <1> DEFINE x == w[m + 1]  top == IF x > 0 THEN x ELSE 0  A == Units(w, m)
             N == {p \in {m + 1} \X Nat : 1 <= p[2] /\ p[2] <= x}
             g == [j \in 1..top |-> <<m + 1, j>>]
  <1>1. x \in Int /\ top \in Nat
    <2>1. m + 1 \in 1..L
      OBVIOUS
    <2> QED BY <2>1
  <1>2. Units(w, m + 1) = A \cup N /\ A \cap N = {}
    <2>1. ASSUME NEW n, NEW j PROVE <<n, j>> \in Units(w, m + 1) <=> <<n, j>> \in A \/ <<n, j>> \in N
      <3>1. n \in 1..m + 1 <=> n \in 1..m \/ n = m + 1
        OBVIOUS
      <3> QED BY <3>1 DEF Units
    <2>2. Units(w, m + 1) \subseteq (1..m + 1) \X Nat /\ A \subseteq (1..m) \X Nat
          /\ N \subseteq {m + 1} \X Nat
      BY DEF Units
    <2>3. A \cap N = {}
      <3>1. m + 1 \notin 1..m
        OBVIOUS
      <3> HIDE DEF A, N
      <3> QED BY <2>2, <3>1
    <2>4. Units(w, m + 1) = A \cup N
      <3> HIDE DEF A, N
      <3>1. ASSUME NEW p \in Units(w, m + 1) PROVE p \in A \cup N
        <4>1. p = <<p[1], p[2]>>
          BY <2>2
        <4> QED BY <2>1, <4>1
      <3>2. ASSUME NEW p \in A \cup N PROVE p \in Units(w, m + 1)
        <4>1. p = <<p[1], p[2]>>
          BY <2>2
        <4> QED BY <2>1, <4>1
      <3> QED BY <3>1, <3>2
    <2> QED BY <2>3, <2>4
  <1> HIDE DEF x
  <1>3. g \in Bijection(1..top, N)
    <2>1. \A j \in 1..top : <<m + 1, j>> \in N
      BY <1>1
    <2>2. \A p \in N : p[2] \in 1..top /\ p = <<m + 1, p[2]>>
      BY <1>1
    <2> HIDE DEF N, top
    <2>3. g \in [1..top -> N] /\ \A j \in 1..top : g[j] = <<m + 1, j>>
      BY <2>1
    <2> HIDE DEF g
    <2> QED BY <2>2, <2>3 DEF Bijection, Injection, Surjection, IsInjective
  <1> HIDE DEF N, top, g, A
  <1>4. IsFiniteSet(1..top) /\ Cardinality(1..top) = top
    <2>1. ASSUME NEW k \in Nat PROVE IsFiniteSet(1..k) /\ Cardinality(1..k) = k
      <3>1. 1 \in Int /\ k \in Int
        OBVIOUS
      <3>2. Cardinality(1..k) = (IF 1 > k THEN 0 ELSE k - 1 + 1) /\ IsFiniteSet(1..k)
        BY <3>1, FS_Interval
      <3> QED BY <3>2
    <2> QED BY <1>1, <2>1
  <1>5. IsFiniteSet(N) /\ Cardinality(N) = top
    <2>1. ExistsBijection(1..top, N)
      BY <1>3 DEF ExistsBijection
    <2>2. IsFiniteSet(N)
      BY <1>4, <1>3, FS_Surjection DEF Bijection
    <2>3. Cardinality(1..top) = Cardinality(N)
      BY <1>4, <2>1, <2>2, FS_Bijection
    <2> QED BY <1>4, <2>2, <2>3
  <1>6. IsFiniteSet(A) /\ Cardinality(A) \in Nat
    BY FS_CardinalityType DEF A
  <1>7. IsFiniteSet(A \cup N) /\ Cardinality(A \cup N) = Cardinality(A) + top
    <2>1. Cardinality(A \cap N) = 0
      BY <1>2, FS_EmptySet
    <2>2. IsFiniteSet(A \cup N)
      BY <1>5, <1>6, FS_Union
    <2>3. Cardinality(A \cup N) = Cardinality(A) + Cardinality(N) - Cardinality(A \cap N)
      BY <1>5, <1>6, FS_Union
    <2> QED BY <1>1, <1>5, <1>6, <2>1, <2>2, <2>3
  <1> QED BY <1>2, <1>7 DEF A, top, x

\* A sum is what its positive terms have in units, less what the negative ones have.
Gains(s) == [n \in 1..Len(s) |-> s[n].w]
\* What the negative terms owe
Debts(s) == [n \in 1..Len(s) |-> -s[n].w]

\* So a sum of integers is a difference of two cardinalities, for which the order
\* of the items does not matter.
LEMMA WeighIs ==
  ASSUME NEW s \in Seq(Item)
  PROVE  /\ IsFiniteSet(Units(Gains(s), Len(s))) /\ IsFiniteSet(Units(Debts(s), Len(s)))
         /\ Weigh(s) = Cardinality(Units(Gains(s), Len(s))) - Cardinality(Units(Debts(s), Len(s)))
         /\ Weigh(s) \in Int
  <1> DEFINE L == Len(s)  v == Gains(s)  d == Debts(s)
             Fin(m) == IsFiniteSet(Units(v, m)) /\ IsFiniteSet(Units(d, m))
  <1>1. PICK F : /\ Weigh(s) = F[L] /\ F[0] = 0
                 /\ \A m \in 1..L : F[m] = F[m - 1] + s[m].w
    BY WeighTurns
  <1> DEFINE Good(m) == Fin(m) /\ F[m] = Cardinality(Units(v, m)) - Cardinality(Units(d, m))
             G == {m \in 0..L : Good(m)}
  <1>2. L \in Nat /\ v \in [1..L -> Int] /\ d \in [1..L -> Int]
        /\ \A m \in 1..L : v[m] = s[m].w /\ d[m] = -s[m].w /\ s[m].w \in Int
    <2>1. \A i \in Item : i.w \in Int /\ -i.w \in Int
      BY DEF Item
    <2>2. L \in Nat /\ \A m \in 1..L : s[m] \in Item
      OBVIOUS
    <2> HIDE DEF L
    <2>3. \A m \in 1..L : s[m].w \in Int /\ -s[m].w \in Int
      BY <2>1, <2>2
    <2> QED BY <2>2, <2>3 DEF Gains, Debts, L
  <1> HIDE DEF L, v, d
  <1>3. \A w : Units(w, 0) = {}
    BY DEF Units
  <1>4. Good(0)
    <2>1. IsFiniteSet({}) /\ Cardinality({}) = 0
      BY FS_EmptySet
    <2>2. Units(v, 0) = {} /\ Units(d, 0) = {}
      BY <1>3
    <2>3. Cardinality(Units(v, 0)) = 0 /\ Cardinality(Units(d, 0)) = 0 /\ Fin(0)
      BY <2>1, <2>2
    <2> QED BY <1>1, <2>3
  <1>5. ASSUME NEW m \in 0..L - 1, Good(m) PROVE Good(m + 1)
    <2>1. /\ IsFiniteSet(Units(v, m + 1))
          /\ Cardinality(Units(v, m + 1))
               = Cardinality(Units(v, m)) + (IF v[m + 1] > 0 THEN v[m + 1] ELSE 0)
      BY <1>2, <1>5, UnitsOneMore
    <2>2. /\ IsFiniteSet(Units(d, m + 1))
          /\ Cardinality(Units(d, m + 1))
               = Cardinality(Units(d, m)) + (IF d[m + 1] > 0 THEN d[m + 1] ELSE 0)
      BY <1>2, <1>5, UnitsOneMore
    <2>3. Cardinality(Units(v, m)) \in Nat /\ Cardinality(Units(d, m)) \in Nat
      BY <1>5, FS_CardinalityType
    <2>4. m + 1 \in 1..L /\ (m + 1) - 1 = m
      BY <1>2
    <2> DEFINE x == s[m + 1].w
    <2>5. F[m + 1] = F[m] + x /\ v[m + 1] = x /\ d[m + 1] = -x /\ x \in Int
      BY <1>1, <1>2, <2>4
    <2>6. F[m] = Cardinality(Units(v, m)) - Cardinality(Units(d, m))
      BY <1>5
    <2> HIDE DEF x
    <2>7. F[m + 1] = Cardinality(Units(v, m + 1)) - Cardinality(Units(d, m + 1))
      BY <2>1, <2>2, <2>3, <2>5, <2>6
    <2> QED BY <2>1, <2>2, <2>7
  <1> HIDE DEF Good
  <1>6. Good(L)
    <2>1. 0 \in G /\ \A m \in 0..L - 1 : m \in G => m + 1 \in G
      BY <1>2, <1>4, <1>5
    <2> HIDE DEF G
    <2>2. 0..L \subseteq G
      BY <1>2, <2>1, Upwards
    <2> QED BY <1>2, <2>2 DEF G
  <1>7. Fin(L) /\ Weigh(s) = Cardinality(Units(v, L)) - Cardinality(Units(d, L))
    BY <1>1, <1>6 DEF Good
  <1>8. Weigh(s) \in Int
    <2>1. Cardinality(Units(v, L)) \in Nat /\ Cardinality(Units(d, L)) \in Nat
      BY <1>7, FS_CardinalityType
    <2> QED BY <1>7, <2>1
  <1> QED BY <1>7, <1>8 DEF L, v, d

\* The units of terms in another order
LEMMA UnitsPermuted ==
  ASSUME NEW L \in Nat, NEW w \in [1..L -> Int], NEW f \in Bijection(1..L, 1..L),
         NEW u, u = [r \in 1..L |-> w[f[r]]], IsFiniteSet(Units(u, L))
  PROVE  Cardinality(Units(u, L)) = Cardinality(Units(w, L))
  <1> DEFINE A == Units(u, L)  B == Units(w, L)  g == [p \in A |-> <<f[p[1]], p[2]>>]
  <1>1. /\ f \in [1..L -> 1..L] /\ \A q, r \in 1..L : f[q] = f[r] => q = r
        /\ \A n \in 1..L : \E r \in 1..L : f[r] = n
    BY DEF Bijection, Injection, Surjection, IsInjective
  <1>2. \A p \in A : p[1] \in 1..L /\ p[2] \in Nat /\ p = <<p[1], p[2]>> /\ 1 <= p[2] /\ p[2] <= u[p[1]]
    BY DEF Units
  <1>3. \A p \in B : p[1] \in 1..L /\ p[2] \in Nat /\ p = <<p[1], p[2]>> /\ 1 <= p[2] /\ p[2] <= w[p[1]]
    BY DEF Units
  <1>4. \A n \in 1..L, j \in Nat : 1 <= j /\ j <= u[n] => <<n, j>> \in A
    BY DEF Units
  <1>5. \A n \in 1..L, j \in Nat : 1 <= j /\ j <= w[n] => <<n, j>> \in B
    BY DEF Units
  <1>6. \A r \in 1..L : u[r] = w[f[r]]
    OBVIOUS
  <1> HIDE DEF A, B
  <1>7. g \in [A -> B] /\ \A p \in A : g[p] = <<f[p[1]], p[2]>>
    BY <1>1, <1>2, <1>5, <1>6
  <1> HIDE DEF g
  <1>8. \A p, q \in A : g[p] = g[q] => p = q
    <2> SUFFICES ASSUME NEW p \in A, NEW q \in A, g[p] = g[q] PROVE p = q
      OBVIOUS
    <2>1. <<f[p[1]], p[2]>> = <<f[q[1]], q[2]>>
      BY <1>7
    <2>2. f[p[1]] = f[q[1]] /\ p[2] = q[2]
      BY <2>1
    <2>3. p[1] = q[1]
      <3>1. p[1] \in 1..L /\ q[1] \in 1..L
        BY <1>2
      <3> QED BY <1>1, <2>2, <3>1
    <2>4. p = <<p[1], p[2]>> /\ q = <<q[1], q[2]>>
      BY <1>2
    <2> QED BY <2>2, <2>3, <2>4
  <1>9. ASSUME NEW p \in B PROVE \E q \in A : g[q] = p
    <2>1. PICK r \in 1..L : f[r] = p[1]
      BY <1>1, <1>3
    <2>2. <<r, p[2]>> \in A
      BY <1>3, <1>4, <1>6, <2>1
    <2>3. g[<<r, p[2]>>] = <<p[1], p[2]>>
      BY <1>7, <2>1, <2>2
    <2> QED BY <1>3, <2>2, <2>3
  <1>10. g \in Bijection(A, B)
    BY <1>7, <1>8, <1>9 DEF Bijection, Injection, Surjection, IsInjective
  <1>11. IsFiniteSet(A) /\ IsFiniteSet(B)
    <2>1. IsFiniteSet(A)
      BY DEF A
    <2> QED BY <1>10, <2>1, FS_Surjection DEF Bijection
  <1>12. Cardinality(A) = Cardinality(B)
    BY <1>10, <1>11, FS_Bijection DEF ExistsBijection
  <1> QED BY <1>12 DEF A, B

\* A sum does not depend on the order of its terms.
LEMMA WeighPermuted ==
  ASSUME NEW s \in Seq(Item)
  PROVE  Weigh(ByKey(s)) = Weigh(s)
  <1> DEFINE t == ByKey(s)  L == Len(s)
  <1>1. t \in Seq(Item) /\ Len(t) = L /\ L \in Nat
    BY SortedCount
  <1>2. PICK f \in Bijection(1..L, 1..L) : t = [r \in 1..L |-> s[f[r]]]
    BY ByKeyIs
  <1>3. \A r \in 1..L : f[r] \in 1..L
    BY DEF Bijection, Injection
  <1>4. \A n \in 1..L : s[n].w \in Int /\ -s[n].w \in Int
    <2>1. \A i \in Item : i.w \in Int /\ -i.w \in Int
      BY DEF Item
    <2> QED BY <2>1
  <1> HIDE DEF t, L
  <1>5. Gains(t) = [r \in 1..L |-> Gains(s)[f[r]]] /\ Debts(t) = [r \in 1..L |-> Debts(s)[f[r]]]
    <2>1. \A r \in 1..L : t[r] = s[f[r]]
      BY <1>2
    <2>2. \A r \in 1..L : Gains(s)[f[r]] = s[f[r]].w /\ Debts(s)[f[r]] = -s[f[r]].w
      BY <1>3 DEF Gains, Debts, L
    <2> QED BY <1>1, <2>1, <2>2 DEF Gains, Debts
  <1>6. Gains(s) \in [1..L -> Int] /\ Debts(s) \in [1..L -> Int]
    BY <1>4 DEF Gains, Debts, L
  <1>7. IsFiniteSet(Units(Gains(t), L)) /\ IsFiniteSet(Units(Debts(t), L))
    BY <1>1, WeighIs
  <1>8. Cardinality(Units(Gains(t), L)) = Cardinality(Units(Gains(s), L))
    BY <1>1, <1>5, <1>6, <1>7, UnitsPermuted
  <1>9. Cardinality(Units(Debts(t), L)) = Cardinality(Units(Debts(s), L))
    BY <1>1, <1>5, <1>6, <1>7, UnitsPermuted
  <1>10. Weigh(t) = Cardinality(Units(Gains(t), L)) - Cardinality(Units(Debts(t), L))
    BY <1>1, WeighIs
  <1>11. Weigh(s) = Cardinality(Units(Gains(s), L)) - Cardinality(Units(Debts(s), L))
    BY WeighIs DEF L
  <1> QED BY <1>8, <1>9, <1>10, <1>11 DEF t

\* One item more at the front
LEMMA WeighFirst ==
  ASSUME NEW s \in Seq(Item), s # << >>
  PROVE  Weigh(s) = Head(s).w + Weigh(Tail(s)) /\ Weigh(<< >>) = 0
  <1> DEFINE L == Len(s)  t == Tail(s)
  <1>1. /\ L \in Nat /\ L >= 1 /\ t \in Seq(Item) /\ Len(t) = L - 1 /\ Head(s) = s[1]
        /\ \A n \in 1..L - 1 : t[n] = s[n + 1]
    OBVIOUS
  <1>2. PICK E : /\ Weigh(s) = E[L] /\ E[0] = 0
                 /\ \A m \in 1..L : E[m] = E[m - 1] + s[m].w
    BY WeighTurns
  <1>3. PICK F : /\ Weigh(t) = F[L - 1] /\ F[0] = 0
                 /\ \A m \in 1..L - 1 : F[m] = F[m - 1] + t[m].w
    <2> HIDE DEF t, L
    <2>1. \E F : /\ Weigh(t) = F[Len(t)] /\ F[0] = 0
                 /\ \A m \in 1..Len(t) : F[m] = F[m - 1] + t[m].w
      BY <1>1, WeighTurns
    <2> QED BY <1>1, <2>1
  <1>4. \A n \in 1..L : s[n].w \in Int
    <2>1. \A i \in Item : i.w \in Int
      BY DEF Item
    <2> QED BY <2>1
  <1> DEFINE G == {m \in 0..L - 1 : F[m] \in Int /\ E[m + 1] = s[1].w + F[m]}
  <1> HIDE DEF L, t
  <1>5. 0 \in G
    <2>1. E[1] = E[0] + s[1].w
      BY <1>1, <1>2
    <2> QED BY <1>1, <1>2, <1>3, <1>4, <2>1
  <1>6. ASSUME NEW m \in 0..(L - 1) - 1, m \in G PROVE m + 1 \in G
    <2>1. m + 1 \in 1..L - 1 /\ m + 2 \in 1..L /\ (m + 1) - 1 = m /\ (m + 2) - 1 = m + 1 /\ (m + 1) + 1 = m + 2
      BY <1>1
    <2>2. F[m + 1] = F[m] + t[m + 1].w /\ t[m + 1] = s[m + 2] /\ s[m + 2].w \in Int
      BY <1>1, <1>3, <1>4, <2>1
    <2>3. E[m + 2] = E[m + 1] + s[m + 2].w
      BY <1>2, <2>1
    <2>4. s[1].w \in Int /\ F[m] \in Int /\ E[m + 1] = s[1].w + F[m]
      BY <1>1, <1>4, <1>6
    <2> QED BY <1>1, <2>1, <2>2, <2>3, <2>4
  <1> HIDE DEF G
  <1>7. 0..L - 1 \subseteq G
    <2>1. L - 1 \in Nat
      BY <1>1
    <2> QED BY <1>5, <1>6, <2>1, Upwards
  <1>8. E[L] = s[1].w + F[L - 1]
    <2>1. L - 1 \in G /\ (L - 1) + 1 = L
      BY <1>1, <1>7
    <2> QED BY <2>1 DEF G
  <1>9. Weigh(<< >>) = 0
    <2>1. << >> \in Seq(Item) /\ Len(<< >>) = 0
      OBVIOUS
    <2> QED BY <2>1, WeighTurns
  <1> QED BY <1>1, <1>2, <1>3, <1>8, <1>9 DEF t

-----------------------------------------------------------------------------
(* The callers *)

\* The items in their order: in a block, in the one that is being filled, to come
Rest == (Flat(Seqs(blocks)) \o ws.seq) \o items

\* What can be said of an item that split_task weighs again in time, and that
\* gets another key
Kinds ==
  {S \in SUBSET Item :
     /\ \A i \in S : i.w # 0
     /\ \A i, j \in Item :
          i \in S /\ i.id = j.id /\ (i.w > 0 <=> j.w > 0) /\ (i.w < 0 <=> j.w < 0) => j \in S}

\* split_task that measured no time: no element weighs anything then
Unmeasured == caller = "split_task" /\ hint = 0

\* The items that are still to be computed
Left(S) ==
  (IF stage \in {"splitting", "task"} THEN Count(Rest, S) ELSE 0) + Count(Flat(tasks), S)

\* Nothing is lost and nothing is done twice.
NoneLost ==
  \/ stage \in {"called", "raised"}
  \/ stage = "splitting" /\ Unmeasured
  \/ \A S \in Kinds : Count(Computed, S) + Left(S) = Count(elements, S)

\* If there is no measure, all the items weigh nothing, and are ignored.
NoBlocks ==
  stage = "splitting" /\ Unmeasured =>
    /\ blocks = <<>> /\ ws.seq = <<>> /\ ws.weight = 0 /\ prev_key = Unspecified
    /\ \A n \in DOMAIN items : items[n].w = 0 /\ items[n].k = Unspecified

\* How far the generator is
GenStage ==
  /\ gen = "ended" => items = <<>> /\ ws = Empty
  /\ gen = "raised" => max_weight <= 0 \/ (items # <<>> /\ Item1.w < 0)
  /\ gen = "running" => max_weight > 0

\* What a stage says of the calls and of the tasks that are left
Stage ==
  /\ stage = "called" => calls = <<>>
  /\ stage \in {"called", "splitting", "returned"} => tasks = <<>>
  /\ stage = "splitting" =>
       IF caller = "split_task" THEN \E i \in Item : calls = <<<<i>>>> ELSE calls = <<>>
  /\ stage \in {"submitted", "task"} => caller = "classical"
  /\ stage \in {"splitting", "task"} => GenStage

-----------------------------------------------------------------------------
(* Types *)

\* The callers and the generator, with the types of both
AllTypes == Types /\ SplitterInv

\* The fields of an item
LEMMA ItemFields == \A i \in Item : i.id \in Id /\ i.w \in Int /\ i.k \in Key /\ i.k \in Int
  <1>1. \A i \in Item : i.id \in Id /\ i.w \in Int /\ i.k \in Key
    BY DEF Item
  <1> QED BY <1>1, KeyAssumption

\* ceil is an integer.
LEMMA CeilType == \A a \in Int, b \in Nat : b > 1 => ceil(a, b) \in Int
  BY DEF ceil

\* What split_task splits: the elements but the first, with their time for a weight
Timed == [n \in 1 .. Len(ByWeight(elements)) - 1 |->
            [ByWeight(elements)[n + 1] EXCEPT !.w = @ * hint, !.k = Unspecified]]

\* What split_task splits has the identities of the elements but the first.
LEMMA TimedType ==
  ASSUME Types, Len(elements) > 1
  PROVE  /\ Timed \in Seq(Item) /\ Len(Timed) = Len(elements) - 1
         /\ Head(ByWeight(elements)) \in Item
         /\ \A n \in 1..Len(Timed) : /\ Timed[n].id = ByWeight(elements)[n + 1].id
                                    /\ Timed[n].w = ByWeight(elements)[n + 1].w * hint
                                    /\ Timed[n].k = Unspecified
  <1> DEFINE els == ByWeight(elements)
  <1>1. els \in Seq(Item) /\ Len(els) = Len(elements) /\ Len(elements) \in Nat /\ hint \in Nat
    BY SortedCount DEF Types
  <1> HIDE DEF els
  <1>2. Head(els) \in Item /\ \A n \in 1..Len(els) - 1 : els[n + 1] \in Item
    BY <1>1
  <1>3. \A a \in Int, b \in Nat : a * b \in Int
    OBVIOUS
  <1>4. ASSUME NEW i \in Item
        PROVE  /\ [i EXCEPT !.w = @ * hint, !.k = Unspecified] \in Item
               /\ [i EXCEPT !.w = @ * hint, !.k = Unspecified].id = i.id
               /\ [i EXCEPT !.w = @ * hint, !.k = Unspecified].w = i.w * hint
               /\ [i EXCEPT !.w = @ * hint, !.k = Unspecified].k = Unspecified
    <2>1. i.w * hint \in Int
      BY <1>1, <1>3, ItemFields
    <2> DEFINE v == i.w * hint
    <2>2. [i EXCEPT !.w = @ * hint, !.k = Unspecified] = [i EXCEPT !.w = v, !.k = Unspecified]
      OBVIOUS
    <2> HIDE DEF v
    <2>3. /\ [i EXCEPT !.w = v, !.k = Unspecified].id = i.id
          /\ [i EXCEPT !.w = v, !.k = Unspecified].w = v
          /\ [i EXCEPT !.w = v, !.k = Unspecified].k = Unspecified
      BY DEF Item
    <2>4. v \in Int => [i EXCEPT !.w = v, !.k = Unspecified] \in Item
      BY KeyAssumption DEF Item
    <2> QED BY <2>1, <2>2, <2>3, <2>4 DEF v
  <1> DEFINE t == [n \in 1 .. Len(els) - 1 |-> [els[n + 1] EXCEPT !.w = @ * hint, !.k = Unspecified]]
  <1>5. Timed = t
    BY DEF Timed, els
  <1>6. \A n \in 1..Len(els) - 1 : t[n] \in Item /\ t[n].id = els[n + 1].id
          /\ t[n].w = els[n + 1].w * hint /\ t[n].k = Unspecified
    BY <1>2, <1>4
  <1>7. t \in [1..Len(els) - 1 -> Item] /\ Len(els) - 1 \in Nat
    <2>1. Len(els) - 1 \in Nat
      BY <1>1
    <2>2. t = [n \in 1..Len(els) - 1 |-> t[n]]
      OBVIOUS
    <2> HIDE DEF t
    <2> QED BY <1>6, <2>1, <2>2
  <1> HIDE DEF t
  <1>8. t \in Seq(Item) /\ Len(t) = Len(els) - 1
    BY <1>7, IsASeq, LenProperties, SeqDef
  <1> QED BY <1>1, <1>2, <1>5, <1>6, <1>8 DEF els

\* The actions that call the generator
Calls == \/ ApplyMaxWeight \/ ApplyBlocks \/ Execute \/ RunTask
         \/ ComputeFirst /\ stage' = "splitting"

\* Each caller calls block_splitter with a sequence of items and a maximum.
LEMMA CallSteps ==
  ASSUME Types, Calls
  PROVE  \E its \in Seq(Item), max \in Int : Call(its, max)
  <1>1. elements \in Seq(Item) /\ max_weight \in Int /\ hint \in Nat /\ tasks \in Seq(Seq(Item))
    BY DEF Types, TypeOK
  <1>2. CASE ApplyMaxWeight
    BY <1>1, <1>2 DEF ApplyMaxWeight
  <1>3. CASE ApplyBlocks
    <2>1. ByKey(elements) \in Seq(Item)
      BY <1>1, SortedCount
    <2>2. ceil(Weigh(elements), hint) \in Int
      BY <1>1, <1>3, WeighIs, CeilType DEF ApplyBlocks
    <2> QED BY <1>3, <2>1, <2>2 DEF ApplyBlocks
  <1>4. CASE Execute
    <2>1. ByWeight(elements) \in Seq(Item) /\ 2 * hint \in Int
      BY <1>1, SortedCount
    <2> QED BY <1>4, <2>1 DEF Execute
  <1>5. CASE RunTask
    <2>1. Head(tasks) \in Seq(Item) /\ hint \div 2 \in Int
      BY <1>1, <1>5 DEF RunTask
    <2> QED BY <1>5, <2>1 DEF RunTask
  <1>6. CASE ComputeFirst /\ stage' = "splitting"
    <2>1. Timed \in Seq(Item)
      BY <1>6, TimedType DEF ComputeFirst
    <2> QED BY <1>1, <1>6, <2>1 DEF ComputeFirst, Timed
  <1> QED BY <1>2, <1>3, <1>4, <1>5, <1>6 DEF Calls

\* The others but those of the generator itself
Others == \/ DontSplit \/ Apply \/ Submit \/ EndTask \/ EndEmptyTask \/ Executed
          \/ ComputeFirst /\ stage' = "raised"
          \/ ComputeOnly \/ ComputeBlocks \/ Raise

\* The generator takes a step for its caller.
Splits == /\ stage \in {"splitting", "task"}
          /\ NextItem
          /\ UNCHANGED <<caller, elements, hint, stage, tasks, calls>>

\* The steps of Next in three classes
LEMMA NextIs ==
  ASSUME [Next]_vars
  PROVE  Splits \/ Calls \/ Others \/ UNCHANGED vars
  <1>1. ComputeFirst => stage' = "splitting" \/ stage' = "raised"
    BY DEF ComputeFirst
  <1> QED BY <1>1 DEF Next, Splits, Calls, Others

\* The other steps leave the generator alone.
LEMMA OthersKeep == ASSUME Others PROVE UNCHANGED splitter /\ stage' \in {"submitted", "returned", "raised"}
  BY DEF Others, DontSplit, Apply, Submit, EndTask, EndEmptyTask, Executed,
         ComputeFirst, ComputeOnly, ComputeBlocks, Raise

\* A step of Splitting is one of the generator, a call of it, or none.
LEMMA SplitterSteps ==
  ASSUME Types, [Next]_vars
  PROVE  NextItem \/ (\E its \in Seq(Item), max \in Int : Call(its, max)) \/ UNCHANGED splitter
  BY NextIs, CallSteps, OthersKeep DEF Splits, vars

\* The blocks above the minimum weight, the others, and what the task computes of them
LEMMA EndTaskParts ==
  ASSUME Types, blocks # << >>, NEW heavy, heavy = Select(Front(blocks), Above),
         NEW light, light = Select(Front(blocks), WeightedSequence \ Above)
  PROVE  /\ Front(blocks) \in Seq(WeightedSequence) /\ Last(blocks) \in WeightedSequence
         /\ blocks = Front(blocks) \o <<Last(blocks)>>
         /\ heavy \in Seq(WeightedSequence) /\ light \in Seq(WeightedSequence)
         /\ Seqs(heavy) \in Seq(Seq(Item)) /\ Last(blocks).seq \in Seq(Item)
         /\ Flat(Seqs(light)) \in Seq(Item)
         /\ Last(blocks).seq \o Flat(Seqs(light)) \in Seq(Item)
  <1>1. blocks \in Seq(WeightedSequence)
    BY DEF Types, TypeOK
  <1>2. /\ Front(blocks) \in Seq(WeightedSequence) /\ Last(blocks) \in WeightedSequence
        /\ blocks = Front(blocks) \o <<Last(blocks)>>
    BY <1>1 DEF Front, Last
  <1>3. heavy \in Seq(WeightedSequence) /\ light \in Seq(WeightedSequence)
    BY <1>2, PickedType
  <1>4. Seqs(heavy) \in Seq(Seq(Item)) /\ Flat(Seqs(light)) \in Seq(Item)
    BY <1>3, SeqsType
  <1>5. Last(blocks).seq \in Seq(Item)
    BY <1>2 DEF WeightedSequence
  <1>6. Last(blocks).seq \o Flat(Seqs(light)) \in Seq(Item)
    <2> DEFINE a == Last(blocks).seq  b == Flat(Seqs(light))
    <2>1. a \in Seq(Item) /\ b \in Seq(Item)
      BY <1>4, <1>5
    <2> HIDE DEF a, b
    <2>2. a \o b \in Seq(Item)
      BY <2>1
    <2> QED BY <2>2 DEF a, b
  <1> QED BY <1>2, <1>3, <1>4, <1>5, <1>6

\* No step breaks the types.
LEMMA TypesStep ==
  ASSUME AllTypes, [Next]_vars
  PROVE  AllTypes'
  <1>0. /\ Types /\ SplitterInv
        /\ caller \in Callers /\ elements \in Seq(Item) /\ hint \in Nat /\ stage \in Stages
        /\ tasks \in Seq(Seq(Item)) /\ calls \in Seq(Seq(Item)) /\ prev_key \in Key
        /\ blocks \in Seq(WeightedSequence) /\ TypeOK
    BY DEF AllTypes, Types, TypeOK
  <1>1. SplitterInv'
    BY <1>0, SplitterSteps, NegativeWeightInv, NewBlockInv, AppendItemInv, IgnoreItemInv,
       LastBlockInv, CallInv, StutterInv
    DEF NextItem
  <1>2. prev_key' \in Key
    <2>1. NextItem => prev_key' \in Key
      BY <1>0, FirstItem DEF NextItem, NegativeWeight, NewBlock, AppendItem, IgnoreItem, LastBlock
    <2>2. \A its, max : Call(its, max) => prev_key' \in Key
      BY KeyAssumption DEF Call
    <2> QED BY <1>0, <2>1, <2>2, SplitterSteps DEF splitter
  <1>3. caller' = caller /\ elements' = elements /\ hint' = hint
    BY DEF Next, ApplyMaxWeight, DontSplit, ApplyBlocks, Apply, Execute, Submit, RunTask, EndTask,
           EndEmptyTask, Executed, ComputeFirst, ComputeOnly, ComputeBlocks, Raise, vars
  <1>4. stage' \in Stages
    BY <1>0 DEF Next, ApplyMaxWeight, DontSplit, ApplyBlocks, Apply, Execute, Submit, RunTask, EndTask,
           EndEmptyTask, Executed, ComputeFirst, ComputeOnly, ComputeBlocks, Raise, vars, Stages
  <1>5. Seqs(blocks) \in Seq(Seq(Item))
    BY <1>0, SeqsType
  <1>6. tasks' \in Seq(Seq(Item))
    <2>1. tasks # << >> => Tail(tasks) \in Seq(Seq(Item))
      BY <1>0
    <2> QED BY <1>0, <1>5, <2>1
         DEF Next, ApplyMaxWeight, DontSplit, ApplyBlocks, Apply, Execute, Submit, RunTask, EndTask,
           EndEmptyTask, Executed, ComputeFirst, ComputeOnly, ComputeBlocks, Raise, vars
  <1>7. calls' \in Seq(Seq(Item))
    <2>1. CASE EndTask
      <3> DEFINE heavy == Select(Front(blocks), Above)
                 light == Select(Front(blocks), WeightedSequence \ Above)
                 x == Seqs(heavy)  y == Last(blocks).seq \o Flat(Seqs(light))
      <3>1. blocks # << >> /\ calls' = calls \o x \o <<y>>
        BY <2>1 DEF EndTask
      <3>2. x \in Seq(Seq(Item)) /\ y \in Seq(Item)
        BY <1>0, <3>1, EndTaskParts
      <3> HIDE DEF x, y
      <3> QED BY <1>0, <3>1, <3>2
    <2>2. CASE ComputeFirst
      <3> DEFINE h == Head(ByWeight(elements))
      <3>1. h \in Item
        BY <1>0, <2>2, TimedType DEF ComputeFirst
      <3>2. calls' = <<<<h>>>>
        BY <2>2 DEF ComputeFirst
      <3> HIDE DEF h
      <3> QED BY <3>1, <3>2
    <2>3. CASE DontSplit
      BY <1>0, <2>3, GroupsCount DEF DontSplit
    <2>4. CASE ComputeBlocks
      <3>1. calls \o Seqs(blocks) \in Seq(Seq(Item))
        BY <1>0, <1>5
      <3> QED BY <1>0, <2>4, <3>1 DEF ComputeBlocks
    <2>5. CASE ComputeOnly
      BY <1>0, <2>5 DEF ComputeOnly
    <2>6. CASE Apply
      BY <1>5, <2>6 DEF Apply
    <2>7. CASE ~(EndTask \/ ComputeFirst \/ DontSplit \/ ComputeBlocks \/ ComputeOnly \/ Apply)
      BY <1>0, <2>7 DEF Next, ApplyMaxWeight, ApplyBlocks, Execute, Submit, RunTask,
           EndEmptyTask, Executed, Raise, vars
    <2> QED BY <2>1, <2>2, <2>3, <2>4, <2>5, <2>6, <2>7
  <1>8. TypeOK'
    BY <1>1 DEF SplitterInv
  <1>9. Types'
    BY <1>0, <1>2, <1>3, <1>4, <1>6, <1>7, <1>8 DEF Types
  <1> QED BY <1>1, <1>9 DEF AllTypes

\* The types hold at the start.
LEMMA InitTypes == Init => AllTypes
  <1> SUFFICES ASSUME Init PROVE AllTypes
    OBVIOUS
  <1>1. SplitterInv
    BY InitInv DEF Init
  <1>2. hint \in Nat
    BY SplittingAssumption DEF Init, Callers
  <1>3. elements \in Seq(Item)
    BY SplittingAssumption DEF Init
  <1>4. prev_key \in Key
    BY KeyAssumption DEF Init, NotCalled
  <1>5. tasks \in Seq(Seq(Item)) /\ calls \in Seq(Seq(Item)) /\ caller \in Callers /\ stage \in Stages
    BY DEF Init, Stages
  <1> QED BY <1>1, <1>2, <1>3, <1>4, <1>5 DEF AllTypes, Types, SplitterInv

\* The types of the generator and of its callers hold in every state.
LEMMA AlwaysTyped == Spec => []AllTypes
  BY InitTypes, TypesStep, PTL DEF Spec

\* The callers use block_splitter as any caller does.
THEOREM CallersSplit == Spec => SplitterSpec
  <1>1. Init => NotCalled
    BY DEF Init
  <1>2. AllTypes /\ [Next]_vars
          => [NextItem \/ \E its \in Seq(Item), max \in Int : Call(its, max)]_splitter
    BY SplitterSteps DEF AllTypes
  <1> QED BY <1>1, <1>2, AlwaysTyped, PTL DEF Spec, SplitterSpec

-----------------------------------------------------------------------------
(* The items of the generator *)

\* Equalities of sequences that the next proofs use
LEMMA Associative ==
  ASSUME NEW T
  PROVE  /\ \A a, b, c \in Seq(T) : (a \o b) \o c = a \o (b \o c) /\ a \o b \in Seq(T)
         /\ \A a \in Seq(T) : a \o << >> = a /\ << >> \o a = a
         /\ \A a \in Seq(T), x \in T : Append(a, x) = a \o <<x>>
         /\ \A a \in Seq(T) : a # << >> => a = <<Head(a)>> \o Tail(a) /\ Head(a) \in T /\ Tail(a) \in Seq(T)
  OBVIOUS

\* Rest is of items, for any blocks.
LEMMA RestOf ==
  ASSUME NEW bs \in Seq(WeightedSequence), NEW b \in WeightedSequence, NEW its \in Seq(Item)
  PROVE  (Flat(Seqs(bs)) \o b.seq) \o its \in Seq(Item)
  <1> DEFINE x == Flat(Seqs(bs))  y == b.seq
  <1>1. x \in Seq(Item) /\ y \in Seq(Item)
    BY SeqsType DEF WeightedSequence
  <1> HIDE DEF x, y
  <1>2. (x \o y) \o its \in Seq(Item)
    BY <1>1
  <1> QED BY <1>2 DEF x, y

\* Rest and its parts are of items.
LEMMA RestType ==
  ASSUME TypeOK
  PROVE  /\ Rest \in Seq(Item) /\ Flat(Seqs(blocks)) \in Seq(Item) /\ ws.seq \in Seq(Item)
         /\ items \in Seq(Item)
  <1>1. Rest \in Seq(Item)
    BY RestOf DEF TypeOK, Rest
  <1>2. Flat(Seqs(blocks)) \in Seq(Item) /\ ws.seq \in Seq(Item)
    BY SeqsType DEF TypeOK, WeightedSequence
  <1> QED BY <1>1, <1>2 DEF TypeOK

\* What Yield returns has the items of the block.
LEMMA YieldItems ==
  ASSUME TypeOK
  PROVE  Flat(Seqs(Yield)) = Flat(Seqs(blocks)) \o ws.seq
  <1>1. CASE ws.seq = << >>
    <2>1. Flat(Seqs(blocks)) \in Seq(Item)
      BY RestType
    <2> QED BY <1>1, <2>1, Associative DEF Yield
  <1>2. CASE ws.seq # << >>
    <2>1. blocks \in Seq(WeightedSequence) /\ ws \in WeightedSequence
      BY DEF TypeOK
    <2>2. Flat(Seqs(Append(blocks, ws))) = Flat(Seqs(blocks)) \o ws.seq
      BY <2>1, SeqsOneMore
    <2> QED BY <1>2, <2>2 DEF Yield
  <1> QED BY <1>1, <1>2

\* The generator keeps the items that weigh, in their order.
LEMMA RestStep ==
  ASSUME TypeOK, NextItem, NEW S, \A i \in S : i.w # 0
  PROVE  Select(Rest', S) = Select(Rest, S)
  <1> DEFINE a == Flat(Seqs(blocks))  b == ws.seq  i == Item1  u == Tail(items)
  <1>1. a \in Seq(Item) /\ b \in Seq(Item) /\ items \in Seq(Item) /\ Rest = (a \o b) \o items
    BY RestType DEF Rest
  <1>2. Running => i \in Item /\ u \in Seq(Item) /\ items = <<i>> \o u
    BY <1>1, Associative DEF Running, Item1
  <1>3. CASE NegativeWeight
    BY <1>3 DEF NegativeWeight, Rest
  <1>4. CASE NewBlock
    <2>1. i \in Item /\ u \in Seq(Item) /\ items = <<i>> \o u
      BY <1>2, <1>4 DEF NewBlock
    <2>2. blocks' = Yield /\ ws'.seq = <<i>> /\ items' = u
      BY <1>4 DEF NewBlock
    <2>3. Flat(Seqs(Yield)) = a \o b
      BY YieldItems
    <2>4. Rest' = ((a \o b) \o <<i>>) \o u
      BY <2>2, <2>3 DEF Rest
    <2> HIDE DEF a, b, i, u
    <2>5. a \o b \in Seq(Item) /\ <<i>> \in Seq(Item)
      BY <1>1, <2>1
    <2>6. ((a \o b) \o <<i>>) \o u = (a \o b) \o (<<i>> \o u)
      BY <2>1, <2>5, Associative
    <2> QED BY <1>1, <2>1, <2>4, <2>6
  <1>5. CASE AppendItem
    <2>1. i \in Item /\ u \in Seq(Item) /\ items = <<i>> \o u
      BY <1>2, <1>5 DEF AppendItem
    <2>2. blocks' = blocks /\ ws'.seq = Append(b, i) /\ items' = u
      BY <1>5 DEF AppendItem
    <2>4. Rest' = (a \o Append(b, i)) \o u
      BY <2>2 DEF Rest
    <2> HIDE DEF a, b, i, u
    <2>5. Append(b, i) = b \o <<i>> /\ <<i>> \in Seq(Item) /\ a \o b \in Seq(Item)
      BY <1>1, <2>1
    <2>6. a \o (b \o <<i>>) = (a \o b) \o <<i>>
      BY <1>1, <2>5, Associative
    <2>7. ((a \o b) \o <<i>>) \o u = (a \o b) \o (<<i>> \o u)
      BY <2>1, <2>5, Associative
    <2> QED BY <1>1, <2>1, <2>4, <2>5, <2>6, <2>7
  <1>6. CASE IgnoreItem
    <2>1. i \in Item /\ u \in Seq(Item) /\ items = <<i>> \o u /\ i.w = 0
      BY <1>2, <1>6 DEF IgnoreItem
    <2>2. blocks' = blocks /\ ws' = ws /\ items' = u
      BY <1>6 DEF IgnoreItem
    <2>3. Rest' = (a \o b) \o u
      BY <2>2 DEF Rest
    <2> DEFINE c == a \o b  y == <<i>>
    <2>4. c \in Seq(Item) /\ y \in Seq(Item)
      BY <1>1, <2>1
    <2>5. Select(y, S) = << >>
      BY <2>1, SelectOne
    <2> HIDE DEF c, y, u
    <2>6. Select(c \o (y \o u), S) = Select(c, S) \o Select(y \o u, S)
      <3> DEFINE v == y \o u
      <3>1. v \in Seq(Item)
        BY <2>1, <2>4
      <3> HIDE DEF v
      <3>2. Select(c \o v, S) = Select(c, S) \o Select(v, S)
        BY <2>4, <3>1, SelectConcat
      <3> QED BY <3>2 DEF v
    <2>7. Select(y \o u, S) = Select(y, S) \o Select(u, S)
      BY <2>1, <2>4, SelectConcat
    <2>8. Select(c \o u, S) = Select(c, S) \o Select(u, S)
      BY <2>1, <2>4, SelectConcat
    <2>9. << >> \o Select(u, S) = Select(u, S)
      <3>1. Select(u, S) \in Seq(Item)
        BY <2>1, PickedType
      <3> QED BY <3>1
    <2>10. Select(c \o (y \o u), S) = Select(c \o u, S)
      BY <2>5, <2>6, <2>7, <2>8, <2>9
    <2> QED BY <1>1, <2>1, <2>3, <2>10 DEF c, y
  <1>7. CASE LastBlock
    <2>1. items = << >> /\ items' = << >> /\ blocks' = Yield /\ ws'.seq = << >>
      BY <1>7 DEF LastBlock, Empty
    <2>2. Flat(Seqs(Yield)) = a \o b
      BY YieldItems
    <2>3. Rest' = ((a \o b) \o << >>) \o << >> /\ Rest = (a \o b) \o << >>
      BY <1>1, <2>1, <2>2 DEF Rest
    <2> HIDE DEF a, b
    <2>4. a \o b \in Seq(Item)
      BY <1>1
    <2>5. (a \o b) \o << >> = a \o b
      BY <2>4, Associative
    <2> QED BY <2>3, <2>5
  <1> QED BY <1>3, <1>4, <1>5, <1>6, <1>7 DEF NextItem

\* A call has all its items before it.
LEMMA CallRest ==
  ASSUME NEW its \in Seq(Item), NEW max, Call(its, max)
  PROVE  Rest' = its
  <1>1. blocks' = << >> /\ ws'.seq = << >> /\ items' = its
    BY DEF Call, Empty
  <1>2. Flat(Seqs(<< >>)) = << >>
    BY DEF Seqs, Flat, FlattenSeq
  <1>3. Rest' = (<< >> \o << >>) \o its
    BY <1>1, <1>2 DEF Rest
  <1>4. << >> \o << >> = << >> /\ << >> \o its = its
    OBVIOUS
  <1> QED BY <1>3, <1>4

\* A generator that ended has all its items in the blocks.
LEMMA EndedRest ==
  ASSUME TypeOK, items = << >>, ws = Empty
  PROVE  Rest = Flat(Seqs(blocks))
  <1> DEFINE a == Flat(Seqs(blocks))
  <1>1. a \in Seq(Item)
    BY RestType
  <1>2. Rest = (a \o << >>) \o << >>
    BY DEF Rest, Empty
  <1> HIDE DEF a
  <1>3. a \o << >> = a
    BY <1>1
  <1> QED BY <1>2, <1>3 DEF a

\* Of what there is as much of in two sequences
LEMMA SameCount ==
  ASSUME NEW s \in Seq(Item), NEW u \in Seq(Item), NEW S, Select(s, S) = Select(u, S)
  PROVE  Count(s, S) = Count(u, S)
  <1>1. Len(Select(s, S)) = Count(s, S)
    BY SelectLen
  <1>2. Len(Select(u, S)) = Count(u, S)
    BY SelectLen
  <1> QED BY <1>1, <1>2

\* The count of calls after other calls
LEMMA FlatConcat ==
  ASSUME NEW ss \in Seq(Seq(Item)), NEW tt \in Seq(Seq(Item)), NEW S
  PROVE  /\ Count(Flat(ss \o tt), S) = Count(Flat(ss), S) + Count(Flat(tt), S)
         /\ \A x \in Seq(Item) : Flat(<<x>>) = x
         /\ Flat(<< >>) = << >>
         /\ Count(Flat(ss), S) \in Nat /\ Flat(ss) \in Seq(Item)
  <1> DEFINE a == Flat(ss)  b == Flat(tt)
  <1>1. a \in Seq(Item) /\ b \in Seq(Item)
    BY FlattenElements DEF Flat
  <1>2. Flat(ss \o tt) = a \o b
    BY FlattenConcat DEF Flat
  <1>3. \A x \in Seq(Item) : Flat(<<x>>) = x
    BY FlattenOne DEF Flat
  <1>4. Flat(<< >>) = << >>
    BY DEF Flat, FlattenSeq
  <1> HIDE DEF a, b
  <1>5. Count(a \o b, S) = Count(a, S) + Count(b, S) /\ Count(a, S) \in Nat
    BY <1>1, CountConcat, CountType
  <1> QED BY <1>1, <1>2, <1>3, <1>4, <1>5 DEF a, b

-----------------------------------------------------------------------------
(* Where the callers are *)

\* No step changes what the caller was asked for.
LEMMA SameInputs ==
  ASSUME [Next]_vars
  PROVE  caller' = caller /\ elements' = elements /\ hint' = hint
  BY DEF Next, ApplyMaxWeight, DontSplit, ApplyBlocks, Apply, Execute, Submit, RunTask, EndTask,
         EndEmptyTask, Executed, ComputeFirst, ComputeOnly, ComputeBlocks, Raise, vars

\* The generator is running, or has nothing left.
LEMMA GenSteps ==
  ASSUME AllTypes, Stage, [Next]_vars, stage' \in {"splitting", "task"}
  PROVE  GenStage'
  <1>1. Types
    BY DEF AllTypes
  <1>2. CASE Splits
    <2>1. GenStage /\ NextItem
      BY <1>2 DEF Splits, Stage
    <2>2. CASE NegativeWeight
      BY <2>2 DEF NegativeWeight, GenStage, Running, Item1
    <2>3. CASE NewBlock \/ AppendItem \/ IgnoreItem
      BY <2>1, <2>3 DEF NewBlock, AppendItem, IgnoreItem, GenStage, Running
    <2>4. CASE LastBlock
      BY <2>4 DEF LastBlock, GenStage
    <2> QED BY <2>1, <2>2, <2>3, <2>4 DEF NextItem
  <1>3. CASE Calls
    <2>1. PICK its \in Seq(Item), max \in Int : Call(its, max)
      BY <1>1, <1>3, CallSteps
    <2> QED BY <2>1 DEF Call, GenStage
  <1>4. CASE Others
    BY <1>4, OthersKeep
  <1>5. CASE UNCHANGED vars
    BY <1>5 DEF vars, splitter, Stage, GenStage, Item1
  <1> QED BY <1>2, <1>3, <1>4, <1>5, NextIs

\* No step breaks what a stage says.
LEMMA StageStep ==
  ASSUME AllTypes, Stage, [Next]_vars
  PROVE  Stage'
  <1>1. Types /\ caller' = caller /\ stage \in Stages
    BY SameInputs DEF AllTypes, Types
  <1>2. stage' \in {"splitting", "task"} => GenStage'
    BY GenSteps
  <1>3. CASE Splits \/ UNCHANGED vars
    BY <1>2, <1>3 DEF Splits, vars, Stage
  <1>4. CASE ComputeFirst
    <2> DEFINE h == Head(ByWeight(elements))
    <2>1. h \in Item /\ calls' = <<<<h>>>> /\ tasks' = << >>
      BY <1>1, <1>4, TimedType DEF ComputeFirst, Stage
    <2> HIDE DEF h
    <2>2. caller' = "split_task" /\ stage' \in {"splitting", "raised"}
      BY <1>4 DEF ComputeFirst
    <2> QED BY <1>2, <2>1, <2>2 DEF Stage
  <1>5. CASE ApplyMaxWeight \/ ApplyBlocks \/ Execute \/ RunTask
    BY <1>1, <1>2, <1>5 DEF ApplyMaxWeight, ApplyBlocks, Execute, RunTask, Stage
  <1>6. CASE Others
    BY <1>1, <1>6 DEF Others, DontSplit, Apply, Submit, EndTask, EndEmptyTask, Executed,
         ComputeFirst, ComputeOnly, ComputeBlocks, Raise, Stage
  <1> QED BY <1>3, <1>4, <1>5, <1>6, NextIs DEF Calls

-----------------------------------------------------------------------------
\* Weights that are all zero begin no block.
LEMMA NoBlocksStep ==
  ASSUME AllTypes, Stage, NoBlocks, [Next]_vars
  PROVE  NoBlocks'
  <1> SUFFICES ASSUME stage' = "splitting", Unmeasured'
      PROVE  /\ blocks' = << >> /\ ws'.seq = << >> /\ ws'.weight = 0 /\ prev_key' = Unspecified
             /\ \A n \in DOMAIN items' : items'[n].w = 0 /\ items'[n].k = Unspecified
    BY DEF NoBlocks
  <1>1. Types /\ TypeOK /\ Unmeasured /\ caller = "split_task" /\ hint = 0
    BY SameInputs DEF AllTypes, Types, Unmeasured
  <1>2. CASE Splits
    <2>1. /\ blocks = << >> /\ ws.seq = << >> /\ ws.weight = 0 /\ prev_key = Unspecified
          /\ \A n \in DOMAIN items : items[n].w = 0 /\ items[n].k = Unspecified
          /\ items \in Seq(Item) /\ max_weight \in Int
          /\ gen = "running" => max_weight > 0
      BY <1>1, <1>2 DEF Splits, NoBlocks, TypeOK, Stage, GenStage
    <2>2. Running => Item1.w = 0 /\ Fits(Item1)
      <3>1. Running => Item1 = items[1] /\ 1 \in DOMAIN items
        BY <2>1 DEF Running, Item1
      <3>2. Running => Item1.w = 0 /\ Item1.k = Unspecified /\ max_weight > 0
        BY <2>1, <3>1 DEF Running
      <3> QED BY <2>1, <3>2 DEF Fits
    <2>3. CASE IgnoreItem
      <3>1. items' = Tail(items) /\ items # << >> /\ blocks' = blocks /\ ws' = ws /\ prev_key' = prev_key
        BY <2>3 DEF IgnoreItem, Running
      <3>2. \A n \in DOMAIN Tail(items) : n + 1 \in DOMAIN items /\ Tail(items)[n] = items[n + 1]
        BY <2>1, <3>1
      <3> QED BY <2>1, <3>1, <3>2
    <2>4. CASE LastBlock
      BY <2>1, <2>4 DEF LastBlock, Yield, Empty
    <2>5. CASE NegativeWeight \/ NewBlock \/ AppendItem
      BY <2>2, <2>5 DEF NegativeWeight, NewBlock, AppendItem
    <2> QED BY <1>2, <2>3, <2>4, <2>5 DEF Splits, NextItem
  <1>3. CASE ComputeFirst
    <2>1. blocks' = << >> /\ ws' = Empty /\ prev_key' = Unspecified /\ items' = Timed
      BY <1>3 DEF ComputeFirst, Call, Timed
    <2>2. Timed \in Seq(Item) /\ \A n \in 1..Len(Timed) :
            /\ Timed[n].w = ByWeight(elements)[n + 1].w * hint
            /\ Timed[n].k = Unspecified
      BY <1>1, <1>3, TimedType DEF ComputeFirst
    <2>3. \A n \in 1..Len(Timed) : ByWeight(elements)[n + 1] \in Item
      <3>1. ByWeight(elements) \in Seq(Item) /\ Len(Timed) = Len(elements) - 1
            /\ Len(ByWeight(elements)) = Len(elements) /\ Len(elements) \in Nat
        <4>1. elements \in Seq(Item) /\ Len(elements) > 1
          BY <1>1, <1>3 DEF Types, ComputeFirst
        <4>2. Len(Timed) = Len(elements) - 1
          BY <1>1, <4>1, TimedType
        <4> QED BY <4>1, <4>2, SortedCount
      <3> QED BY <3>1
    <2>4. \A a \in Int : a * 0 = 0
      OBVIOUS
    <2>5. \A n \in 1..Len(Timed) : Timed[n].w = 0
      BY <1>1, <2>2, <2>3, <2>4, ItemFields
    <2>6. DOMAIN Timed = 1..Len(Timed)
      BY <2>2
    <2> QED BY <2>1, <2>2, <2>5, <2>6 DEF Empty
  <1>4. CASE UNCHANGED vars
    BY <1>1, <1>4 DEF vars, splitter, NoBlocks
  <1>5. CASE ApplyMaxWeight \/ ApplyBlocks \/ Execute \/ RunTask \/ Others
    BY <1>1, <1>5, OthersKeep DEF ApplyMaxWeight, ApplyBlocks, Execute, RunTask
  <1> QED BY <1>2, <1>3, <1>4, <1>5, NextIs DEF Calls

-----------------------------------------------------------------------------
(* None lost *)

\* The count of calls, and of none
LEMMA CountFlat ==
  ASSUME NEW ss \in Seq(Seq(Item)), NEW S
  PROVE  Count(Flat(ss), S) \in Nat /\ (ss = << >> => Count(Flat(ss), S) = 0)
  <1>1. Flat(ss) \in Seq(Item) /\ Flat(<< >>) = << >>
    BY FlattenElements DEF Flat, FlattenSeq
  <1> QED BY <1>1, CountType, CountOne

\* split_task measures a time that is positive, or that is nothing.
LEMMA TimedCount ==
  ASSUME Types, Len(elements) > 1, hint # 0, NEW S \in Kinds
  PROVE  Count(<<Head(ByWeight(elements))>>, S) + Count(Timed, S) = Count(elements, S)
  <1> DEFINE els == ByWeight(elements)  h == Head(els)  t == Tail(els)
  <1>1. /\ els \in Seq(Item) /\ Len(els) = Len(elements) /\ Len(elements) \in Nat
        /\ hint \in Nat /\ elements \in Seq(Item)
        /\ Count(els, S) = Count(elements, S)
    BY SortedCount DEF Types
  <1>2. /\ Timed \in Seq(Item) /\ Len(Timed) = Len(elements) - 1
        /\ \A n \in 1..Len(Timed) : /\ Timed[n].id = els[n + 1].id
                                   /\ Timed[n].w = els[n + 1].w * hint
    BY TimedType
  <1> HIDE DEF els
  <1>3. /\ h \in Item /\ t \in Seq(Item) /\ els = <<h>> \o t /\ Len(t) = Len(els) - 1
        /\ \A n \in 1..Len(t) : t[n] = els[n + 1] /\ t[n] \in Item
    BY <1>1
  <1>4. Count(els, S) = Count(<<h>>, S) + Count(t, S)
    <2> HIDE DEF h, t
    <2>1. <<h>> \in Seq(Item)
      BY <1>3
    <2> DEFINE y == <<h>>
    <2> HIDE DEF y
    <2>2. Count(y \o t, S) = Count(y, S) + Count(t, S)
      BY <1>3, <2>1, CountConcat DEF y
    <2> QED BY <1>3, <2>2 DEF y
  <1>5. \A a \in Int, b \in Nat : b # 0 => (a * b > 0 <=> a > 0) /\ (a * b < 0 <=> a < 0)
    <2> SUFFICES ASSUME NEW a \in Int, NEW b \in Nat, b # 0
                 PROVE  (a * b > 0 <=> a > 0) /\ (a * b < 0 <=> a < 0)
      OBVIOUS
    <2>1. CASE a > 0
      BY <2>1
    <2>2. CASE a < 0
      BY <2>2
    <2>3. CASE a = 0
      BY <2>3
    <2> QED BY <2>1, <2>2, <2>3
  <1>6. ASSUME NEW n \in 1..Len(t) PROVE Timed[n] \in S <=> t[n] \in S
    <2> DEFINE i == t[n]  j == Timed[n]
    <2>1. i \in Item /\ j \in Item /\ i.id = j.id
      BY <1>1, <1>2, <1>3
    <2>2. j.w = i.w * hint /\ i.w \in Int
      BY <1>1, <1>2, <1>3, ItemFields
    <2> HIDE DEF i, j
    <2>3. (i.w > 0 <=> j.w > 0) /\ (i.w < 0 <=> j.w < 0)
      BY <1>1, <1>5, <2>2
    <2>4. i \in S <=> j \in S
      BY <2>1, <2>3 DEF Kinds
    <2> QED BY <2>4 DEF i, j
  <1>7. DOMAIN Timed = 1..Len(t) /\ DOMAIN t = 1..Len(t)
    BY <1>1, <1>2, <1>3
  <1>8. Count(Timed, S) = Count(t, S)
    <2>1. {n \in DOMAIN Timed : Timed[n] \in S} = {n \in DOMAIN t : t[n] \in S}
      BY <1>6, <1>7
    <2> QED BY <2>1 DEF Count
  <1> QED BY <1>1, <1>4, <1>8 DEF els

\* A task computes its blocks, those above the minimum weight by subtasks.
LEMMA EndTaskCount ==
  ASSUME Types, EndTask, NEW S
  PROVE  Count(Computed', S) = Count(Computed, S) + Count(Flat(Seqs(blocks)), S)
  <1> DEFINE front == Front(blocks)  last == Last(blocks)
             heavy == Select(front, Above)  light == Select(front, WeightedSequence \ Above)
             x == Seqs(heavy)  z == Flat(Seqs(light))  y == last.seq \o z  c == calls
  <1>1. blocks # << >> /\ calls' = c \o x \o <<y>>
    BY DEF EndTask
  <1>2. /\ front \in Seq(WeightedSequence) /\ last \in WeightedSequence
        /\ blocks = front \o <<last>>
        /\ heavy \in Seq(WeightedSequence) /\ light \in Seq(WeightedSequence)
        /\ x \in Seq(Seq(Item)) /\ last.seq \in Seq(Item) /\ z \in Seq(Item) /\ y \in Seq(Item)
    BY <1>1, EndTaskParts
  <1>3. c \in Seq(Seq(Item))
    BY DEF Types
  <1>5. /\ Count(Flat(Seqs(blocks)), S) = Count(Flat(Seqs(front)), S) + Count(last.seq, S)
        /\ Count(Flat(Seqs(front)), S) \in Nat /\ Count(last.seq, S) \in Nat
    BY <1>2, CountBlocks
  <1>6. Count(Flat(x), S) + Count(z, S) = Count(Flat(Seqs(front)), S)
    BY <1>2, HeavyAndLight
  <1>7. Count(y, S) = Count(last.seq, S) + Count(z, S) /\ Count(z, S) \in Nat
    <2> DEFINE l == last.seq
    <2>1. l \in Seq(Item)
      BY <1>2
    <2> HIDE DEF l, z
    <2>2. Count(l \o z, S) = Count(l, S) + Count(z, S) /\ Count(z, S) \in Nat
      BY <1>2, <2>1, CountConcat, CountType
    <2> QED BY <2>2 DEF l
  <1>8. Count(Flat(c \o x \o <<y>>), S) = Count(Flat(c), S) + Count(Flat(x), S) + Count(y, S)
        /\ Count(Flat(c), S) \in Nat /\ Count(Flat(x), S) \in Nat
    <2> DEFINE b == <<y>>  cx == c \o x
    <2> HIDE DEF x, y, c
    <2>1. b \in Seq(Seq(Item)) /\ cx \in Seq(Seq(Item))
      BY <1>2, <1>3
    <2>4. Flat(b) = y
      BY <1>2, <1>3, FlatConcat
    <2>2. Count(Flat(cx), S) = Count(Flat(c), S) + Count(Flat(x), S)
          /\ Count(Flat(c), S) \in Nat /\ Count(Flat(x), S) \in Nat
      BY <1>2, <1>3, FlatConcat
    <2> HIDE DEF b, cx
    <2>3. Count(Flat(cx \o b), S) = Count(Flat(cx), S) + Count(Flat(b), S)
      BY <2>1, FlatConcat
    <2> QED BY <2>2, <2>3, <2>4 DEF b, cx
  <1> HIDE DEF x, y, z, c, front, last
  <1> QED BY <1>1, <1>5, <1>6, <1>7, <1>8 DEF Computed, c

\* NoneLost for one kind of items
Balanced(S) == Count(Computed, S) + Left(S) = Count(elements, S)

\* The kinds that the properties speak of
LEMMA KindsWeigh ==
  /\ \A S \in Kinds : S \in SUBSET Item /\ \A i \in S : i.w # 0
  /\ Weighing \in Kinds
  /\ {i \in Item : i.w < 0} \in Kinds
  /\ \A id \in Id : {i \in Item : i.id = id /\ i.w > 0} \in Kinds
  <1>1. \A S \in Kinds : S \in SUBSET Item /\ \A i \in S : i.w # 0
    BY DEF Kinds
  <1>2. Weighing \in Kinds
    BY ItemFields DEF Kinds, Weighing
  <1>3. {i \in Item : i.w < 0} \in Kinds
    BY ItemFields DEF Kinds
  <1>4. \A id \in Id : {i \in Item : i.id = id /\ i.w > 0} \in Kinds
    BY ItemFields DEF Kinds
  <1> QED BY <1>1, <1>2, <1>3, <1>4

\* Each step moves items from what is left to what is computed, and loses none
\* that weighs.
LEMMA BalancedStep ==
  ASSUME AllTypes, Stage, NoBlocks, NoneLost, [Next]_vars, NEW S \in Kinds,
         stage' \notin {"called", "raised"}, ~(stage' = "splitting" /\ Unmeasured)
  PROVE  Balanced(S)'
  <1>1. /\ Types /\ TypeOK /\ Types' /\ TypeOK' /\ Stage'
        /\ tasks \in Seq(Seq(Item)) /\ calls \in Seq(Seq(Item)) /\ elements \in Seq(Item)
        /\ tasks' \in Seq(Seq(Item)) /\ calls' \in Seq(Seq(Item))
        /\ blocks \in Seq(WeightedSequence)
        /\ caller' = caller /\ elements' = elements /\ hint' = hint
    BY TypesStep, SameInputs, StageStep DEF AllTypes, Types, TypeOK
  <1> DEFINE done == Count(Computed, S)  later == Count(Flat(tasks), S)  rest == Count(Rest, S)
             all == Count(elements, S)
  <1>6. Rest \in Seq(Item) /\ Rest' \in Seq(Item) /\ S \in SUBSET Item /\ \A i \in S : i.w # 0
    <2>1. Rest' \in Seq(Item)
      BY <1>1, RestOf DEF Rest, TypeOK
    <2> QED BY <1>1, <2>1, RestType, KindsWeigh
  <1>2. /\ stage \in {"splitting", "task"} => Left(S) = rest + later
        /\ stage \notin {"splitting", "task"} => Left(S) = later
        /\ rest \in Nat /\ later \in Nat /\ done \in Nat
        /\ tasks = << >> => later = 0
        /\ calls = << >> => done = 0
    <2>1. rest \in Nat
      BY <1>6, CountType
    <2>2. later \in Nat /\ (tasks = << >> => later = 0)
      BY <1>1, CountFlat
    <2>3. done \in Nat /\ (calls = << >> => done = 0)
      BY <1>1, CountFlat DEF Computed
    <2> QED BY <2>1, <2>2, <2>3 DEF Left
  <1>3. /\ stage' \in {"splitting", "task"} => Left(S)' = rest' + later'
        /\ stage' \notin {"splitting", "task"} => Left(S)' = later'
        /\ rest' \in Nat /\ later' \in Nat /\ done' \in Nat
        /\ tasks' = << >> => later' = 0
        /\ calls' = << >> => done' = 0
    <2>1. rest' \in Nat
      BY <1>6, CountType
    <2>2. later' \in Nat /\ (tasks' = << >> => later' = 0)
      BY <1>1, CountFlat
    <2>3. done' \in Nat /\ (calls' = << >> => done' = 0)
      BY <1>1, CountFlat DEF Computed
    <2> QED BY <2>1, <2>2, <2>3 DEF Left
  <1>4. all' = all /\ all \in Nat
    BY <1>1, CountType
  <1>5. (stage \notin {"called", "raised"} /\ ~(stage = "splitting" /\ Unmeasured)) => done + Left(S) = all
    BY DEF NoneLost
  <1>7. tasks' = tasks => later' = later
    OBVIOUS
  <1>8. calls' = calls => done' = done
    BY DEF Computed
  <1>9. ASSUME gen = "ended", stage \in {"splitting", "task"} PROVE rest = Count(Flat(Seqs(blocks)), S)
    <2>1. Rest = Flat(Seqs(blocks))
      BY <1>1, <1>9, EndedRest DEF Stage, GenStage
    <2> QED BY <2>1
  <1>10. SUFFICES done' + Left(S)' = all
    BY <1>4 DEF Balanced
  <1> HIDE DEF done, later, rest, all
  <1>11. CASE Splits
    <2>1. Select(Rest', S) = Select(Rest, S)
      BY <1>1, <1>6, <1>11, RestStep DEF Splits
    <2>2. rest' = rest
      BY <1>6, <2>1, SameCount DEF rest
    <2>3. stage' = stage /\ tasks' = tasks /\ calls' = calls /\ stage \in {"splitting", "task"}
      BY <1>11 DEF Splits
    <2>4. ~(stage = "splitting" /\ Unmeasured)
      BY <2>3
    <2> QED BY <1>2, <1>3, <1>5, <1>7, <1>8, <2>2, <2>3, <2>4
  <1>12. CASE UNCHANGED vars
    <2>1. stage' = stage /\ tasks' = tasks /\ calls' = calls /\ blocks' = blocks /\ ws' = ws /\ items' = items
      BY <1>12 DEF vars, splitter
    <2>2. rest' = rest
      BY <2>1 DEF rest, Rest
    <2> QED BY <1>2, <1>3, <1>5, <1>7, <1>8, <2>1, <2>2
  <1>13. CASE ApplyMaxWeight
    <2>1. stage' = "splitting" /\ tasks' = tasks /\ calls' = calls /\ tasks = << >> /\ calls = << >>
      BY <1>13 DEF ApplyMaxWeight, Stage
    <2>2. Rest' = elements
      BY <1>1, <1>13, CallRest DEF ApplyMaxWeight
    <2>3. rest' = all
      BY <2>2 DEF rest, all
    <2> QED BY <1>3, <1>4, <2>1, <2>3
  <1>14. CASE DontSplit
    <2>1. stage' = "returned" /\ tasks' = << >> /\ calls' = groupby(elements)
      BY <1>14 DEF DontSplit, Stage
    <2>2. Count(Flat(groupby(elements)), S) = Count(elements, S)
      BY <1>1, GroupsCount
    <2>3. done' = all
      BY <2>1, <2>2 DEF done, Computed, all
    <2> QED BY <1>3, <1>4, <2>1, <2>3
  <1>15. CASE ApplyBlocks
    <2>1. stage' = "splitting" /\ tasks' = tasks /\ calls' = calls /\ tasks = << >> /\ calls = << >>
      BY <1>15 DEF ApplyBlocks, Stage
    <2>2. ByKey(elements) \in Seq(Item) /\ Count(ByKey(elements), S) = Count(elements, S)
      BY <1>1, SortedCount
    <2>3. Rest' = ByKey(elements)
      BY <1>15, <2>2, CallRest DEF ApplyBlocks
    <2>4. rest' = all
      BY <2>2, <2>3 DEF rest, all
    <2> QED BY <1>3, <1>4, <2>1, <2>4
  <1>16. CASE Apply
    <2>1. stage = "splitting" /\ gen = "ended" /\ stage' = "returned" /\ tasks' = << >> /\ calls' = Seqs(blocks)
          /\ tasks' = tasks /\ calls = << >> /\ ~Unmeasured
      BY <1>16 DEF Apply, Stage, Unmeasured
    <2>2. done' = rest
      BY <1>9, <2>1 DEF done, Computed
    <2> QED BY <1>2, <1>3, <1>5, <2>1, <2>2
  <1>17. CASE Execute
    <2>1. stage' = "splitting" /\ tasks' = tasks /\ calls' = calls /\ tasks = << >> /\ calls = << >>
      BY <1>17 DEF Execute, Stage
    <2>2. ByWeight(elements) \in Seq(Item) /\ Count(ByWeight(elements), S) = Count(elements, S)
      BY <1>1, SortedCount
    <2>3. Rest' = ByWeight(elements)
      BY <1>17, <2>2, CallRest DEF Execute
    <2>4. rest' = all
      BY <2>2, <2>3 DEF rest, all
    <2> QED BY <1>3, <1>4, <2>1, <2>4
  <1>18. CASE Submit
    <2>1. stage = "splitting" /\ gen = "ended" /\ stage' = "submitted" /\ tasks' = Seqs(blocks)
          /\ calls' = calls /\ tasks = << >> /\ calls = << >> /\ ~Unmeasured
      BY <1>18 DEF Submit, Stage, Unmeasured
    <2>2. later' = rest
      BY <1>9, <2>1 DEF later
    <2> QED BY <1>2, <1>3, <1>5, <1>8, <2>1, <2>2
  <1>19. CASE RunTask
    <2>1. stage = "submitted" /\ tasks # << >> /\ tasks' = Tail(tasks) /\ calls' = calls /\ stage' = "task"
      BY <1>19 DEF RunTask
    <2> DEFINE h == Head(tasks)  t == Tail(tasks)  b == <<h>>  U == Seq(Item)
    <2>2. h \in U /\ t \in Seq(U) /\ tasks = b \o t
      <3>1. tasks \in Seq(U)
        BY <1>1
      <3> HIDE DEF U
      <3> QED BY <2>1, <3>1
    <2>3. b \in Seq(U)
      <3> HIDE DEF U, h
      <3> QED BY <2>2
    <2>4. Rest' = h
      BY <1>19, <2>2, CallRest DEF RunTask
    <2> HIDE DEF h, t, b
    <2>5. Count(Flat(b \o t), S) = Count(Flat(b), S) + Count(Flat(t), S)
      BY <2>2, <2>3, FlatConcat
    <2>6. Flat(b) = h
      BY <2>2, <2>3, FlatConcat DEF b
    <2>7. later = rest' + later'
      BY <2>1, <2>2, <2>4, <2>5, <2>6 DEF later, rest, t
    <2> QED BY <1>2, <1>3, <1>5, <1>8, <2>1, <2>7
  <1>20. CASE EndTask
    <2>1. stage = "task" /\ gen = "ended" /\ tasks' = tasks /\ stage' = "submitted"
      BY <1>20 DEF EndTask
    <2>2. done' = done + Count(Flat(Seqs(blocks)), S)
      BY <1>1, <1>20, EndTaskCount DEF done
    <2>3. done' = done + rest
      BY <1>9, <2>1, <2>2
    <2> QED BY <1>2, <1>3, <1>5, <1>7, <2>1, <2>3
  <1>21. CASE EndEmptyTask
    <2>1. stage = "task" /\ gen = "ended" /\ tasks' = tasks /\ calls' = calls /\ stage' = "submitted"
          /\ blocks = << >>
      BY <1>21 DEF EndEmptyTask
    <2>2. rest = 0
      <3>1. Flat(Seqs(<< >>)) = << >>
        BY DEF Flat, Seqs, FlattenSeq
      <3> QED BY <1>9, <2>1, <3>1, CountOne
    <2> QED BY <1>2, <1>3, <1>5, <1>7, <1>8, <2>1, <2>2
  <1>22. CASE Executed
    <2>1. stage = "submitted" /\ stage' = "returned" /\ tasks' = tasks /\ calls' = calls
      BY <1>22 DEF Executed
    <2> QED BY <1>2, <1>3, <1>5, <1>7, <1>8, <2>1
  <1>23. CASE ComputeFirst
    <2>1. stage' = "splitting" /\ tasks' = << >> /\ caller = "split_task" /\ Len(elements) > 1
      BY <1>23 DEF ComputeFirst, Stage
    <2>2. hint # 0
      BY <2>1 DEF Unmeasured
    <2> DEFINE h == Head(ByWeight(elements))  b == <<h>>
    <2>3. Rest' = Timed /\ calls' = <<b>> /\ h \in Item
      <3>1. Timed \in Seq(Item) /\ h \in Item
        BY <1>1, <2>1, TimedType
      <3>2. Call(Timed, max_weight) /\ calls' = <<b>>
        BY <1>23, <2>1 DEF ComputeFirst, Timed
      <3> QED BY <3>1, <3>2, CallRest
    <2>4. Count(b, S) + Count(Timed, S) = all
      BY <1>1, <2>1, <2>2, TimedCount DEF all
    <2> HIDE DEF h
    <2>5. b \in Seq(Item)
      BY <2>3
    <2> HIDE DEF b
    <2>6. Computed' = b
      BY <2>3, <2>5, FlattenOne DEF Computed, Flat
    <2>7. done' = Count(b, S) /\ rest' = Count(Timed, S)
      BY <2>3, <2>6 DEF done, rest
    <2> QED BY <1>3, <2>1, <2>4, <2>7
  <1>24. CASE ComputeOnly
    <2>1. stage' = "returned" /\ tasks' = << >> /\ calls' = <<elements>>
      BY <1>24 DEF ComputeOnly, Stage
    <2>2. Computed' = elements
      BY <1>1, <2>1, FlattenOne DEF Computed, Flat
    <2>3. done' = all
      BY <2>2 DEF done, all
    <2> QED BY <1>3, <1>4, <2>1, <2>3
  <1>25. CASE ComputeBlocks
    <2>1. stage = "splitting" /\ gen = "ended" /\ tasks' = << >> /\ tasks = << >> /\ caller = "split_task"
          /\ blocks # << >> /\ stage' = "returned" /\ calls' = calls \o Seqs(blocks)
      BY <1>25 DEF ComputeBlocks, Stage
    <2>2. ~Unmeasured
      BY <2>1 DEF NoBlocks
    <2> DEFINE x == Seqs(blocks)
    <2>3. x \in Seq(Seq(Item))
      BY <1>1, SeqsType
    <2>4. rest = Count(Flat(x), S)
      BY <1>9, <2>1
    <2> HIDE DEF x
    <2>5. Count(Flat(calls \o x), S) = Count(Flat(calls), S) + Count(Flat(x), S)
      BY <1>1, <2>3, FlatConcat
    <2>6. done' = done + rest
      BY <2>1, <2>4, <2>5 DEF done, Computed, x
    <2> QED BY <1>2, <1>3, <1>5, <2>1, <2>2, <2>6
  <1>26. CASE Raise
    BY <1>26 DEF Raise
  <1>27. [Next]_vars => Splits \/ ApplyMaxWeight \/ DontSplit \/ ApplyBlocks \/ Apply
            \/ Execute \/ Submit \/ RunTask \/ EndTask \/ EndEmptyTask \/ Executed
            \/ ComputeFirst \/ ComputeOnly \/ ComputeBlocks \/ Raise \/ UNCHANGED vars
    BY DEF Next, Splits
  <1> QED BY <1>11, <1>12, <1>13, <1>14, <1>15, <1>16, <1>17, <1>18, <1>19, <1>20, <1>21,
             <1>22, <1>23, <1>24, <1>25, <1>26, <1>27

-----------------------------------------------------------------------------
(* What the callers promise *)

\* The inductive invariant: nothing is lost between the elements, the generator,
\* the tasks and the calls.
WorkInv == AllTypes /\ Stage /\ NoBlocks /\ NoneLost /\ InOrder /\ RaisesForAReason

\* The generator moves items from the front of what is to come to the end of what
\* it has, or ignores them.
LEMMA InOrderStep ==
  ASSUME AllTypes, Stage, InOrder, [Next]_vars
  PROVE  InOrder'
  <1> SUFFICES ASSUME caller' = "maxweight", stage' = "splitting"
      PROVE  Select(Rest', Weighing) = Select(elements', Weighing)
    BY DEF InOrder, Heavy, Rest
  <1>1. TypeOK /\ caller = "maxweight" /\ elements' = elements /\ elements \in Seq(Item)
    BY SameInputs DEF AllTypes, Types
  <1>2. CASE Splits
    <2>1. Select(Rest', Weighing) = Select(Rest, Weighing)
      <3>1. \A i \in Weighing : i.w # 0
        BY KindsWeigh
      <3> QED BY <1>1, <1>2, <3>1, RestStep DEF Splits
    <2> QED BY <1>1, <1>2, <2>1 DEF Splits, InOrder, Heavy, Rest
  <1>3. CASE ApplyMaxWeight
    <2>1. Rest' = elements
      BY <1>1, <1>3, CallRest DEF ApplyMaxWeight
    <2> QED BY <1>1, <2>1
  <1>4. CASE UNCHANGED vars
    BY <1>1, <1>4 DEF vars, splitter, InOrder, Heavy, Rest
  <1>5. CASE ApplyBlocks \/ Execute \/ RunTask \/ ComputeFirst \/ Others
    BY <1>1, <1>5, OthersKeep DEF ApplyBlocks, Execute, RunTask, ComputeFirst
  <1> QED BY <1>2, <1>3, <1>4, <1>5, NextIs DEF Calls

-----------------------------------------------------------------------------
\* A count is not zero if there is something to count.
LEMMA SomeCount ==
  ASSUME NEW s \in Seq(Item), NEW S
  PROVE  (Count(s, S) # 0) <=> (\E n \in DOMAIN s : s[n] \in S)
  <1> DEFINE A == {n \in DOMAIN s : s[n] \in S}
  <1>1. IsFiniteSet(A) /\ Count(s, S) = Cardinality(A)
    BY CountType DEF Count
  <1>2. (A = {}) <=> (Cardinality(A) = 0)
    <2> HIDE DEF A
    <2> QED BY <1>1, FS_EmptySet
  <1> QED BY <1>1, <1>2

\* If the heaviest element weighs nothing, none does.
LEMMA NoneIsHeavy ==
  ASSUME Types, Len(elements) > 1, Head(ByWeight(elements)).w = 0
  PROVE  Count(elements, Weighing) = 0
  <1> DEFINE s == elements  t == ByWeight(s)
  <1>1. s \in Seq(Item) /\ t \in Seq(Item) /\ Len(t) = Len(s) /\ Len(s) \in Nat
        /\ Count(t, Weighing) = Count(s, Weighing)
    BY SortedCount DEF Types
  <1>2. PICK f \in Bijection(1..Len(s), 1..Len(s)) :
           /\ t = [r \in 1..Len(s) |-> s[f[r]]]
           /\ \A q, r \in 1..Len(s) : q < r => s[f[q]].w >= s[f[r]].w
    BY <1>1, ByWeightIs
  <1>3. ASSUME NEW n \in DOMAIN t PROVE t[n] \notin Weighing
    <2>1. n \in 1..Len(s) /\ 1 \in 1..Len(s) /\ Head(t) = t[1]
      BY <1>1
    <2>2. t[1] = s[f[1]] /\ t[n] = s[f[n]]
      BY <1>2, <2>1
    <2>3. t[1].w = 0
      BY <2>1
    <2>4. n = 1 \/ t[1].w >= t[n].w
      BY <1>2, <2>1, <2>2
    <2>5. t[n].w \in Int
      <3>1. t[n] \in Item
        BY <1>1
      <3> QED BY <3>1, ItemFields
    <2>6. ~(t[n].w > 0)
      <3> HIDE DEF t
      <3> QED BY <2>3, <2>4, <2>5
    <2> QED BY <2>6 DEF Weighing
  <1> HIDE DEF t, s
  <1> QED BY <1>1, <1>3, SomeCount DEF s

\* The generator raises for a weight of the elements, as it has no others, or for
\* a maximum that is not positive.
LEMMA ReasonStep ==
  ASSUME AllTypes, Stage, NoBlocks, NoneLost, RaisesForAReason, [Next]_vars
  PROVE  RaisesForAReason'
  <1> SUFFICES ASSUME stage' = "raised", hint = 0 => caller # "split_task"
               PROVE  \/ \E i \in ToSet(elements') : i.w < 0
                      \/ max_weight' <= 0
                      \/ caller' = "split_task" /\ Len(Heavy(elements')) <= 1
    BY SameInputs DEF RaisesForAReason
  <1>1. /\ Types /\ TypeOK /\ caller' = caller /\ elements' = elements /\ hint' = hint
        /\ elements \in Seq(Item) /\ tasks \in Seq(Seq(Item)) /\ calls \in Seq(Seq(Item))
        /\ ~Unmeasured
    BY SameInputs DEF AllTypes, Types, Unmeasured
  <1>2. Len(Heavy(elements)) = Count(elements, Weighing) /\ Count(elements, Weighing) \in Nat
    BY <1>1, SelectLen, CountType DEF Heavy
  <1>3. CASE UNCHANGED vars
    BY <1>1, <1>3 DEF vars, splitter, RaisesForAReason
  <1>4. CASE Raise
    <2>1. stage \in {"splitting", "task"} /\ gen = "raised" /\ max_weight' = max_weight
      BY <1>4 DEF Raise, splitter
    <2>2. max_weight <= 0 \/ (items # << >> /\ Item1.w < 0)
      BY <2>1 DEF Stage, GenStage
    <2>3. CASE items # << >> /\ Item1.w < 0
      <3> DEFINE S == {i \in Item : i.w < 0}  a == Flat(Seqs(blocks)) \o ws.seq
      <3>1. S \in Kinds
        BY KindsWeigh
      <3>2. a \in Seq(Item) /\ items \in Seq(Item) /\ Rest = a \o items
        <4> DEFINE x == Flat(Seqs(blocks))  y == ws.seq
        <4>1. x \in Seq(Item) /\ y \in Seq(Item) /\ items \in Seq(Item)
          BY <1>1, RestType
        <4> HIDE DEF x, y
        <4>2. x \o y \in Seq(Item)
          BY <4>1
        <4> QED BY <4>1, <4>2 DEF x, y, Rest
      <3>3. \E n \in DOMAIN items : items[n] \in S
        <4>1. 1 \in DOMAIN items /\ items[1] = Item1 /\ items[1] \in Item
          BY <2>3, <3>2 DEF Item1
        <4> QED BY <2>3, <4>1
      <3> HIDE DEF S, a
      <3>4. Count(Rest, S) = Count(a, S) + Count(items, S) /\ Count(a, S) \in Nat
            /\ Count(items, S) \in Nat /\ Count(items, S) # 0
        <4>1. Count(items, S) # 0
          BY <3>2, <3>3, SomeCount
        <4>2. Count(a \o items, S) = Count(a, S) + Count(items, S)
          BY <3>2, CountConcat
        <4> QED BY <3>2, <4>1, <4>2, CountType
      <3>5. Count(Computed, S) + Left(S) = Count(elements, S)
        BY <1>1, <2>1, <3>1 DEF NoneLost
      <3>6. Left(S) = Count(Rest, S) + Count(Flat(tasks), S)
        BY <2>1 DEF Left
      <3>7. Count(Computed, S) \in Nat /\ Count(Flat(tasks), S) \in Nat
        BY <1>1, CountFlat DEF Computed
      <3>8. Count(elements, S) # 0
        BY <3>4, <3>5, <3>6, <3>7
      <3>9. PICK n \in DOMAIN elements : elements[n] \in S
        BY <1>1, <3>8, SomeCount
      <3> QED BY <1>1, <3>9 DEF ToSet, S
    <2> QED BY <1>1, <2>1, <2>2, <2>3
  <1>5. CASE ComputeFirst
    <2>1. Len(elements) > 1 /\ Head(ByWeight(elements)).w = 0 /\ caller = "split_task"
      BY <1>5 DEF ComputeFirst
    <2>2. Count(elements, Weighing) = 0
      BY <1>1, <2>1, NoneIsHeavy
    <2> QED BY <1>1, <1>2, <2>1, <2>2
  <1>6. CASE ComputeBlocks
    <2>1. stage = "splitting" /\ gen = "ended" /\ caller = "split_task" /\ blocks = << >> /\ tasks = << >>
          /\ items = << >> /\ ws = Empty
      BY <1>6 DEF ComputeBlocks, Stage, GenStage
    <2>2. PICK i \in Item : calls = <<<<i>>>>
      BY <2>1 DEF Stage
    <2>3. Computed = <<i>>
      <3> DEFINE b == <<i>>
      <3>1. b \in Seq(Item)
        BY <2>2
      <3> HIDE DEF b
      <3>2. FlattenSeq(<<b>>) = b
        BY <3>1, FlattenOne
      <3> QED BY <2>2, <3>2 DEF Computed, Flat, b
    <2>4. Count(Computed, Weighing) <= 1 /\ Count(Computed, Weighing) \in Nat
      BY <2>3, CountOne
    <2>5. Rest = << >>
      <3>1. Rest = Flat(Seqs(blocks))
        BY <1>1, <2>1, EndedRest
      <3> QED BY <2>1, <3>1 DEF Flat, Seqs, FlattenSeq
    <2>6. Left(Weighing) = 0
      <3>1. Count(Rest, Weighing) = 0 /\ Count(Flat(tasks), Weighing) = 0
        BY <1>1, <2>1, <2>5, CountOne, CountFlat
      <3> QED BY <3>1 DEF Left
    <2>7. Count(Computed, Weighing) + Left(Weighing) = Count(elements, Weighing)
      BY <1>1, <2>1, KindsWeigh DEF NoneLost
    <2>8. Count(elements, Weighing) <= 1
      BY <2>4, <2>6, <2>7
    <2> QED BY <1>1, <1>2, <2>1, <2>8
  <1>7. CASE Splits
    BY <1>7 DEF Splits
  <1>8. CASE Calls /\ ~ComputeFirst
    BY <1>8 DEF Calls, ApplyMaxWeight, ApplyBlocks, Execute, RunTask
  <1>9. CASE DontSplit \/ Apply \/ Submit \/ EndTask \/ EndEmptyTask \/ Executed \/ ComputeOnly
    BY <1>9 DEF DontSplit, Apply, Submit, EndTask, EndEmptyTask, Executed, ComputeOnly
  <1> QED BY <1>3, <1>4, <1>5, <1>6, <1>7, <1>8, <1>9, NextIs DEF Others

-----------------------------------------------------------------------------
\* Nothing is lost before the first step.
LEMMA WorkInit == Init => WorkInv
  <1> SUFFICES ASSUME Init PROVE WorkInv
    OBVIOUS
  <1>1. AllTypes
    BY InitTypes
  <1>2. Stage /\ NoBlocks /\ NoneLost /\ InOrder /\ RaisesForAReason
    BY DEF Init, Stage, NoBlocks, NoneLost, InOrder, RaisesForAReason
  <1> QED BY <1>1, <1>2 DEF WorkInv

\* No step breaks WorkInv.
LEMMA WorkStep ==
  ASSUME WorkInv, [Next]_vars
  PROVE  WorkInv'
  <1>1. AllTypes /\ Stage /\ NoBlocks /\ NoneLost /\ InOrder /\ RaisesForAReason
    BY DEF WorkInv
  <1>2. AllTypes'
    BY <1>1, TypesStep
  <1>3. Stage'
    BY <1>1, StageStep
  <1>4. NoBlocks'
    BY <1>1, NoBlocksStep
  <1>5. NoneLost'
    <2>1. SUFFICES ASSUME stage' \notin {"called", "raised"}, ~(stage' = "splitting" /\ Unmeasured'),
                          NEW S \in Kinds
                   PROVE  Balanced(S)'
      BY DEF NoneLost, Balanced
    <2>2. Unmeasured' <=> Unmeasured
      BY SameInputs DEF Unmeasured
    <2> QED BY <1>1, <2>1, <2>2, BalancedStep
  <1>6. InOrder'
    BY <1>1, InOrderStep
  <1>7. RaisesForAReason'
    BY <1>1, ReasonStep
  <1> QED BY <1>2, <1>3, <1>4, <1>5, <1>6, <1>7 DEF WorkInv

\* WorkInv holds in every state.
LEMMA AlwaysWork == Spec => []WorkInv
  BY WorkInit, WorkStep, PTL DEF Spec

\* An identity that weighs is a kind, and nothing is left when the caller returned.
LEMMA OnceFromWork == WorkInv => EachOnce
  <1> SUFFICES ASSUME WorkInv, stage = "returned", NEW id \in Id
               PROVE  Occurrences(Computed, id) = Occurrences(elements, id)
    BY DEF EachOnce
  <1> DEFINE S == {i \in Item : i.id = id /\ i.w > 0}
  <1>1. /\ elements \in Seq(Item) /\ tasks = << >> /\ tasks \in Seq(Seq(Item)) /\ calls \in Seq(Seq(Item))
    BY DEF WorkInv, AllTypes, Types, Stage
  <1>2. S \in Kinds
    BY KindsWeigh
  <1>3. Computed \in Seq(Item)
    BY <1>1, FlattenElements DEF Computed, Flat
  <1>4. ASSUME NEW s \in Seq(Item) PROVE Occurrences(s, id) = Count(s, S)
    <2>1. \A n \in DOMAIN s : s[n] \in Item
      OBVIOUS
    <2>2. {n \in DOMAIN s : s[n].id = id /\ s[n] \in Weighing} = {n \in DOMAIN s : s[n] \in S}
      BY <2>1 DEF Weighing
    <2> QED BY <2>2 DEF Occurrences, Count
  <1> HIDE DEF S
  <1>5. Count(Computed, S) + Left(S) = Count(elements, S)
    BY <1>2 DEF WorkInv, NoneLost
  <1>6. Left(S) = 0 /\ Count(Computed, S) \in Nat
    <2>1. Count(Flat(tasks), S) = 0
      BY <1>1, CountFlat
    <2>2. stage \notin {"splitting", "task"}
      OBVIOUS
    <2>3. Left(S) = 0
      BY <2>1, <2>2 DEF Left
    <2> QED BY <1>3, <2>3, CountType
  <1> QED BY <1>1, <1>3, <1>4, <1>5, <1>6

\* EachOnce: every element that weighs something is in exactly one call, whichever
\* caller cut it and cut it again, for all sequences, weights and keys.
THEOREM AlwaysOnce == Spec => []EachOnce
  BY AlwaysWork, OnceFromWork, PTL

\* InOrder: Starmap.apply with a maximum weight keeps the order of the elements.
THEOREM AlwaysInOrder == Spec => []InOrder
  <1>1. WorkInv => InOrder
    BY DEF WorkInv
  <1> QED BY AlwaysWork, <1>1, PTL

\* RaisesForAReason: no caller runs into an error that its elements, its maximum
\* weight and its time do not explain.
THEOREM AlwaysForAReason == Spec => []RaisesForAReason
  <1>1. WorkInv => RaisesForAReason
    BY DEF WorkInv
  <1> QED BY AlwaysWork, <1>1, PTL

-----------------------------------------------------------------------------
(* split_in_blocks: the number of blocks *)

\* The least multiple of b that is not less than a
LEMMA CeilIs == \A a \in Int, b \in Nat : b > 0 => a <= b * ceil(a, b)
  <1> SUFFICES ASSUME NEW a \in Int, NEW b \in Nat, b > 0 PROVE a <= b * ceil(a, b)
    OBVIOUS
  <1> DEFINE q == a \div b  r == a % b
  <1>1. a = b * q + r /\ 0 <= r /\ r < b /\ q \in Int /\ r \in Int
    OBVIOUS
  <1>2. ceil(a, b) = IF r = 0 THEN q ELSE q + 1
    BY DEF ceil
  <1> HIDE DEF q, r
  <1>3. b * (q + 1) = b * q + b
    BY <1>1
  <1> QED BY <1>1, <1>2, <1>3

\* Pairs that each weigh more than m are fewer than h, if h times m is all there is.
LEMMA FewPairs ==
  ASSUME NEW p \in Nat, NEW h \in Nat, NEW m \in Nat, NEW total \in Int,
         m > 0, h > 0, p * (m + 1) <= total, total <= h * m
  PROVE  p <= h - 1
  <1> SUFFICES ASSUME p >= h PROVE FALSE
    OBVIOUS
  <1>1. p * (m + 1) >= h * (m + 1)
    OBVIOUS
  <1>2. h * (m + 1) = h * m + h
    OBVIOUS
  <1>3. p * (m + 1) \in Int /\ h * (m + 1) \in Int /\ h * m \in Int
    OBVIOUS
  <1> DEFINE x == p * (m + 1)  y == h * (m + 1) z == h * m
  <1>4. x >= y /\ y = z + h /\ x \in Int /\ y \in Int /\ z \in Int /\ x <= total /\ total <= z
    BY <1>1, <1>2, <1>3
  <1> HIDE DEF x, y, z
  <1> QED BY <1>4

-----------------------------------------------------------------------------
\* The blocks so far, with the one that is being filled
Number == Len(blocks) + (IF ws.seq = << >> THEN 0 ELSE 1)

\* The weight of the items so far
Spent == Weigh(elements) - Weigh(items)

\* Two blocks in a row of one key weigh more than max_weight.  Of the blocks so
\* far p such pairs were made, and for each of the keys that were seen there may
\* be one block more; the last block is of a pair, or it is still free.
Close(p, seen) ==
  /\ \/ Number + 1 <= 2 * p + Cardinality(seen) /\ Spent >= p * (max_weight + 1)
     \/ Number <= 2 * p + Cardinality(seen) /\ Spent - ws.weight >= p * (max_weight + 1)
  /\ \A k \in seen : k <= prev_key /\ \A n \in DOMAIN items : prev_key <= items[n].k
  /\ gen = "running" /\ ws.seq = << >> => seen = {}

\* Sorted by key
Sorted(its) == \A m, n \in DOMAIN its : m < n => its[m].k <= its[n].k

\* split_in_blocks while its generator is running or has ended
InBlocks == caller = "blocks" /\ stage = "splitting" /\ gen # "raised"

\* The inductive invariant of CloseToHint: what was yielded are p pairs of blocks
\* that weigh more than max_weight together, and one block for each key.
PairsOfBlocks ==
  InBlocks =>
    /\ hint > 1 /\ max_weight = ceil(Weigh(elements), hint) /\ max_weight > 0
    /\ ws.weight >= 0 /\ (ws.seq = << >> => ws.weight = 0)
    /\ Sorted(items) /\ \A n \in DOMAIN items : items[n].k \in Keys(elements)
    /\ \E p \in Nat, seen \in SUBSET Keys(elements) : Close(p, seen)

\* There are finitely many keys, and those seen are no more.
LEMMA KeysType ==
  ASSUME NEW s \in Seq(Item)
  PROVE  /\ IsFiniteSet(Keys(s)) /\ Keys(s) \subseteq Int /\ Cardinality(Keys(s)) \in Nat
         /\ \A seen \in SUBSET Keys(s) : /\ IsFiniteSet(seen) /\ Cardinality(seen) \in Nat
                                         /\ Cardinality(seen) <= Cardinality(Keys(s))
  <1> DEFINE f == [n \in 1..Len(s) |-> s[n].k]
  <1>1. Keys(s) = {s[n].k : n \in 1..Len(s)}
    BY DEF Keys, ToSet
  <1>2. f \in Surjection(1..Len(s), Keys(s))
    BY <1>1 DEF Surjection
  <1>3. IsFiniteSet(1..Len(s))
    <2>1. Len(s) \in Nat
      OBVIOUS
    <2> QED BY <2>1, FS_Interval
  <1>4. \A n \in 1..Len(s) : s[n].k \in Int
    <2>1. \A n \in 1..Len(s) : s[n] \in Item
      OBVIOUS
    <2> QED BY <2>1, ItemFields
  <1> HIDE DEF f
  <1>5. IsFiniteSet(Keys(s))
    BY <1>2, <1>3, FS_Surjection
  <1> QED BY <1>1, <1>4, <1>5, FS_Subset, FS_CardinalityType

\* The last item of a block that is yielded, and the weight that is spent
LEMMA SpentStep ==
  ASSUME AllTypes, Running, items' = Tail(items), elements' = elements
  PROVE  /\ Spent' = Spent + Item1.w /\ Spent \in Int /\ Item1.w \in Int
         /\ items \in Seq(Item) /\ items # << >>
  <1>1. items \in Seq(Item) /\ items # << >> /\ elements \in Seq(Item) /\ Tail(items) \in Seq(Item)
    BY DEF AllTypes, Types, TypeOK, Running
  <1>2. Weigh(items) = Item1.w + Weigh(Tail(items))
    BY <1>1, WeighFirst DEF Item1
  <1>3. Weigh(items) \in Int /\ Weigh(Tail(items)) \in Int /\ Weigh(elements) \in Int
    BY <1>1, WeighIs
  <1>4. Item1.w \in Int
    BY FirstItem DEF AllTypes, Types
  <1>5. Weigh(items)' = Weigh(Tail(items)) /\ Weigh(elements)' = Weigh(elements)
    OBVIOUS
  <1> DEFINE a == Weigh(items)  b == Weigh(Tail(items))  c == Weigh(elements)  w == Item1.w
  <1>6. Spent = c - a /\ Spent' = c - b /\ a = w + b /\ a \in Int /\ b \in Int /\ c \in Int /\ w \in Int
    BY <1>2, <1>3, <1>4, <1>5 DEF Spent
  <1> HIDE DEF a, b, c, w
  <1>7. Spent' = Spent + w /\ Spent \in Int
    BY <1>6
  <1> QED BY <1>1, <1>4, <1>7 DEF w

\* The items but the first
LEMMA TailSorted ==
  ASSUME NEW its \in Seq(Item), its # << >>, Sorted(its)
  PROVE  /\ Sorted(Tail(its)) /\ \A n \in DOMAIN Tail(its) : Tail(its)[n] \in ToSet(its)
         /\ \A n \in DOMAIN Tail(its) : Head(its).k <= Tail(its)[n].k
         /\ \A K : (\A n \in DOMAIN its : its[n].k \in K) => \A n \in DOMAIN Tail(its) : Tail(its)[n].k \in K
  <1> DEFINE t == Tail(its)
  <1>1. \A n \in DOMAIN t : n \in Nat /\ n >= 1 /\ n + 1 \in DOMAIN its /\ t[n] = its[n + 1]
    OBVIOUS
  <1>2. 1 \in DOMAIN its /\ Head(its) = its[1]
    OBVIOUS
  <1> HIDE DEF t
  <1>3. Sorted(t)
    BY <1>1 DEF Sorted
  <1>4. \A n \in DOMAIN t : Head(its).k <= t[n].k
    BY <1>1, <1>2 DEF Sorted
  <1>5. \A n \in DOMAIN t : t[n] \in ToSet(its)
    BY <1>1 DEF ToSet
  <1>6. \A K : (\A n \in DOMAIN its : its[n].k \in K) => \A n \in DOMAIN t : t[n].k \in K
    BY <1>1
  <1> QED BY <1>3, <1>4, <1>5, <1>6 DEF t

\* A new block of a key that was seen is a pair with the last one, if that is free.
LEMMA CloseNewBlock ==
  ASSUME AllTypes, InBlocks, PairsOfBlocks, NewBlock, elements' = elements,
         NEW p \in Nat, NEW seen \in SUBSET Keys(elements), Close(p, seen)
  PROVE  \E q \in Nat, new \in SUBSET Keys(elements) : Close(q, new)'
  <1> DEFINE i == Item1  m == max_weight + 1  w == ws.weight
  <1>1. /\ Running /\ i.w >= 0 /\ ~Fits(i) /\ blocks' = Yield
        /\ ws' = [seq |-> <<i>>, weight |-> i.w] /\ items' = Tail(items)
        /\ prev_key' = i.k /\ max_weight' = max_weight /\ gen' = gen /\ gen = "running"
    BY DEF NewBlock, Running
  <1>2. /\ TypeOK /\ prev_key \in Int /\ max_weight \in Int /\ w \in Int
        /\ blocks \in Seq(WeightedSequence) /\ ws \in WeightedSequence /\ elements \in Seq(Item)
    BY KeyAssumption DEF AllTypes, Types, TypeOK, WeightedSequence
  <1>3. i \in Item /\ i.w \in Int /\ i.k \in Int
    BY <1>1, <1>2, FirstItem, ItemFields
  <1>4. Spent' = Spent + i.w /\ Spent \in Int /\ items \in Seq(Item) /\ items # << >>
    BY <1>1, SpentStep
  <1>5. Number' = Number + 1 /\ Number \in Nat
    <2>1. <<i>> # << >> /\ ws'.seq = <<i>>
      BY <1>1
    <2>2. Len(blocks) \in Nat /\ Len(Append(blocks, ws)) = Len(blocks) + 1
      BY <1>2
    <2> QED BY <1>1, <2>1, <2>2 DEF Number, Yield
  <1>6. /\ \A n \in DOMAIN items : items[n].k \in Keys(elements)
        /\ Sorted(items) /\ w >= 0 /\ m \in Nat /\ m > 1
    BY <1>2 DEF PairsOfBlocks
  <1>7. \A n \in DOMAIN Tail(items) : i.k <= Tail(items)[n].k
    BY <1>4, <1>6, TailSorted DEF Item1
  <1>8. 1 \in DOMAIN items /\ i = items[1]
    BY <1>4 DEF Item1
  <1>9. seen \subseteq Int /\ IsFiniteSet(seen) /\ Cardinality(seen) \in Nat
    BY <1>2, KeysType
  <1>10. \A k \in seen : k <= i.k /\ k <= prev_key /\ prev_key <= i.k
    <2>1. \A k \in seen : k <= prev_key /\ prev_key <= i.k
      BY <1>8 DEF Close
    <2> QED BY <1>2, <1>3, <1>9, <2>1
  <1> DEFINE c == Cardinality(seen)  N == Number  T == Spent
  <1>11. /\ \/ N + 1 <= 2 * p + c /\ T >= p * m
            \/ N <= 2 * p + c /\ T - w >= p * m
         /\ p * m \in Int
    <2>1. p * m \in Int
      BY <1>6
    <2> QED BY <2>1 DEF Close
  <1>12. ws'.weight = i.w /\ ws'.seq # << >> /\ (max_weight + 1)' = m
    BY <1>1
  <1>13. N' = N + 1 /\ T' = T + i.w /\ N \in Nat /\ T \in Int /\ c \in Nat
    BY <1>4, <1>5, <1>9
  <1>0. PICK key : key = i.k
    OBVIOUS
  <1>14. CASE i.k \notin seen
    <2> DEFINE new == seen \cup {key}
    <2>1. new \in SUBSET Keys(elements)
      BY <1>0, <1>6, <1>8
    <2>2. Cardinality(new) = c + 1
      BY <1>0, <1>9, <1>14, FS_AddElement
    <2>3. \A k \in new : k <= i.k
      BY <1>0, <1>3, <1>10
    <2> HIDE DEF new, N, T, c, i, w, m
    <2>4. N' <= 2 * p + Cardinality(new) /\ T' - i.w >= p * m
      BY <1>2, <1>3, <1>6, <1>11, <1>13, <2>2
    <2>5. Close(p, new)'
      BY <1>1, <1>7, <1>12, <2>3, <2>4 DEF Close, N, T, m, i
    <2> QED BY <2>1, <2>5
  <1>15. CASE i.k \in seen
    <2>1. i.k = prev_key
      BY <1>2, <1>3, <1>10, <1>15
    <2>2. w + i.w >= m
      BY <1>1, <1>2, <1>3, <2>1 DEF Fits
    <2>3. \A k \in seen : k <= i.k
      BY <1>10
    <2> HIDE DEF N, T, c, i, w, m
    <2>4. CASE N + 1 <= 2 * p + c /\ T >= p * m
      <3>1. N' <= 2 * p + c /\ T' - i.w >= p * m
        BY <1>3, <1>13, <1>11, <2>4
      <3>2. Close(p, seen)'
        BY <1>1, <1>7, <1>12, <2>3, <3>1 DEF Close, N, T, m, i, c
      <3> QED BY <3>2
    <2>5. CASE N <= 2 * p + c /\ T - w >= p * m
      <3>1. (p + 1) * m = p * m + m
        BY <1>6
      <3>2. N' + 1 <= 2 * (p + 1) + c /\ T' >= (p + 1) * m
        <4> DEFINE x == p * m  y == (p + 1) * m
      <4>1. y = x + m /\ T - w >= x /\ x \in Int /\ m \in Int /\ w \in Int
        BY <1>2, <1>6, <1>11, <2>5, <3>1
      <4> HIDE DEF x, y
      <4>2. T' >= y
        BY <1>3, <1>13, <2>2, <4>1
      <4>3. N' + 1 <= 2 * (p + 1) + c
        BY <1>13, <2>5
      <4> QED BY <4>2, <4>3 DEF y
      <3>3. Close(p + 1, seen)'
        BY <1>1, <1>7, <1>12, <2>3, <3>2 DEF Close, N, T, m, i, c
      <3> QED BY <3>3
    <2> QED BY <1>11, <2>4, <2>5
  <1> QED BY <1>14, <1>15

\* A block that got an item is not empty.
LEMMA NotEmpty == \A s \in Seq(Item), i \in Item : Append(s, i) # << >>
  <1> SUFFICES ASSUME NEW s \in Seq(Item), NEW i \in Item PROVE Append(s, i) # << >>
    OBVIOUS
  <1>1. Len(Append(s, i)) = Len(s) + 1 /\ Len(s) \in Nat /\ Len(<< >>) = 0
    OBVIOUS
  <1> QED BY <1>1

\* An item that is appended leaves the pairs as they are, or begins the first block.
LEMMA CloseAppendItem ==
  ASSUME AllTypes, InBlocks, PairsOfBlocks, AppendItem, elements' = elements,
         NEW p \in Nat, NEW seen \in SUBSET Keys(elements), Close(p, seen)
  PROVE  \E q \in Nat, new \in SUBSET Keys(elements) : Close(q, new)'
  <1> DEFINE i == Item1  m == max_weight + 1  w == ws.weight  c == Cardinality(seen)
             N == Number  T == Spent
  <1>1. /\ Running /\ i.w > 0 /\ i.k = prev_key /\ blocks' = blocks
        /\ ws' = [seq |-> Append(ws.seq, i), weight |-> w + i.w] /\ items' = Tail(items)
        /\ prev_key' = prev_key /\ max_weight' = max_weight /\ gen' = gen /\ gen = "running"
    BY DEF AppendItem, Running, Fits
  <1>2. /\ TypeOK /\ prev_key \in Int /\ max_weight \in Int /\ w \in Int /\ ws.seq \in Seq(Item)
        /\ blocks \in Seq(WeightedSequence) /\ elements \in Seq(Item)
    BY KeyAssumption DEF AllTypes, Types, TypeOK, WeightedSequence
  <1>3. i \in Item /\ i.w \in Int /\ i.k \in Int
    BY <1>1, <1>2, FirstItem, ItemFields
  <1>4. T' = T + i.w /\ T \in Int /\ items \in Seq(Item) /\ items # << >>
    BY <1>1, SpentStep
  <1>5. /\ ws'.weight = w + i.w /\ ws'.seq = Append(ws.seq, i) /\ ws'.seq # << >> /\ (max_weight + 1)' = m
    <2>1. Append(ws.seq, i) # << >>
      BY <1>2, <1>3, NotEmpty
    <2> QED BY <1>1, <2>1
  <1>6. /\ \A n \in DOMAIN items : items[n].k \in Keys(elements)
        /\ Sorted(items) /\ w >= 0 /\ (ws.seq = << >> => w = 0) /\ m \in Nat /\ m > 1
    BY <1>2 DEF PairsOfBlocks
  <1>7. \A n \in DOMAIN Tail(items) : i.k <= Tail(items)[n].k
    BY <1>4, <1>6, TailSorted DEF Item1
  <1>8. 1 \in DOMAIN items /\ i = items[1]
    BY <1>4 DEF Item1
  <1>9. seen \subseteq Int /\ IsFiniteSet(seen) /\ c \in Nat
    BY <1>2, KeysType
  <1>10. \A k \in seen : k <= prev_key
    BY DEF Close
  <1>11. /\ \/ N + 1 <= 2 * p + c /\ T >= p * m
            \/ N <= 2 * p + c /\ T - w >= p * m
         /\ p * m \in Int
    <2>1. p * m \in Int
      BY <1>6
    <2> QED BY <2>1 DEF Close
  <1>0. PICK key : key = i.k
    OBVIOUS
  <1>12. Len(blocks) \in Nat
    BY <1>2
  <1>13. CASE ws.seq = << >>
    <2> DEFINE new == {key}
    <2>1. seen = {} /\ c = 0
      BY <1>1, <1>13, FS_EmptySet DEF Close
    <2>2. new \in SUBSET Keys(elements) /\ Cardinality(new) = 1
      BY <1>0, <1>6, <1>8, FS_Singleton
    <2>3. \A k \in new : k <= prev_key
      BY <1>0, <1>1, <1>2
    <2>4. N' = N + 1 /\ N \in Nat
      BY <1>1, <1>5, <1>12, <1>13 DEF Number
    <2> HIDE DEF new, N, T, i, w, m, c
    <2>5. N' <= 2 * p + Cardinality(new) /\ T' - (w + i.w) >= p * m
      BY <1>2, <1>3, <1>4, <1>6, <1>11, <1>13, <2>1, <2>2, <2>4
    <2>6. Close(p, new)'
      BY <1>0, <1>1, <1>5, <1>7, <2>3, <2>5 DEF Close, N, T, m, i, new
    <2> QED BY <2>2, <2>6
  <1>14. CASE ws.seq # << >>
    <2>1. N' = N /\ N \in Nat
      BY <1>1, <1>5, <1>12, <1>14 DEF Number
    <2> HIDE DEF N, T, i, w, m, c
    <2>2. \/ N' + 1 <= 2 * p + c /\ T' >= p * m
          \/ N' <= 2 * p + c /\ T' - (w + i.w) >= p * m
      BY <1>2, <1>3, <1>4, <1>1, <1>11, <2>1
    <2>3. Close(p, seen)'
      BY <1>1, <1>5, <1>7, <1>10, <2>2 DEF Close, N, T, m, i, c
    <2> QED BY <2>3
  <1> QED BY <1>13, <1>14

\* An item that is ignored changes nothing.
LEMMA CloseIgnoreItem ==
  ASSUME AllTypes, InBlocks, PairsOfBlocks, IgnoreItem, elements' = elements,
         NEW p \in Nat, NEW seen \in SUBSET Keys(elements), Close(p, seen)
  PROVE  Close(p, seen)'
  <1>1. /\ Running /\ Item1.w = 0 /\ blocks' = blocks /\ ws' = ws /\ items' = Tail(items)
        /\ prev_key' = prev_key /\ max_weight' = max_weight /\ gen' = gen
    BY DEF IgnoreItem
  <1>2. Spent' = Spent
    BY <1>1, SpentStep
  <1>3. Number' = Number
    BY <1>1 DEF Number
  <1>4. items \in Seq(Item) /\ items # << >>
    BY <1>1, SpentStep
  <1>5. \A K : (\A n \in DOMAIN items : items[n].k \in K) => \A n \in DOMAIN Tail(items) : Tail(items)[n].k \in K
    <2>1. \A n \in DOMAIN Tail(items) : n + 1 \in DOMAIN items /\ Tail(items)[n] = items[n + 1]
      BY <1>4
    <2> QED BY <2>1
  <1>6. \A k \in seen : \A n \in DOMAIN Tail(items) : prev_key <= Tail(items)[n].k
    <2>1. \A n \in DOMAIN Tail(items) : n + 1 \in DOMAIN items /\ Tail(items)[n] = items[n + 1]
      BY <1>4
    <2> QED BY <2>1 DEF Close
  <1> QED BY <1>1, <1>2, <1>3, <1>6 DEF Close

\* The block that was being filled becomes one of those yielded.
LEMMA CloseLastBlock ==
  ASSUME AllTypes, InBlocks, PairsOfBlocks, LastBlock, elements' = elements,
         NEW p \in Nat, NEW seen \in SUBSET Keys(elements), Close(p, seen)
  PROVE  Close(p, seen)'
  <1>1. /\ blocks' = Yield /\ ws'.seq = << >> /\ ws'.weight = 0 /\ items' = << >> /\ items = << >>
        /\ prev_key' = prev_key /\ max_weight' = max_weight /\ gen' = "ended"
    BY DEF LastBlock, Empty
  <1>2. Spent' = Spent /\ Spent \in Int
    <2>1. Weigh(items) \in Int /\ Weigh(elements) \in Int
      BY WeighIs DEF AllTypes, Types, TypeOK
    <2> QED BY <1>1, <2>1 DEF Spent
  <1>3. Number' = Number
    <2>1. Len(blocks) \in Nat /\ Len(Append(blocks, ws)) = Len(blocks) + 1
      BY DEF AllTypes, Types, TypeOK
    <2> QED BY <1>1, <2>1 DEF Number, Yield
  <1>4. ws.weight \in Int /\ ws.weight >= 0 /\ p * (max_weight + 1) \in Int
    <2>1. max_weight \in Int /\ max_weight > 0
      BY DEF PairsOfBlocks, AllTypes, Types, TypeOK
    <2> QED BY <2>1 DEF PairsOfBlocks, AllTypes, Types, TypeOK, WeightedSequence
  <1> DEFINE x == p * (max_weight + 1)  c == 2 * p + Cardinality(seen)  N == Number  T == Spent  w == ws.weight
  <1>5. \/ N + 1 <= c /\ T >= x
        \/ N <= c /\ T - w >= x
    BY DEF Close
  <1> HIDE DEF x, c, N, T, w
  <1>6. \/ N + 1 <= c /\ T >= x
        \/ N <= c /\ T - 0 >= x
    BY <1>2, <1>4, <1>5 DEF T, w, x
  <1> QED BY <1>1, <1>2, <1>3, <1>6 DEF Close, x, c, N, T, w

-----------------------------------------------------------------------------
\* No step of the generator breaks PairsOfBlocks.
LEMMA PairsSplits ==
  ASSUME AllTypes, PairsOfBlocks, Splits
  PROVE  PairsOfBlocks'
  <1> SUFFICES ASSUME InBlocks'
      PROVE  /\ hint' > 1 /\ max_weight' = ceil(Weigh(elements'), hint') /\ max_weight' > 0
             /\ ws'.weight >= 0 /\ (ws'.seq = << >> => ws'.weight = 0)
             /\ Sorted(items') /\ \A n \in DOMAIN items' : items'[n].k \in Keys(elements')
             /\ \E q \in Nat, new \in SUBSET Keys(elements') : Close(q, new)'
    BY DEF PairsOfBlocks
  <1>1. /\ NextItem /\ caller' = caller /\ elements' = elements /\ hint' = hint /\ stage' = stage
    BY DEF Splits
  <1>2. max_weight' = max_weight /\ (gen = "raised" => gen' = "raised") /\ ~NegativeWeight
    BY <1>1 DEF NextItem, NegativeWeight, NewBlock, AppendItem, IgnoreItem, LastBlock, Running, InBlocks
  <1>3. InBlocks
    BY <1>1, <1>2 DEF InBlocks
  <1>4. /\ hint > 1 /\ max_weight = ceil(Weigh(elements), hint) /\ max_weight > 0
        /\ ws.weight >= 0 /\ (ws.seq = << >> => ws.weight = 0)
        /\ Sorted(items) /\ \A n \in DOMAIN items : items[n].k \in Keys(elements)
    BY <1>3 DEF PairsOfBlocks
  <1>5. PICK p \in Nat, seen \in SUBSET Keys(elements) : Close(p, seen)
    BY <1>3 DEF PairsOfBlocks
  <1>6. \E q \in Nat, new \in SUBSET Keys(elements) : Close(q, new)'
    BY <1>1, <1>2, <1>3, <1>5, CloseNewBlock, CloseAppendItem, CloseIgnoreItem, CloseLastBlock DEF NextItem
  <1>7. items \in Seq(Item) /\ ws.weight \in Int /\ ws.seq \in Seq(Item)
    BY DEF AllTypes, Types, TypeOK, WeightedSequence
  <1>8. Running => Item1 \in Item /\ Item1.w \in Int
    BY FirstItem DEF AllTypes, Types
  <1>9. /\ ws'.weight >= 0 /\ (ws'.seq = << >> => ws'.weight = 0)
    <2>1. CASE NewBlock
      BY <1>8, <2>1 DEF NewBlock
    <2>2. CASE AppendItem
      <3>1. Append(ws.seq, Item1) # << >>
        BY <1>7, <1>8, <2>2, NotEmpty DEF AppendItem
      <3> QED BY <1>4, <1>7, <1>8, <2>2, <3>1 DEF AppendItem
    <2>3. CASE IgnoreItem
      BY <1>4, <2>3 DEF IgnoreItem
    <2>4. CASE LastBlock
      BY <2>4 DEF LastBlock, Empty
    <2> QED BY <1>1, <1>2, <2>1, <2>2, <2>3, <2>4 DEF NextItem
  <1>10. items' = items \/ (items # << >> /\ items' = Tail(items))
    BY <1>1 DEF NextItem, NegativeWeight, NewBlock, AppendItem, IgnoreItem, LastBlock, Running
  <1>11. Sorted(items')
    BY <1>4, <1>7, <1>10, TailSorted
  <1>12. \A n \in DOMAIN items' : items'[n].k \in Keys(elements)
    <2>1. CASE items' = Tail(items) /\ items # << >>
      <3>1. \A n \in DOMAIN Tail(items) : Tail(items)[n].k \in Keys(elements)
        BY <1>4, <1>7, <2>1, TailSorted
      <3> QED BY <2>1, <3>1
    <2> QED BY <1>4, <1>10, <2>1
  <1> QED BY <1>1, <1>2, <1>4, <1>6, <1>9, <1>11, <1>12

\* A call of split_in_blocks begins with no pairs.
LEMMA PairsCall ==
  ASSUME AllTypes, ApplyBlocks
  PROVE  PairsOfBlocks'
  <1> DEFINE its == ByKey(elements)  max == ceil(Weigh(elements), hint)
  <1>1. /\ Call(its, max) /\ hint > 1 /\ hint' = hint /\ elements' = elements
        /\ elements \in Seq(Item)
    BY DEF ApplyBlocks, AllTypes, Types
  <1> SUFFICES ASSUME gen' # "raised"
      PROVE  /\ hint' > 1 /\ max_weight' = max /\ max_weight' > 0
             /\ ws'.weight >= 0 /\ (ws'.seq = << >> => ws'.weight = 0)
             /\ Sorted(items') /\ \A n \in DOMAIN items' : items'[n].k \in Keys(elements')
             /\ \E q \in Nat, new \in SUBSET Keys(elements') : Close(q, new)'
    BY <1>1 DEF PairsOfBlocks, InBlocks
  <1>2. max \in Int
    BY <1>1, WeighIs, CeilType DEF AllTypes, Types
  <1>3. its \in Seq(Item) /\ Weigh(its) = Weigh(elements) /\ Weigh(elements) \in Int
    BY <1>1, SortedCount, WeighPermuted, WeighIs
  <1>4. PICK f \in Bijection(1..Len(elements), 1..Len(elements)) :
           /\ its = [r \in 1..Len(elements) |-> elements[f[r]]]
           /\ \A q, r \in 1..Len(elements) : q < r => elements[f[q]].k <= elements[f[r]].k
    BY <1>1, ByKeyIs
  <1>5. \A r \in 1..Len(elements) : f[r] \in 1..Len(elements)
    BY DEF Bijection, Injection
  <1>6. Sorted(its)
    <2>1. DOMAIN its = 1..Len(elements) /\ \A r \in 1..Len(elements) : its[r] = elements[f[r]]
      BY <1>4
    <2> HIDE DEF its
    <2> QED BY <1>4, <2>1 DEF Sorted
  <1>7. \A n \in DOMAIN its : its[n].k \in Keys(elements)
    <2>1. DOMAIN its = 1..Len(elements) /\ \A r \in 1..Len(elements) : its[r] = elements[f[r]]
      BY <1>4
    <2>2. DOMAIN elements = 1..Len(elements)
      BY <1>1
    <2> HIDE DEF its
    <2> QED BY <1>5, <2>1, <2>2 DEF Keys, ToSet
  <1> HIDE DEF its, max
  <1>8. /\ items' = its /\ max_weight' = max /\ ws' = Empty /\ blocks' = << >> /\ max > 0
    BY <1>1, <1>2 DEF Call
  <1>9. Close(0, {})'
    <2>1. Number' = 0
      BY <1>8 DEF Number, Empty
    <2>2. Spent' = 0
      BY <1>1, <1>3, <1>8 DEF Spent
    <2>3. Cardinality({}) = 0
      BY FS_EmptySet
    <2>4. 0 * (max + 1) = 0
      BY <1>2
    <2>5. ws'.weight = 0
      BY <1>8 DEF Empty
    <2> QED BY <1>8, <2>1, <2>2, <2>3, <2>4, <2>5 DEF Close
  <1>10. \E q \in Nat, new \in SUBSET Keys(elements') : Close(q, new)'
    <2>1. 0 \in Nat /\ {} \in SUBSET Keys(elements')
      OBVIOUS
    <2> QED BY <1>9, <2>1
  <1> QED BY <1>1, <1>6, <1>7, <1>8, <1>10 DEF Empty

\* No step breaks PairsOfBlocks.
LEMMA PairsStep ==
  ASSUME AllTypes, PairsOfBlocks, [Next]_vars
  PROVE  PairsOfBlocks'
  <1>1. CASE Splits
    BY <1>1, PairsSplits
  <1>2. CASE ApplyBlocks
    BY <1>2, PairsCall
  <1>3. CASE UNCHANGED vars
    BY <1>3 DEF vars, splitter, PairsOfBlocks, InBlocks, Close, Number, Spent
  <1>4. CASE ApplyMaxWeight \/ Execute \/ RunTask \/ ComputeFirst \/ Others
    BY <1>4, OthersKeep DEF ApplyMaxWeight, Execute, RunTask, ComputeFirst, PairsOfBlocks, InBlocks
  <1> QED BY <1>1, <1>2, <1>3, <1>4, NextIs DEF Calls

-----------------------------------------------------------------------------
\* groupby returns a group for each key.
LEMMA GroupsLen ==
  ASSUME NEW s \in Seq(Item)
  PROVE  Len(groupby(s)) = Cardinality(Keys(s))
  <1>1. Cardinality(Keys(s)) \in Nat
    BY KeysType
  <1>2. groupby(s) \in Seq(Seq(Item)) /\ DOMAIN groupby(s) = 1..Cardinality(Keys(s))
    BY GroupsCount DEF groupby
  <1> QED BY <1>1, <1>2, LenProperties

\* When split_in_blocks returns, p pairs weigh less than hint times max_weight in
\* all, so that p < hint.
LEMMA CloseStep ==
  ASSUME AllTypes, Stage, PairsOfBlocks, CloseToHint, [Next]_vars
  PROVE  CloseToHint'
  <1> SUFFICES ASSUME caller' = "blocks", stage' = "returned"
               PROVE  Len(calls') <= 2 * (IF hint > 1 THEN hint - 1 ELSE 0) + Cardinality(Keys(elements))
    BY SameInputs DEF CloseToHint
  <1>1. caller = "blocks" /\ hint \in Nat /\ elements \in Seq(Item) /\ elements' = elements
    BY SameInputs DEF AllTypes, Types
  <1>2. Cardinality(Keys(elements)) \in Nat
    BY <1>1, KeysType
  <1>3. CASE DontSplit
    <2>1. hint <= 1 /\ calls' = groupby(elements)
      BY <1>3 DEF DontSplit
    <2> QED BY <1>1, <1>2, <2>1, GroupsLen
  <1>4. CASE Apply
    <2>1. stage = "splitting" /\ gen = "ended" /\ calls' = Seqs(blocks) /\ items = << >> /\ ws = Empty
      BY <1>4 DEF Apply, Stage, GenStage
    <2>2. InBlocks /\ hint > 1 /\ max_weight = ceil(Weigh(elements), hint) /\ max_weight > 0
      BY <1>1, <2>1 DEF PairsOfBlocks, InBlocks
    <2>3. PICK p \in Nat, seen \in SUBSET Keys(elements) : Close(p, seen)
      BY <2>2 DEF PairsOfBlocks
    <2>4. Cardinality(seen) \in Nat /\ Cardinality(seen) <= Cardinality(Keys(elements))
      BY <1>1, KeysType
    <2>5. Len(calls') = Len(blocks) /\ Len(blocks) \in Nat
      BY <2>1, SeqsType DEF AllTypes, Types, TypeOK
    <2>6. Number = Len(blocks) /\ ws.weight = 0
      BY <2>1, <2>5 DEF Number, Empty
    <2>7. Spent = Weigh(elements) /\ Weigh(elements) \in Int
      <3>1. Weigh(<< >>) = 0
        <4>1. << >> \in Seq(Item) /\ Len(<< >>) = 0
          OBVIOUS
        <4> QED BY <4>1, WeighTurns
      <3>2. Weigh(elements) \in Int
        BY <1>1, WeighIs
      <3> QED BY <2>1, <3>1, <3>2 DEF Spent
    <2> DEFINE m == max_weight  total == Weigh(elements)
    <2>8. m \in Nat /\ m > 0 /\ total \in Int /\ total <= hint * m
      <3>1. m \in Int
        BY DEF AllTypes, Types, TypeOK
      <3>2. total <= hint * ceil(total, hint)
        <4> HIDE DEF total
        <4> QED BY <1>1, <2>2, <2>7, CeilIs DEF total
      <3> QED BY <2>2, <2>7, <3>1, <3>2
    <2>9. Number <= 2 * p + Cardinality(seen) /\ p * (m + 1) <= total
      <3> DEFINE x == p * (m + 1)  c == 2 * p + Cardinality(seen)  n == Number
      <3>1. \/ n + 1 <= c /\ total >= x
            \/ n <= c /\ total - 0 >= x
        BY <2>3, <2>6, <2>7 DEF Close
      <3>2. x \in Int /\ c \in Int /\ n \in Int
        BY <2>4, <2>5, <2>6, <2>8
      <3> HIDE DEF x, c, n, total
      <3>3. n <= c /\ x <= total
        BY <2>8, <3>1, <3>2
      <3> QED BY <3>3 DEF x, c, n
    <2> HIDE DEF m, total
    <2>10. p <= hint - 1
      BY <1>1, <2>2, <2>8, <2>9, FewPairs
    <2> QED BY <1>1, <1>2, <2>2, <2>4, <2>5, <2>6, <2>9, <2>10
  <1>5. CASE UNCHANGED vars
    BY <1>5 DEF vars, CloseToHint
  <1>6. CASE Splits \/ Calls
    BY <1>6 DEF Splits, Calls, ApplyMaxWeight, ApplyBlocks, Execute, RunTask
  <1>7. CASE Others /\ ~DontSplit /\ ~Apply
    BY <1>1, <1>7 DEF Others, Submit, EndTask, EndEmptyTask, Executed, Stage,
         ComputeFirst, ComputeOnly, ComputeBlocks, Raise
  <1> QED BY <1>3, <1>4, <1>5, <1>6, <1>7, NextIs

\* CloseToHint: the number of blocks is less than twice the hint, and one more for
\* each key, for all sequences, weights, keys and hints.
THEOREM AlwaysCloseToHint == Spec => []CloseToHint
  <1> DEFINE Inv == PairsOfBlocks /\ CloseToHint
  <1>1. Init => Inv
    BY DEF Init, PairsOfBlocks, InBlocks, CloseToHint
  <1>2. WorkInv /\ Inv /\ [Next]_vars => Inv'
    BY PairsStep, CloseStep DEF WorkInv
  <1>3. Inv => CloseToHint
    OBVIOUS
  <1> QED BY <1>1, <1>2, <1>3, AlwaysWork, PTL DEF Spec
=============================================================================
