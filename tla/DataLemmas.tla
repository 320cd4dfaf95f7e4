----------------------------- MODULE DataLemmas -----------------------------
(***************************************************************************)
(* Lemmas about the data of the modules: the least and the greatest number *)
(* of a set, induction on numbers, functions defined by recursion on them,   *)
(* sequences put one after another, what is selected and counted in them,    *)
(* sums and products, orders, and the products of sequences.                 *)
(***************************************************************************)
EXTENDS Lists, FiniteSetTheorems, SequenceTheorems, TLAPS

\* The intervals 0 .. n are well-founded under inclusion, so that some n of S
\* has the least of them.
LEMMA NatMin ==
  ASSUME NEW S \in SUBSET Nat, S # {}
  PROVE  \E m \in S : \A n \in S : m <= n
  <1> DEFINE T == {0 .. n : n \in S}
  <1>1. T # {} /\ T \subseteq FiniteSubsetsOf(Nat)
    <2>1. \A n \in Nat : IsFiniteSet(0 .. n)
      BY FS_Interval
    <2>2. \A n \in Nat : 0 .. n \in SUBSET Nat
      OBVIOUS
    <2>3. \A n \in Nat : 0 .. n \in FiniteSubsetsOf(Nat)
      BY <2>1, <2>2 DEF FiniteSubsetsOf
    <2> QED BY <2>3
  <1>2. PICK x \in T : \A y \in T : ~ (<<y, x>> \in StrictSubsetOrdering(Nat))
    <2> HIDE DEF T
    <2> QED BY <1>1, WFMin, FS_StrictSubsetOrderingWellFounded
  <1>3. PICK m \in S : x = 0 .. m
    OBVIOUS
  <1>4. ASSUME NEW n \in S, ~ (m <= n) PROVE FALSE
    <2>1. 0 .. n \subseteq 0 .. m /\ 0 .. n # 0 .. m
      <3>1. m \in 0 .. m /\ m \notin 0 .. n
        BY <1>4
      <3> QED BY <3>1, <1>4
    <2>2. <<0 .. n, x>> \in StrictSubsetOrdering(Nat)
      BY <2>1, <1>3 DEF StrictSubsetOrdering
    <2> QED BY <1>2, <2>2
  <1> QED BY <1>4

\* A set of numbers that do not exceed b has a greatest one.
LEMMA NatMax ==
  ASSUME NEW S \in SUBSET Nat, S # {}, NEW b \in Nat, \A n \in S : n <= b
  PROVE  \E m \in S : \A n \in S : n <= m
  <1> DEFINE T == {b - n : n \in S}
  <1>1. T \in SUBSET Nat /\ T # {}
    <2>1. \A n \in S : b - n \in Nat
      OBVIOUS
    <2> QED BY <2>1
  <1>2. PICK d \in T : \A e \in T : d <= e
    <2> HIDE DEF T
    <2> QED BY <1>1, NatMin
  <1>3. PICK m \in S : d = b - m
    OBVIOUS
  <1>4. \A n \in S : b - m <= b - n
    BY <1>2, <1>3
  <1>5. \A n \in S : n \in Nat /\ m \in Nat
    OBVIOUS
  <1> QED BY <1>4, <1>5

\* Min returns the least number of a set.
LEMMA MinOf ==
  ASSUME NEW S \in SUBSET Nat, S # {}
  PROVE  Min(S) \in S /\ \A n \in S : Min(S) <= n
  BY NatMin DEF Min

\* Max returns the greatest number of a bounded set.
LEMMA MaxOf ==
  ASSUME NEW S \in SUBSET Nat, S # {}, NEW b \in Nat, \A n \in S : n <= b
  PROVE  Max(S) \in S /\ \A n \in S : Max(S) >= n
  <1>1. PICK m \in S : \A n \in S : n <= m
    BY NatMax
  <1>2. \A n \in S : m >= n
    BY <1>1
  <1> QED BY <1>2 DEF Max

-----------------------------------------------------------------------------
(* Induction on numbers, over a set in the place of a predicate *)

\* A set that has m, and n + 1 if it has n, has every number from m.
LEMMA Upwards ==
  ASSUME NEW G, NEW m \in Nat, NEW b \in Nat,
         m \in G, \A n \in m .. b - 1 : n \in G => n + 1 \in G
  PROVE  m .. b \subseteq G
  <1> DEFINE Bad == (m .. b) \ G
  <1> SUFFICES ASSUME Bad # {} PROVE FALSE
    OBVIOUS
  <1>1. PICK n \in Bad : \A k \in Bad : n <= k
    <2>1. Bad \in SUBSET Nat
      OBVIOUS
    <2> HIDE DEF Bad
    <2> QED BY <2>1, NatMin
  <1>2. n \in m .. b /\ n \notin G /\ n # m
    BY <1>1
  <1>3. n - 1 \in m .. b - 1 /\ n - 1 \in m .. b /\ (n - 1) + 1 = n /\ ~(n <= n - 1)
    BY <1>2
  <1>4. n - 1 \in G
    BY <1>1, <1>3
  <1> QED BY <1>2, <1>3, <1>4

\* A set that has each number of 1 .. b if it has those after it has them all.
LEMMA FromTheLast ==
  ASSUME NEW G, NEW b \in Nat, \A n \in 1 .. b : n + 1 .. b \subseteq G => n \in G
  PROVE  1 .. b \subseteq G
  <1> DEFINE Bad == (1 .. b) \ G
  <1> SUFFICES ASSUME Bad # {} PROVE FALSE
    OBVIOUS
  <1>1. PICK n \in Bad : \A k \in Bad : k <= n
    <2>1. Bad \in SUBSET Nat /\ \A k \in Bad : k <= b
      OBVIOUS
    <2> HIDE DEF Bad
    <2> QED BY <2>1, NatMax
  <1>2. n \in 1 .. b /\ n \notin G
    BY <1>1
  <1>3. \A k \in n + 1 .. b : k \in 1 .. b /\ ~(k <= n)
    BY <1>2
  <1>4. n + 1 .. b \subseteq G
    BY <1>1, <1>3
  <1> QED BY <1>2, <1>4

\* The same for those before it
LEMMA FromTheFirst ==
  ASSUME NEW G, NEW b \in Nat, \A n \in 1 .. b : 1 .. n - 1 \subseteq G => n \in G
  PROVE  1 .. b \subseteq G
  <1> DEFINE Bad == (1 .. b) \ G
  <1> SUFFICES ASSUME Bad # {} PROVE FALSE
    OBVIOUS
  <1>1. PICK n \in Bad : \A k \in Bad : n <= k
    <2>1. Bad \in SUBSET Nat
      OBVIOUS
    <2> HIDE DEF Bad
    <2> QED BY <2>1, NatMin
  <1>2. n \in 1 .. b /\ n \notin G
    BY <1>1
  <1>3. \A k \in 1 .. n - 1 : k \in 1 .. b /\ ~(n <= k)
    BY <1>2
  <1>4. 1 .. n - 1 \subseteq G
    BY <1>1, <1>3
  <1> QED BY <1>2, <1>4

-----------------------------------------------------------------------------
(* Sequences of sequences, put one after another *)

\* Two sequences, one after the other
LEMMA TwoSeqs ==
  ASSUME NEW S, NEW s \in Seq(S), NEW u \in Seq(S)
  PROVE  /\ Len(s \o u) = Len(s) + Len(u) /\ Len(s) \in Nat /\ Len(u) \in Nat
         /\ \A i \in 1..Len(s) : (s \o u)[i] = s[i] /\ i \in 1..Len(s \o u)
         /\ \A i \in 1..Len(u) : (s \o u)[Len(s) + i] = u[i] /\ Len(s) + i \in 1..Len(s \o u)
  OBVIOUS

\* One turn of FlattenSeq
Flattened(ss, f, i) == IF i = 1 THEN ss[i] ELSE f[i - 1] \o ss[i]

\* The function that FlattenSeq takes its value from exists: it is built one
\* sequence at a time, and a first one that fails there would not be the first.
LEMMA FlattenFunction ==
  ASSUME NEW S, NEW ss \in Seq(Seq(S)), Len(ss) > 0
  PROVE  \E f : f = [i \in 1..Len(ss) |-> Flattened(ss, f, i)]
  <1> DEFINE Good(m) == \E f : f = [i \in 1..m |-> Flattened(ss, f, i)]
             G == {m \in Nat : Good(m)}
  <1>1. Good(0)
    <2>1. [i \in 1..0 |-> ss] = [i \in 1..0 |-> Flattened(ss, [j \in 1..0 |-> ss], i)]
      OBVIOUS
    <2> QED BY <2>1
  <1>2. ASSUME NEW m \in Nat, Good(m) PROVE Good(m + 1)
    <2>1. PICK f : f = [i \in 1..m |-> Flattened(ss, f, i)]
      BY <1>2
    <2> DEFINE g == [i \in 1..(m + 1) |-> IF i = m + 1 THEN Flattened(ss, f, i) ELSE f[i]]
    <2>2. \A i \in 1..m : g[i] = f[i] /\ f[i] = Flattened(ss, f, i)
      <3>1. \A i \in 1..m : f[i] = Flattened(ss, f, i)
        <4> HIDE DEF g
        <4> QED BY <2>1
      <3>2. \A i \in 1..m : i \in 1..(m + 1) /\ i # m + 1
        OBVIOUS
      <3> QED BY <3>1, <3>2
    <2>3. \A i \in 1..(m + 1) : Flattened(ss, g, i) = Flattened(ss, f, i)
      <3> TAKE i \in 1..(m + 1)
      <3>1. i # 1 => g[i - 1] = f[i - 1]
        BY <2>2
      <3> HIDE DEF g
      <3> QED BY <3>1 DEF Flattened
    <2>4. \A i \in 1..(m + 1) : g[i] = Flattened(ss, g, i)
      <3> TAKE i \in 1..(m + 1)
      <3>1. CASE i = m + 1
        BY <2>3, <3>1
      <3>2. CASE i # m + 1
        <4>1. i \in 1..m
          BY <3>2
        <4> QED BY <2>2, <2>3, <4>1
      <3> QED BY <3>1, <3>2
    <2>5. g = [i \in 1..(m + 1) |-> g[i]]
      OBVIOUS
    <2> HIDE DEF g
    <2>6. g = [i \in 1..(m + 1) |-> Flattened(ss, g, i)]
      BY <2>4, <2>5
    <2> QED BY <2>6
  <1>3. Len(ss) \in Nat
    OBVIOUS
  <1> HIDE DEF Good
  <1>4. 0..Len(ss) \subseteq G
    <2>1. 0 \in G /\ \A m \in 0..Len(ss) - 1 : m \in G => m + 1 \in G
      BY <1>1, <1>2, <1>3
    <2> HIDE DEF G
    <2> QED BY <1>3, <2>1, Upwards
  <1>5. Good(Len(ss))
    BY <1>3, <1>4
  <1> QED BY <1>5 DEF Good

\* FlattenSeq is the last turn of such a function.
LEMMA FlattenTurns ==
  ASSUME NEW S, NEW ss \in Seq(Seq(S)), Len(ss) > 0
  PROVE  \E F : /\ FlattenSeq(ss) = F[Len(ss)] /\ F[1] = ss[1]
                /\ \A m \in 1..Len(ss) : m + 1 \in 1..Len(ss) => F[m + 1] = F[m] \o ss[m + 1]
  <1> DEFINE F == CHOOSE f : f = [i \in 1..Len(ss) |-> Flattened(ss, f, i)]
  <1>1. F = [i \in 1..Len(ss) |-> Flattened(ss, F, i)]
    BY FlattenFunction
  <1>2. FlattenSeq(ss) = F[Len(ss)]
    BY DEF FlattenSeq, Flattened
  <1> HIDE DEF F
  <1>3. \A i \in 1..Len(ss) : F[i] = IF i = 1 THEN ss[i] ELSE F[i - 1] \o ss[i]
    BY <1>1 DEF Flattened
  <1>4. 1 \in 1..Len(ss)
    OBVIOUS
  <1>5. \A m \in 1..Len(ss) : m + 1 # 1 /\ (m + 1) - 1 = m
    OBVIOUS
  <1> QED BY <1>2, <1>3, <1>4, <1>5

\* The elements of two sequences one after the other
LEMMA ConcatElements ==
  ASSUME NEW S, NEW s \in Seq(S), NEW u \in Seq(S)
  PROVE  /\ s \o u \in Seq(S)
         /\ \A x : x \in ToSet(s \o u) <=> x \in ToSet(s) \/ x \in ToSet(u)
         /\ IsInjective(s) /\ IsInjective(u) /\ ToSet(s) \cap ToSet(u) = {}
              => IsInjective(s \o u)
  <1>0. /\ Len(s \o u) = Len(s) + Len(u) /\ Len(s) \in Nat /\ Len(u) \in Nat
        /\ \A i \in 1..Len(s) : (s \o u)[i] = s[i] /\ i \in 1..Len(s \o u)
        /\ \A i \in 1..Len(u) : (s \o u)[Len(s) + i] = u[i] /\ Len(s) + i \in 1..Len(s \o u)
    BY TwoSeqs
  <1>1. DOMAIN (s \o u) = 1..Len(s \o u) /\ DOMAIN s = 1..Len(s) /\ DOMAIN u = 1..Len(u)
    OBVIOUS
  <1> DEFINE t == s \o u
  <1>2. t \in Seq(S)
    OBVIOUS
  <1> HIDE DEF t
  <1>3. ASSUME NEW i \in 1..Len(t)
        PROVE  \/ i \in 1..Len(s) /\ t[i] = s[i]
               \/ i - Len(s) \in 1..Len(u) /\ t[i] = u[i - Len(s)]
    <2>1. CASE i \in 1..Len(s)
      BY <1>0, <2>1 DEF t
    <2>2. CASE i \notin 1..Len(s)
      <3>1. i - Len(s) \in 1..Len(u) /\ Len(s) + (i - Len(s)) = i
        BY <1>0, <2>2 DEF t
      <3> QED BY <1>0, <3>1 DEF t
    <2> QED BY <2>1, <2>2
  <1>4. \A x : x \in ToSet(t) => x \in ToSet(s) \/ x \in ToSet(u)
    BY <1>1, <1>3 DEF ToSet, t
  <1>5. \A x : x \in ToSet(s) \/ x \in ToSet(u) => x \in ToSet(t)
    BY <1>0, <1>1 DEF ToSet, t
  <1>6. ASSUME IsInjective(s), IsInjective(u), ToSet(s) \cap ToSet(u) = {},
               NEW i \in 1..Len(t), NEW j \in 1..Len(t), t[i] = t[j]
        PROVE  i = j
    <2>1. \A k \in 1..Len(s) : \A n \in 1..Len(u) : s[k] # u[n]
      BY <1>1, <1>6 DEF ToSet
    <2>2. CASE i \in 1..Len(s) /\ t[i] = s[i]
      <3>1. j \in 1..Len(s) /\ t[j] = s[j]
        BY <1>3, <1>6, <2>1, <2>2
      <3> QED BY <1>1, <1>6, <2>2, <3>1 DEF IsInjective
    <2>3. CASE i - Len(s) \in 1..Len(u) /\ t[i] = u[i - Len(s)]
      <3>1. j - Len(s) \in 1..Len(u) /\ t[j] = u[j - Len(s)]
        BY <1>3, <1>6, <2>1, <2>3
      <3>2. i - Len(s) = j - Len(s)
        BY <1>1, <1>6, <2>3, <3>1 DEF IsInjective
      <3> QED BY <1>0, <3>2
    <2> QED BY <1>3, <2>2, <2>3
  <1>7. DOMAIN t = 1..Len(t)
    BY <1>1 DEF t
  <1> QED BY <1>2, <1>4, <1>5, <1>6, <1>7 DEF IsInjective, t

\* FlattenSeq returns the elements of all the sequences, and nothing else.
LEMMA FlattenElements ==
  ASSUME NEW S, NEW ss \in Seq(Seq(S))
  PROVE  /\ FlattenSeq(ss) \in Seq(S)
         /\ \A x : x \in ToSet(FlattenSeq(ss)) <=> \E i \in 1..Len(ss) : x \in ToSet(ss[i])
  <1>1. CASE Len(ss) = 0
    <2>1. FlattenSeq(ss) = ss /\ ss = << >>
      BY <1>1 DEF FlattenSeq
    <2> QED BY <1>1, <2>1 DEF ToSet
  <1>2. CASE Len(ss) > 0
    <2>1. PICK F : /\ FlattenSeq(ss) = F[Len(ss)] /\ F[1] = ss[1]
                   /\ \A m \in 1..Len(ss) : m + 1 \in 1..Len(ss) => F[m + 1] = F[m] \o ss[m + 1]
      BY <1>2, FlattenTurns
    <2> DEFINE Good(m) == /\ F[m] \in Seq(S)
                          /\ \A x : x \in ToSet(F[m]) <=> \E i \in 1..m : x \in ToSet(ss[i])
               G == {m \in 1..Len(ss) : Good(m)}
    <2>2. ASSUME 1 \in 1..Len(ss) PROVE Good(1)
      BY <2>1, <2>2
    <2>3. ASSUME NEW m \in 1..Len(ss), m + 1 \in 1..Len(ss), Good(m) PROVE Good(m + 1)
      <3>0. F[m + 1] = F[m] \o ss[m + 1]
        <4> HIDE DEF Good
        <4> QED BY <2>1, <2>3
      <3>1. F[m] \in Seq(S) /\ ss[m + 1] \in Seq(S)
        BY <2>3
      <3> DEFINE s == F[m]  u == ss[m + 1]
      <3>2. /\ s \o u \in Seq(S)
            /\ \A x : x \in ToSet(s \o u) <=> x \in ToSet(s) \/ x \in ToSet(u)
        <4>1. s \in Seq(S) /\ u \in Seq(S)
          BY <3>1
        <4> HIDE DEF s, u
        <4> QED BY <4>1, ConcatElements
      <3>3. \A i : i \in 1..(m + 1) <=> i \in 1..m \/ i = m + 1
        OBVIOUS
      <3>4. \A x : x \in ToSet(F[m + 1]) <=> \E i \in 1..(m + 1) : x \in ToSet(ss[i])
        BY <2>3, <3>0, <3>2, <3>3
      <3> QED BY <3>0, <3>2, <3>4
    <2>4. 1..Len(ss) \subseteq G
      <3>1. 1 \in G /\ \A m \in 1..Len(ss) - 1 : m \in G => m + 1 \in G
        <4>1. 1 \in 1..Len(ss) /\ \A m \in 1..Len(ss) - 1 : m \in 1..Len(ss) /\ m + 1 \in 1..Len(ss)
          BY <1>2
        <4> HIDE DEF Good
        <4> QED BY <2>2, <2>3, <4>1
      <3>2. Len(ss) \in Nat
        OBVIOUS
      <3> HIDE DEF G
      <3> QED BY <3>1, <3>2, Upwards
    <2>5. Len(ss) \in 1..Len(ss)
      BY <1>2
    <2>6. Good(Len(ss))
      <3> HIDE DEF Good
      <3> QED BY <2>4, <2>5
    <2> QED BY <2>1, <2>6
  <1>3. Len(ss) \in Nat
    OBVIOUS
  <1> QED BY <1>1, <1>2, <1>3

\* It repeats nothing if no sequence does and they have no common elements.
LEMMA FlattenInjective ==
  ASSUME NEW S, NEW ss \in Seq(Seq(S)),
         \A i \in 1..Len(ss) : IsInjective(ss[i]),
         \A i, j \in 1..Len(ss) : i # j => ToSet(ss[i]) \cap ToSet(ss[j]) = {}
  PROVE  IsInjective(FlattenSeq(ss))
  <1>1. CASE Len(ss) = 0
    <2>1. FlattenSeq(ss) = ss /\ ss = << >>
      BY <1>1 DEF FlattenSeq
    <2> QED BY <1>1, <2>1 DEF IsInjective
  <1>2. CASE Len(ss) > 0
    <2>1. PICK F : /\ FlattenSeq(ss) = F[Len(ss)] /\ F[1] = ss[1]
                   /\ \A m \in 1..Len(ss) : m + 1 \in 1..Len(ss) => F[m + 1] = F[m] \o ss[m + 1]
      BY <1>2, FlattenTurns
    <2> DEFINE Good(m) == /\ F[m] \in Seq(S) /\ IsInjective(F[m])
                          /\ \A x \in ToSet(F[m]) : \E i \in 1..m : x \in ToSet(ss[i])
               G == {m \in 1..Len(ss) : Good(m)}
    <2>2. ASSUME 1 \in 1..Len(ss) PROVE Good(1)
      BY <2>1, <2>2
    <2>3. ASSUME NEW m \in 1..Len(ss), m + 1 \in 1..Len(ss), Good(m) PROVE Good(m + 1)
      <3>0. F[m + 1] = F[m] \o ss[m + 1]
        <4> HIDE DEF Good
        <4> QED BY <2>1, <2>3
      <3>1. F[m] \in Seq(S) /\ ss[m + 1] \in Seq(S)
        BY <2>3
      <3> DEFINE s == F[m]  u == ss[m + 1]
      <3>2. IsInjective(s) /\ IsInjective(u)
        BY <2>3
      <3>3. ToSet(s) \cap ToSet(u) = {}
        <4> SUFFICES ASSUME NEW x \in ToSet(s), x \in ToSet(u) PROVE FALSE
          OBVIOUS
        <4>1. PICK i \in 1..m : x \in ToSet(ss[i])
          BY <2>3
        <4>2. i \in 1..Len(ss) /\ i # m + 1
          OBVIOUS
        <4> QED BY <2>3, <4>1, <4>2
      <3>4. /\ s \o u \in Seq(S) /\ IsInjective(s \o u)
            /\ \A x : x \in ToSet(s \o u) <=> x \in ToSet(s) \/ x \in ToSet(u)
        <4>1. s \in Seq(S) /\ u \in Seq(S)
          BY <3>1
        <4> HIDE DEF s, u
        <4> QED BY <3>2, <3>3, <4>1, ConcatElements
      <3>5. m + 1 \in 1..(m + 1) /\ \A i \in 1..m : i \in 1..(m + 1)
        OBVIOUS
      <3>6. \A x \in ToSet(F[m + 1]) : \E i \in 1..(m + 1) : x \in ToSet(ss[i])
        BY <2>3, <3>0, <3>4, <3>5
      <3> QED BY <3>0, <3>4, <3>6
    <2>4. 1..Len(ss) \subseteq G
      <3>1. 1 \in G /\ \A m \in 1..Len(ss) - 1 : m \in G => m + 1 \in G
        <4>1. 1 \in 1..Len(ss) /\ \A m \in 1..Len(ss) - 1 : m \in 1..Len(ss) /\ m + 1 \in 1..Len(ss)
          BY <1>2
        <4> HIDE DEF Good
        <4> QED BY <2>2, <2>3, <4>1
      <3>2. Len(ss) \in Nat
        OBVIOUS
      <3> HIDE DEF G
      <3> QED BY <3>1, <3>2, Upwards
    <2>5. Len(ss) \in 1..Len(ss)
      BY <1>2
    <2>6. Good(Len(ss))
      <3> HIDE DEF Good
      <3> QED BY <2>4, <2>5
    <2> QED BY <2>1, <2>6
  <1>3. Len(ss) \in Nat
    OBVIOUS
  <1> QED BY <1>1, <1>2, <1>3

\* FlattenSeq of one sequence more
LEMMA FlattenOneMore ==
  ASSUME NEW S, NEW ss \in Seq(Seq(S)), NEW s \in Seq(S)
  PROVE  FlattenSeq(Append(ss, s)) = FlattenSeq(ss) \o s
  <1> DEFINE tt == Append(ss, s)
  <1>1. /\ tt \in Seq(Seq(S)) /\ Len(tt) = Len(ss) + 1 /\ Len(ss) \in Nat
        /\ tt[Len(ss) + 1] = s /\ \A m \in 1..Len(ss) : tt[m] = ss[m]
    OBVIOUS
  <1> HIDE DEF tt
  <1>2. PICK F : /\ FlattenSeq(tt) = F[Len(tt)] /\ F[1] = tt[1]
                 /\ \A m \in 1..Len(tt) : m + 1 \in 1..Len(tt) => F[m + 1] = F[m] \o tt[m + 1]
    <2>1. Len(tt) > 0
      BY <1>1
    <2> QED BY <1>1, <2>1, FlattenTurns
  <1>3. CASE Len(ss) = 0
    <2>1. FlattenSeq(ss) = ss /\ ss = << >>
      BY <1>3 DEF FlattenSeq
    <2>2. FlattenSeq(tt) = s
      BY <1>1, <1>2, <1>3
    <2> QED BY <2>1, <2>2 DEF tt
  <1>4. CASE Len(ss) > 0
    <2>1. PICK E : /\ FlattenSeq(ss) = E[Len(ss)] /\ E[1] = ss[1]
                   /\ \A m \in 1..Len(ss) : m + 1 \in 1..Len(ss) => E[m + 1] = E[m] \o ss[m + 1]
      BY <1>4, FlattenTurns
    <2> DEFINE G == {m \in 1..Len(ss) : F[m] = E[m]}
    <2>2. 1 \in G
      BY <1>1, <1>2, <1>4, <2>1
    <2>3. ASSUME NEW m \in 1..Len(ss) - 1, m \in G PROVE m + 1 \in G
      <3>1. m \in 1..Len(ss) /\ m + 1 \in 1..Len(ss) /\ m \in 1..Len(tt) /\ m + 1 \in 1..Len(tt)
        BY <1>1, <2>3
      <3>2. F[m + 1] = F[m] \o tt[m + 1]
        BY <1>2, <3>1
      <3>3. E[m + 1] = E[m] \o ss[m + 1]
        BY <2>1, <3>1
      <3> QED BY <1>1, <2>3, <3>1, <3>2, <3>3
    <2> HIDE DEF G
    <2>4. 1..Len(ss) \subseteq G
      BY <1>1, <1>4, <2>2, <2>3, Upwards
    <2>5. F[Len(ss)] = E[Len(ss)]
      <3>1. Len(ss) \in 1..Len(ss)
        BY <1>1, <1>4
      <3> QED BY <2>4, <3>1 DEF G
    <2>6. Len(ss) \in 1..Len(tt) /\ Len(ss) + 1 \in 1..Len(tt)
      BY <1>1, <1>4
    <2>7. F[Len(tt)] = F[Len(ss)] \o s
      BY <1>1, <1>2, <2>6
    <2> QED BY <1>2, <2>1, <2>5, <2>7 DEF tt
  <1> QED BY <1>1, <1>3, <1>4

\* FlattenSeq of two sequences of sequences
LEMMA FlattenConcat ==
  ASSUME NEW S, NEW ss \in Seq(Seq(S)), NEW tt \in Seq(Seq(S))
  PROVE  FlattenSeq(ss \o tt) = FlattenSeq(ss) \o FlattenSeq(tt)
  <1> DEFINE L == Len(tt)
             part(m) == SubSeq(tt, 1, m)
             G == {m \in 0..L : FlattenSeq(ss \o part(m)) = FlattenSeq(ss) \o FlattenSeq(part(m))}
  <1>0. L \in Nat
    OBVIOUS
  <1>1. 0 \in G
    <2>1. part(0) = << >> /\ ss \o << >> = ss
      OBVIOUS
    <2>2. FlattenSeq(<< >>) = << >>
      BY DEF FlattenSeq
    <2>3. FlattenSeq(ss) \in Seq(S)
      BY FlattenElements
    <2>4. FlattenSeq(ss) \o << >> = FlattenSeq(ss)
      BY <2>3
    <2>5. FlattenSeq(ss \o part(0)) = FlattenSeq(ss) \o FlattenSeq(part(0))
      <3> HIDE DEF part
      <3> QED BY <2>1, <2>2, <2>4
    <2> HIDE DEF part
    <2> QED BY <1>0, <2>5
  <1>2. ASSUME NEW m \in 0..L - 1, m \in G PROVE m + 1 \in G
    <2>1. /\ part(m) \in Seq(Seq(S)) /\ tt[m + 1] \in Seq(S)
          /\ part(m + 1) = Append(part(m), tt[m + 1])
      <3>1. m \in 0..Len(tt) /\ m + 1 \in 1..Len(tt)
        BY <1>0
      <3>2. tt[m + 1] \in Seq(S)
        BY <3>1
      <3> QED BY <3>1, <3>2
    <2> DEFINE p == part(m)  x == tt[m + 1]
    <2>2. p \in Seq(Seq(S)) /\ x \in Seq(S) /\ part(m + 1) = Append(p, x)
      BY <2>1
    <2>3. FlattenSeq(ss \o p) = FlattenSeq(ss) \o FlattenSeq(p)
      BY <1>2
    <2> HIDE DEF p, x
    <2>4. ss \o Append(p, x) = Append(ss \o p, x) /\ ss \o p \in Seq(Seq(S))
      <3> DEFINE T == Seq(S)
      <3>1. ss \in Seq(T) /\ p \in Seq(T) /\ x \in T
        BY <2>2
      <3> HIDE DEF T
      <3>2. ss \o p \in Seq(T)
        BY <3>1
      <3>3. ss \o Append(p, x) = Append(ss \o p, x)
        BY <3>1
      <3> QED BY <3>2, <3>3 DEF T
    <2>5. FlattenSeq(ss \o Append(p, x)) = FlattenSeq(ss \o p) \o x
      BY <2>2, <2>4, FlattenOneMore
    <2>6. FlattenSeq(Append(p, x)) = FlattenSeq(p) \o x
      BY <2>2, FlattenOneMore
    <2>7. FlattenSeq(ss) \in Seq(S) /\ FlattenSeq(p) \in Seq(S)
      BY <2>2, FlattenElements
    <2>8. (FlattenSeq(ss) \o FlattenSeq(p)) \o x = FlattenSeq(ss) \o (FlattenSeq(p) \o x)
      <3>1. \A a, b, c \in Seq(S) : (a \o b) \o c = a \o (b \o c)
        OBVIOUS
      <3> QED BY <2>2, <2>7, <3>1
    <2>9. FlattenSeq(ss \o part(m + 1)) = FlattenSeq(ss) \o FlattenSeq(part(m + 1))
      BY <2>2, <2>3, <2>5, <2>6, <2>8
    <2>10. m + 1 \in 0..L
      BY <1>0
    <2> QED BY <2>9, <2>10
  <1>3. 0..L \subseteq G
    <2> HIDE DEF G
    <2> QED BY <1>0, <1>1, <1>2, Upwards
  <1>4. L \in G
    BY <1>0, <1>3
  <1>5. part(L) = tt
    OBVIOUS
  <1> QED BY <1>4, <1>5

-----------------------------------------------------------------------------
(* Counting *)

\* A count is a number.
LEMMA CountType ==
  ASSUME NEW T, NEW s \in Seq(T), NEW S
  PROVE  IsFiniteSet({n \in DOMAIN s : s[n] \in S}) /\ Count(s, S) \in Nat
  <1>1. {n \in DOMAIN s : s[n] \in S} \in SUBSET (1..Len(s)) /\ Len(s) \in Nat
    OBVIOUS
  <1>2. IsFiniteSet(1..Len(s))
    BY <1>1, FS_Interval
  <1>3. IsFiniteSet({n \in DOMAIN s : s[n] \in S})
    BY <1>1, <1>2, FS_Subset
  <1> QED BY <1>3, FS_CardinalityType DEF Count

\* The places of two sequences are those of the one and, moved, of the other.
LEMMA CountConcat ==
  ASSUME NEW T, NEW s \in Seq(T), NEW u \in Seq(T), NEW S
  PROVE  Count(s \o u, S) = Count(s, S) + Count(u, S)
  <1> DEFINE A == {n \in DOMAIN s : s[n] \in S}
             B == {n \in DOMAIN u : u[n] \in S}
             C == {n \in DOMAIN (s \o u) : (s \o u)[n] \in S}
             D == C \ A
             shift == [n \in B |-> Len(s) + n]
  <1>1. /\ Len(s) \in Nat /\ Len(u) \in Nat /\ DOMAIN s = 1..Len(s) /\ DOMAIN u = 1..Len(u)
        /\ DOMAIN (s \o u) = 1..Len(s) + Len(u)
        /\ \A i \in 1..Len(s) : (s \o u)[i] = s[i]
        /\ \A i \in 1..Len(u) : (s \o u)[Len(s) + i] = u[i]
    OBVIOUS
  <1>2. A \subseteq C
    BY <1>1
  <1>3. IsFiniteSet(A) /\ IsFiniteSet(B) /\ IsFiniteSet(C)
    <2>1. s \o u \in Seq(T)
      OBVIOUS
    <2>2. IsFiniteSet(A)
      BY CountType
    <2>3. IsFiniteSet(B)
      BY CountType
    <2>4. IsFiniteSet(C)
      BY <2>1, CountType
    <2> QED BY <2>2, <2>3, <2>4
  <1>4. ASSUME NEW n \in D PROVE n - Len(s) \in B /\ n = Len(s) + (n - Len(s))
    <2>1. n \in 1..Len(s) + Len(u) /\ n \notin 1..Len(s)
      BY <1>1
    <2>2. n - Len(s) \in 1..Len(u) /\ n = Len(s) + (n - Len(s))
      BY <1>1, <2>1
    <2> QED BY <1>1, <2>2
  <1>5. ASSUME NEW n \in B PROVE Len(s) + n \in D /\ n \in Nat
    <2>1. n \in 1..Len(u) /\ Len(s) + n \notin 1..Len(s) /\ Len(s) + n \in 1..Len(s) + Len(u)
      BY <1>1
    <2> QED BY <1>1, <2>1
  <1>6. shift \in Bijection(B, D)
    <2> HIDE DEF B, D
    <2>1. shift \in [B -> D]
      BY <1>5
    <2>2. \A a, b \in B : shift[a] = shift[b] => a = b
      BY <1>1, <1>5
    <2>3. \A n \in D : \E b \in B : shift[b] = n
      BY <1>4
    <2> QED BY <2>1, <2>2, <2>3 DEF Bijection, Injection, Surjection, IsInjective
  <1>7. Cardinality(D) = Cardinality(B)
    <2> HIDE DEF B, D, shift
    <2> QED BY <1>3, <1>6, FS_Bijection DEF ExistsBijection
  <1>8. C = A \cup D /\ A \cap D = {} /\ IsFiniteSet(D)
    <2>1. C = A \cup D /\ A \cap D = {} /\ D \in SUBSET C
      <3> HIDE DEF A, C
      <3> QED BY <1>2
    <2> HIDE DEF C, D
    <2> QED BY <1>3, <2>1, FS_Subset
  <1>9. Cardinality(A \cup D) = Cardinality(A) + Cardinality(D) - Cardinality(A \cap D)
    <2> HIDE DEF A, D
    <2> QED BY <1>3, <1>8, FS_Union
  <1>10. Cardinality({}) = 0
    BY FS_EmptySet
  <1>11. Cardinality(A) \in Nat /\ Cardinality(B) \in Nat
    <2> HIDE DEF A, B
    <2> QED BY <1>3, FS_CardinalityType
  <1>12. Count(s \o u, S) = Cardinality(C) /\ Count(s, S) = Cardinality(A)
         /\ Count(u, S) = Cardinality(B)
    BY DEF Count
  <1> HIDE DEF A, B, C, D
  <1>13. Cardinality(C) = Cardinality(A) + Cardinality(B)
    <2>1. Cardinality(A \cap D) = 0
      BY <1>8, <1>10
    <2>2. Cardinality(C) = Cardinality(A \cup D)
      BY <1>8
    <2> QED BY <1>7, <1>9, <1>11, <2>1, <2>2
  <1> QED BY <1>12, <1>13

\* The count of one item, and of none
LEMMA CountOne ==
  ASSUME NEW x, NEW S
  PROVE  Count(<<x>>, S) = (IF x \in S THEN 1 ELSE 0) /\ Count(<< >>, S) = 0
  <1>1. {n \in DOMAIN <<x>> : <<x>>[n] \in S} = IF x \in S THEN {1} ELSE {}
    OBVIOUS
  <1>2. {n \in DOMAIN << >> : << >>[n] \in S} = {}
    OBVIOUS
  <1> QED BY <1>1, <1>2, FS_EmptySet, FS_Singleton DEF Count

\* A permutation has each element as often.
LEMMA CountPermuted ==
  ASSUME NEW T, NEW s \in Seq(T), NEW f \in Bijection(1..Len(s), 1..Len(s)), NEW S
  PROVE  /\ [r \in 1..Len(s) |-> s[f[r]]] \in Seq(T)
         /\ Count([r \in 1..Len(s) |-> s[f[r]]], S) = Count(s, S)
  <1> DEFINE P == 1..Len(s)  t == [r \in P |-> s[f[r]]]
             A == {n \in DOMAIN t : t[n] \in S}  B == {n \in DOMAIN s : s[n] \in S}
             g == [n \in A |-> f[n]]
  <1>1. /\ f \in [P -> P] /\ \A q, r \in P : f[q] = f[r] => q = r
        /\ \A n \in P : \E r \in P : f[r] = n
    BY DEF Bijection, Injection, Surjection, IsInjective
  <1>2. Len(s) \in Nat /\ DOMAIN s = P /\ \A n \in P : s[n] \in T
    OBVIOUS
  <1>3. t \in Seq(T)
    <2>1. t \in [P -> T]
      BY <1>1, <1>2
    <2> QED BY <1>2, <2>1, SeqDef
  <1>4. A = {n \in P : s[f[n]] \in S} /\ B = {n \in P : s[n] \in S}
    BY <1>2
  <1> HIDE DEF A, B, P
  <1>5. g \in Bijection(A, B)
    <2>1. g \in [A -> B] /\ \A a \in A : a \in P /\ g[a] = f[a]
      BY <1>1, <1>4
    <2>2. \A a, b \in A : g[a] = g[b] => a = b
      BY <1>1, <2>1
    <2>3. \A n \in B : \E a \in A : g[a] = n
      <3> TAKE n \in B
      <3>1. PICK r \in P : f[r] = n
        BY <1>1, <1>4
      <3>2. r \in A
        BY <1>4, <3>1
      <3> QED BY <2>1, <3>1, <3>2
    <2> QED BY <2>1, <2>2, <2>3 DEF Bijection, Injection, Surjection, IsInjective
  <1>6. IsFiniteSet(A)
    BY <1>3, CountType DEF A
  <1>7. Cardinality(A) = Cardinality(B)
    BY <1>5, <1>6, FS_Bijection DEF ExistsBijection
  <1> QED BY <1>3, <1>7 DEF Count, A, B, P

-----------------------------------------------------------------------------
(* Select *)

\* What Select puts together: each member of S by itself, nothing for the others
Picked(s, S) == [n \in DOMAIN s |-> IF s[n] \in S THEN <<s[n]>> ELSE << >>]

\* Select returns a sequence of the same elements.
LEMMA PickedType ==
  ASSUME NEW T, NEW s \in Seq(T), NEW S
  PROVE  /\ Picked(s, S) \in Seq(Seq(T)) /\ Len(Picked(s, S)) = Len(s)
         /\ Select(s, S) = FlattenSeq(Picked(s, S)) /\ Select(s, S) \in Seq(T)
  <1>1. Len(s) \in Nat /\ DOMAIN s = 1..Len(s) /\ \A n \in 1..Len(s) : s[n] \in T
    OBVIOUS
  <1>2. \A n \in 1..Len(s) : (IF s[n] \in S THEN <<s[n]>> ELSE << >>) \in Seq(T)
    BY <1>1
  <1>3. Picked(s, S) \in [1..Len(s) -> Seq(T)]
    BY <1>1, <1>2 DEF Picked
  <1>4. Picked(s, S) \in Seq(Seq(T)) /\ Len(Picked(s, S)) = Len(s)
    BY <1>1, <1>3, IsASeq, LenProperties, SeqDef
  <1> QED BY <1>4, FlattenElements DEF Select, Picked

\* Select of two sequences is what it takes of the one and of the other.
LEMMA SelectConcat ==
  ASSUME NEW T, NEW s \in Seq(T), NEW u \in Seq(T), NEW S
  PROVE  Select(s \o u, S) = Select(s, S) \o Select(u, S)
  <1> DEFINE p == Picked(s, S)  q == Picked(u, S)  r == Picked(s \o u, S)
  <1>0. s \o u \in Seq(T)
    OBVIOUS
  <1>1. /\ p \in Seq(Seq(T)) /\ q \in Seq(Seq(T)) /\ r \in Seq(Seq(T))
        /\ Len(p) = Len(s) /\ Len(q) = Len(u) /\ Len(r) = Len(s \o u)
    <2>1. p \in Seq(Seq(T)) /\ Len(p) = Len(s)
      BY PickedType
    <2>2. q \in Seq(Seq(T)) /\ Len(q) = Len(u)
      BY PickedType
    <2>3. r \in Seq(Seq(T)) /\ Len(r) = Len(s \o u)
      BY <1>0, PickedType
    <2> QED BY <2>1, <2>2, <2>3
  <1>2. /\ Len(s \o u) = Len(s) + Len(u) /\ Len(s) \in Nat /\ Len(u) \in Nat
        /\ \A i \in 1..Len(s) : (s \o u)[i] = s[i] /\ i \in 1..Len(s \o u)
        /\ \A i \in 1..Len(u) : (s \o u)[Len(s) + i] = u[i] /\ Len(s) + i \in 1..Len(s \o u)
        /\ DOMAIN s = 1..Len(s) /\ DOMAIN u = 1..Len(u) /\ DOMAIN (s \o u) = 1..Len(s \o u)
    OBVIOUS
  <1>3. \A i \in 1..Len(s) : r[i] = p[i]
    BY <1>2 DEF Picked
  <1>4. \A i \in 1..Len(u) : r[Len(s) + i] = q[i]
    BY <1>2 DEF Picked
  <1>5. r = p \o q
    <2> HIDE DEF p, q, r
    <2>1. /\ p \o q \in Seq(Seq(T)) /\ Len(p \o q) = Len(p) + Len(q)
          /\ \A i \in 1..Len(p) : (p \o q)[i] = p[i]
          /\ \A i \in 1..Len(q) : (p \o q)[Len(p) + i] = q[i]
      <3> DEFINE U == Seq(T)
      <3>1. p \in Seq(U) /\ q \in Seq(U)
        BY <1>1
      <3> HIDE DEF U
      <3>2. p \o q \in Seq(U)
        BY <3>1
      <3> QED BY <3>1, <3>2, TwoSeqs DEF U
    <2>2. ASSUME NEW i \in 1..Len(r) PROVE r[i] = (p \o q)[i]
      <3>1. CASE i \in 1..Len(s)
        BY <1>1, <1>3, <2>1, <3>1
      <3>2. CASE i \notin 1..Len(s)
        <4> DEFINE j == i - Len(s)
        <4>1. j \in 1..Len(u) /\ i = Len(s) + j
          BY <1>1, <1>2, <3>2
        <4> HIDE DEF j
        <4>2. r[Len(s) + j] = (p \o q)[Len(s) + j]
          BY <1>1, <1>4, <2>1, <4>1
        <4> QED BY <4>1, <4>2
      <3> QED BY <3>1, <3>2
    <2>3. Len(r) = Len(p \o q)
      BY <1>1, <1>2, <2>1
    <2> DEFINE U == Seq(T)  v == p \o q
    <2>4. r \in Seq(U) /\ v \in Seq(U) /\ Len(r) = Len(v) /\ \A i \in 1..Len(r) : r[i] = v[i]
      BY <1>1, <2>1, <2>2, <2>3
    <2> HIDE DEF U, v
    <2>5. r = v
      BY <2>4, SeqEqual
    <2> QED BY <2>5 DEF v
  <1>6. FlattenSeq(p \o q) = FlattenSeq(p) \o FlattenSeq(q)
    <2> HIDE DEF p, q
    <2> QED BY <1>1, FlattenConcat
  <1>7. Select(s, S) = FlattenSeq(p) /\ Select(u, S) = FlattenSeq(q)
        /\ Select(s \o u, S) = FlattenSeq(r)
    BY <1>0, PickedType
  <1> HIDE DEF p, q, r
  <1> QED BY <1>5, <1>6, <1>7

\* FlattenSeq of one sequence, and of none
LEMMA FlattenOne ==
  ASSUME NEW S, NEW s \in Seq(S)
  PROVE  FlattenSeq(<<s>>) = s /\ FlattenSeq(<< >>) = << >>
  <1>1. FlattenSeq(<< >>) = << >>
    BY DEF FlattenSeq
  <1>2. << >> \in Seq(Seq(S)) /\ Append(<< >>, s) = <<s>> /\ << >> \o s = s
    OBVIOUS
  <1>3. FlattenSeq(Append(<< >>, s)) = FlattenSeq(<< >>) \o s
    BY <1>2, FlattenOneMore
  <1> QED BY <1>1, <1>2, <1>3

\* Select of one item, and of none
LEMMA SelectOne ==
  ASSUME NEW x, NEW S
  PROVE  /\ Select(<<x>>, S) = IF x \in S THEN <<x>> ELSE << >>
         /\ Select(<< >>, S) = << >>
  <1>1. Picked(<<x>>, S) = <<IF x \in S THEN <<x>> ELSE << >>>>
    BY DEF Picked
  <1>2. Picked(<< >>, S) = << >>
    BY DEF Picked
  <1>3. (IF x \in S THEN <<x>> ELSE << >>) \in Seq({x})
    <2>1. <<x>> \in Seq({x}) /\ << >> \in Seq({x})
      OBVIOUS
    <2> QED BY <2>1
  <1>4. FlattenSeq(<<IF x \in S THEN <<x>> ELSE << >>>>) = IF x \in S THEN <<x>> ELSE << >>
    <2> DEFINE y == IF x \in S THEN <<x>> ELSE << >>
    <2>1. y \in Seq({x})
      BY <1>3
    <2> HIDE DEF y
    <2>2. FlattenSeq(<<y>>) = y
      BY <2>1, FlattenOne
    <2> QED BY <2>2 DEF y
  <1>5. FlattenSeq(<< >>) = << >>
    BY DEF FlattenSeq
  <1>6. Select(<<x>>, S) = FlattenSeq(Picked(<<x>>, S))
    <2>1. <<x>> \in Seq({x})
      OBVIOUS
    <2> QED BY <2>1, PickedType
  <1>7. Select(<< >>, S) = FlattenSeq(Picked(<< >>, S))
    <2>1. << >> \in Seq({x})
      OBVIOUS
    <2> QED BY <2>1, PickedType
  <1> QED BY <1>1, <1>2, <1>4, <1>5, <1>6, <1>7

\* A prefix that is one longer
LEMMA OneLonger ==
  ASSUME NEW T, NEW s \in Seq(T), NEW m \in 0..Len(s) - 1
  PROVE  /\ SubSeq(s, 1, m) \in Seq(T) /\ s[m + 1] \in T
         /\ SubSeq(s, 1, m + 1) = SubSeq(s, 1, m) \o <<s[m + 1]>>
  <1>1. Len(s) \in Nat /\ m \in 0..Len(s) /\ m + 1 \in 1..Len(s) /\ m + 1 \in 0..Len(s)
    OBVIOUS
  <1>2. SubSeq(s, 1, m) \in Seq(T) /\ s[m + 1] \in T
    BY <1>1
  <1>3. SubSeq(s, 1, m + 1) = Append(SubSeq(s, 1, m), s[m + 1])
    BY <1>1
  <1> QED BY <1>2, <1>3

\* Selected are as many members of R as there are in both sets.
LEMMA CountSelect ==
  ASSUME NEW T, NEW s \in Seq(T), NEW S, NEW R
  PROVE  Count(Select(s, S), R) = Count(s, S \cap R)
  <1> DEFINE L == Len(s)  part(m) == SubSeq(s, 1, m)
             G == {m \in 0..L : Count(Select(part(m), S), R) = Count(part(m), S \cap R)}
  <1>0. L \in Nat
    OBVIOUS
  <1>1. 0 \in G
    <2>1. part(0) = << >>
      OBVIOUS
    <2>2. Count(Select(<< >>, S), R) = Count(<< >>, S \cap R)
      BY CountOne, SelectOne
    <2> HIDE DEF part
    <2> QED BY <1>0, <2>1, <2>2
  <1>2. ASSUME NEW m \in 0..L - 1, m \in G PROVE m + 1 \in G
    <2> DEFINE p == part(m)  x == s[m + 1]
    <2>1. p \in Seq(T) /\ x \in T /\ part(m + 1) = p \o <<x>>
      BY OneLonger
    <2>2. Count(Select(p, S), R) = Count(p, S \cap R)
      BY <1>2
    <2> DEFINE y == <<x>>
    <2> HIDE DEF p, part
    <2>3. y \in Seq(T)
      BY <2>1
    <2> HIDE DEF y
    <2>4. Select(p, S) \in Seq(T) /\ Select(y, S) \in Seq(T)
      BY <2>1, <2>3, PickedType
    <2>5. Select(p \o y, S) = Select(p, S) \o Select(y, S)
      BY <2>1, <2>3, SelectConcat
    <2>6. Count(Select(p \o y, S), R) = Count(Select(p, S), R) + Count(Select(y, S), R)
      <3> DEFINE a == Select(p, S)  b == Select(y, S)
      <3>1. a \in Seq(T) /\ b \in Seq(T)
        BY <2>4
      <3> HIDE DEF a, b
      <3>2. Count(a \o b, R) = Count(a, R) + Count(b, R)
        BY <3>1, CountConcat
      <3> QED BY <2>5, <3>2 DEF a, b
    <2>7. Count(p \o y, S \cap R) = Count(p, S \cap R) + Count(y, S \cap R)
      BY <2>1, <2>3, CountConcat
    <2>8. Count(Select(y, S), R) = Count(y, S \cap R)
      <3>1. Count(<<x>>, R) = (IF x \in R THEN 1 ELSE 0) /\ Count(<< >>, R) = 0
        BY CountOne
      <3>2. Count(<<x>>, S \cap R) = (IF x \in S \cap R THEN 1 ELSE 0)
        BY CountOne
      <3>3. Select(<<x>>, S) = IF x \in S THEN <<x>> ELSE << >>
        BY SelectOne
      <3> QED BY <3>1, <3>2, <3>3 DEF y
    <2>9. m + 1 \in 0..L
      BY <1>0
    <2>10. Count(Select(part(m + 1), S), R) = Count(part(m + 1), S \cap R)
      BY <2>1, <2>2, <2>6, <2>7, <2>8 DEF y
    <2> QED BY <2>9, <2>10
  <1>3. 0..L \subseteq G
    <2> HIDE DEF G
    <2> QED BY <1>0, <1>1, <1>2, Upwards
  <1>4. L \in G
    <2>1. L \in 0..L
      BY <1>0
    <2> HIDE DEF G
    <2> QED BY <1>3, <2>1
  <1>5. part(L) = s
    OBVIOUS
  <1> HIDE DEF part
  <1> QED BY <1>4, <1>5

\* Select takes each member of S once.
LEMMA SelectLen ==
  ASSUME NEW T, NEW s \in Seq(T), NEW S
  PROVE  Len(Select(s, S)) = Count(s, S)
  <1> DEFINE t == Select(s, S)
  <1>1. t \in Seq(T)
    BY PickedType
  <1>2. Count(t, S) = Count(s, S)
    <2>1. S \cap S = S
      OBVIOUS
    <2>2. Count(t, S) = Count(s, S \cap S)
      BY CountSelect
    <2> QED BY <2>1, <2>2
  <1>3. ASSUME NEW n \in DOMAIN t PROVE t[n] \in S
    <2>1. t = FlattenSeq(Picked(s, S)) /\ Picked(s, S) \in Seq(Seq(T)) /\ Len(Picked(s, S)) = Len(s)
      BY PickedType
    <2>2. t[n] \in ToSet(t)
      BY DEF ToSet
    <2>3. PICK i \in 1..Len(s) : t[n] \in ToSet(Picked(s, S)[i])
      BY <2>1, <2>2, FlattenElements
    <2>4. Picked(s, S)[i] = IF s[i] \in S THEN <<s[i]>> ELSE << >>
      BY DEF Picked
    <2>5. s[i] \in S /\ ToSet(<<s[i]>>) = {s[i]}
      BY <2>3, <2>4 DEF ToSet
    <2> QED BY <2>3, <2>4, <2>5
  <1>4. {n \in DOMAIN t : t[n] \in S} = 1..Len(t) /\ Len(t) \in Nat
    <2>1. DOMAIN t = 1..Len(t) /\ Len(t) \in Nat
      BY <1>1
    <2> HIDE DEF t
    <2> QED BY <1>3, <2>1
  <1>5. Cardinality(1..Len(t)) = Len(t)
    <2> DEFINE l == Len(t)
    <2>1. l \in Nat
      BY <1>4
    <2> HIDE DEF l
    <2>2. Cardinality(1..l) = l
      BY <2>1, FS_Interval
    <2> QED BY <2>2 DEF l
  <1> QED BY <1>2, <1>4, <1>5 DEF Count

-----------------------------------------------------------------------------
(* Sums and products *)

\* What gives a member of S for another, for each number
Steps(S, L, h) == L \in Nat /\ h \in [1..L -> [S -> S]]

\* f begins with a and goes on as h says.
Follows(S, a, L, h, f) ==
  f \in [0..L -> S] /\ f[0] = a /\ \A n \in 1..L : f[n] = h[n][f[n - 1]]

\* A function on 0 .. L is defined by its first value and what gives each of the others.
LEMMA Recursion ==
  ASSUME NEW S, NEW L, NEW h, Steps(S, L, h), NEW a \in S
  PROVE  \E f : Follows(S, a, L, h, f)
  <1> DEFINE Good(m) == \E f \in [0..m -> S] : f[0] = a /\ \A n \in 1..m : f[n] = h[n][f[n - 1]]
             G == {m \in 0..L : Good(m)}
  <1>0. L \in Nat /\ h \in [1..L -> [S -> S]]
    BY DEF Steps
  <1>1. Good(0)
    <2> DEFINE f == [n \in 0..0 |-> a]
    <2>1. f \in [0..0 -> S] /\ f[0] = a /\ \A n \in 1..0 : f[n] = h[n][f[n - 1]]
      OBVIOUS
    <2> HIDE DEF f
    <2> QED BY <2>1
  <1>2. ASSUME NEW m \in 0..L - 1, Good(m) PROVE Good(m + 1)
    <2>1. PICK f \in [0..m -> S] : f[0] = a /\ \A n \in 1..m : f[n] = h[n][f[n - 1]]
      BY <1>2
    <2> DEFINE g == [n \in 0..m + 1 |-> IF n = m + 1 THEN h[m + 1][f[m]] ELSE f[n]]
    <2>2. m + 1 \in 1..L /\ m \in 0..m /\ \A n \in 0..m + 1 : n = m + 1 \/ n \in 0..m
      BY <1>0
    <2>3. g \in [0..m + 1 -> S]
      BY <1>0, <2>2
    <2>4. \A n \in 0..m : g[n] = f[n]
      OBVIOUS
    <2>5. g[m + 1] = h[m + 1][f[m]] /\ 0 \in 0..m
      OBVIOUS
    <2> HIDE DEF g
    <2>6. \A n \in 1..m + 1 : g[n] = h[n][g[n - 1]]
      <3> TAKE n \in 1..m + 1
      <3>1. CASE n = m + 1
        BY <2>2, <2>4, <2>5, <3>1
      <3>2. CASE n # m + 1
        <4>1. n \in 1..m /\ n \in 0..m /\ n - 1 \in 0..m
          BY <3>2
        <4> QED BY <2>1, <2>4, <4>1
      <3> QED BY <3>1, <3>2
    <2> QED BY <2>1, <2>3, <2>4, <2>5, <2>6
  <1>3. 0..L \subseteq G
    <2>1. 0 \in G /\ \A m \in 0..L - 1 : m \in G => m + 1 \in G
      <3> HIDE DEF Good
      <3>1. 0 \in 0..L /\ \A m \in 0..L - 1 : m + 1 \in 0..L
        BY <1>0
      <3> QED BY <1>1, <1>2, <3>1
    <2> HIDE DEF G
    <2> QED BY <1>0, <2>1, Upwards
  <1> HIDE DEF Good
  <1>4. Good(L)
    BY <1>0, <1>3
  <1> QED BY <1>4 DEF Good, Follows

\* The length of a function on 1 .. L
LEMMA LenIs ==
  ASSUME NEW L \in Nat, NEW S, NEW s \in [1..L -> S]
  PROVE  Len(s) = L /\ DOMAIN s = 1..L /\ s \in Seq(S)
  BY LenProperties, SeqDef

\* SumOf adds one number at a time.
LEMMA SumIs ==
  ASSUME NEW L \in Nat, NEW s \in [1..L -> Int]
  PROVE  \E f \in [0..L -> Int] :
           SumOf(s) = f[L] /\ f[0] = 0 /\ \A n \in 1..L : f[n] = f[n - 1] + s[n]
  <1> DEFINE F == CHOOSE f : f = [n \in 0..L |-> IF n = 0 THEN 0 ELSE f[n - 1] + s[n]]
             h == [n \in 1..L |-> [x \in Int |-> x + s[n]]]
  <1>1. SumOf(s) = F[L]
    BY LenIs DEF SumOf
  <1>2. \E f : f = [n \in 0..L |-> IF n = 0 THEN 0 ELSE f[n - 1] + s[n]]
    <2>1. h \in [1..L -> [Int -> Int]]
      OBVIOUS
    <2>2. \A n \in 1..L : \A x \in Int : h[n][x] = x + s[n]
      OBVIOUS
    <2> HIDE DEF h
    <2>0. Steps(Int, L, h) /\ 0 \in Int
      BY <2>1 DEF Steps
    <2>1a. PICK f : Follows(Int, 0, L, h, f)
      BY <2>0, Recursion
    <2>3. f \in [0..L -> Int] /\ f[0] = 0 /\ \A n \in 1..L : f[n] = h[n][f[n - 1]]
      BY <2>1a DEF Follows
    <2>4. \A n \in 0..L : f[n] = IF n = 0 THEN 0 ELSE f[n - 1] + s[n]
      <3> TAKE n \in 0..L
      <3>1. CASE n = 0
        BY <2>3, <3>1
      <3>2. CASE n # 0
        <4>1. n \in 1..L /\ n - 1 \in 0..L
          BY <3>2
        <4>2. f[n] = h[n][f[n - 1]] /\ f[n - 1] \in Int
          BY <2>3, <4>1
        <4>3. h[n][f[n - 1]] = f[n - 1] + s[n]
          BY <2>2, <4>1, <4>2
        <4> QED BY <3>2, <4>2, <4>3
      <3> QED BY <3>1, <3>2
    <2>5. f = [n \in 0..L |-> IF n = 0 THEN 0 ELSE f[n - 1] + s[n]]
      BY <2>3, <2>4
    <2> QED BY <2>5
  <1>3. F = [n \in 0..L |-> IF n = 0 THEN 0 ELSE F[n - 1] + s[n]]
    BY <1>2
  <1> HIDE DEF F
  <1>4. F[0] = 0 /\ \A n \in 1..L : F[n] = F[n - 1] + s[n]
    <2>1. \A n \in 0..L : F[n] = IF n = 0 THEN 0 ELSE F[n - 1] + s[n]
      BY <1>3
    <2> QED BY <2>1
  <1> DEFINE G == {n \in 0..L : F[n] \in Int}
  <1>5. 0..L \subseteq G
    <2>1. \A n \in 0..L - 1 : n \in G => n + 1 \in G
      <3> TAKE n \in 0..L - 1
      <3>1. n + 1 \in 1..L /\ (n + 1) - 1 = n /\ n + 1 \in 0..L
        OBVIOUS
      <3> QED BY <1>4, <3>1
    <2>2. 0 \in G
      BY <1>4
    <2> HIDE DEF G
    <2> QED BY <2>1, <2>2, Upwards
  <1>6. F \in [0..L -> Int]
    <2>1. \A n \in 0..L : F[n] \in Int
      BY <1>5
    <2>2. F = [n \in 0..L |-> F[n]]
      BY <1>3
    <2> QED BY <2>1, <2>2
  <1> QED BY <1>1, <1>4, <1>6

\* The product is formed one number at a time.
LEMMA ProductIs ==
  ASSUME NEW L \in Nat, NEW s \in [1..L -> Int]
  PROVE  \E f \in [0..L -> Int] :
           ProductOf(s) = f[L] /\ f[0] = 1 /\ \A n \in 1..L : f[n] = f[n - 1] * s[n]
  <1> DEFINE F == CHOOSE f : f = [n \in 0..L |-> IF n = 0 THEN 1 ELSE f[n - 1] * s[n]]
             h == [n \in 1..L |-> [x \in Int |-> x * s[n]]]
  <1>1. ProductOf(s) = F[L]
    BY LenIs DEF ProductOf
  <1>2. \E f : f = [n \in 0..L |-> IF n = 0 THEN 1 ELSE f[n - 1] * s[n]]
    <2>1. h \in [1..L -> [Int -> Int]]
      OBVIOUS
    <2>2. \A n \in 1..L : \A x \in Int : h[n][x] = x * s[n]
      OBVIOUS
    <2> HIDE DEF h
    <2>0. Steps(Int, L, h) /\ 1 \in Int
      BY <2>1 DEF Steps
    <2>1a. PICK f : Follows(Int, 1, L, h, f)
      BY <2>0, Recursion
    <2>3. f \in [0..L -> Int] /\ f[0] = 1 /\ \A n \in 1..L : f[n] = h[n][f[n - 1]]
      BY <2>1a DEF Follows
    <2>4. \A n \in 0..L : f[n] = IF n = 0 THEN 1 ELSE f[n - 1] * s[n]
      <3> TAKE n \in 0..L
      <3>1. CASE n = 0
        BY <2>3, <3>1
      <3>2. CASE n # 0
        <4>1. n \in 1..L /\ n - 1 \in 0..L
          BY <3>2
        <4>2. f[n] = h[n][f[n - 1]] /\ f[n - 1] \in Int
          BY <2>3, <4>1
        <4>3. h[n][f[n - 1]] = f[n - 1] * s[n]
          BY <2>2, <4>1, <4>2
        <4> QED BY <3>2, <4>2, <4>3
      <3> QED BY <3>1, <3>2
    <2>5. f = [n \in 0..L |-> IF n = 0 THEN 1 ELSE f[n - 1] * s[n]]
      BY <2>3, <2>4
    <2> QED BY <2>5
  <1>3. F = [n \in 0..L |-> IF n = 0 THEN 1 ELSE F[n - 1] * s[n]]
    BY <1>2
  <1> HIDE DEF F
  <1>4. F[0] = 1 /\ \A n \in 1..L : F[n] = F[n - 1] * s[n]
    <2>1. \A n \in 0..L : F[n] = IF n = 0 THEN 1 ELSE F[n - 1] * s[n]
      BY <1>3
    <2> QED BY <2>1
  <1> DEFINE G == {n \in 0..L : F[n] \in Int}
  <1>5. 0..L \subseteq G
    <2>1. \A n \in 0..L - 1 : n \in G => n + 1 \in G
      <3> TAKE n \in 0..L - 1
      <3>1. n + 1 \in 1..L /\ (n + 1) - 1 = n /\ n + 1 \in 0..L
        OBVIOUS
      <3>2. \A x, y \in Int : x * y \in Int
        OBVIOUS
      <3>3. F[n + 1] = F[n] * s[n + 1]
        BY <1>4, <3>1
      <3> QED BY <3>1, <3>2, <3>3
    <2>2. 0 \in G
      BY <1>4
    <2> HIDE DEF G
    <2> QED BY <2>1, <2>2, Upwards
  <1>6. F \in [0..L -> Int]
    <2>1. \A n \in 0..L : F[n] \in Int
      BY <1>5
    <2>2. F = [n \in 0..L |-> F[n]]
      BY <1>3
    <2> QED BY <2>1, <2>2
  <1> QED BY <1>1, <1>4, <1>6

\* Nothing has the sum 0 and the product 1.
LEMMA SumNone ==
  ASSUME NEW s \in [1..0 -> Int]
  PROVE  SumOf(s) = 0 /\ ProductOf(s) = 1
  <1>1. PICK f \in [0..0 -> Int] : SumOf(s) = f[0] /\ f[0] = 0
    BY SumIs
  <1>2. PICK g \in [0..0 -> Int] : ProductOf(s) = g[0] /\ g[0] = 1
    BY ProductIs
  <1> QED BY <1>1, <1>2

\* The sum and the product of one number more
LEMMA SumMore ==
  ASSUME NEW L \in Nat, NEW s \in [1..L -> Int], NEW t \in [1..L + 1 -> Int],
         \A n \in 1..L : t[n] = s[n]
  PROVE  /\ SumOf(s) \in Int /\ SumOf(t) = SumOf(s) + t[L + 1]
         /\ ProductOf(s) \in Int /\ ProductOf(t) = ProductOf(s) * t[L + 1]
  <1>0. L + 1 \in Nat
    OBVIOUS
  <1>1. PICK f \in [0..L -> Int] :
           SumOf(s) = f[L] /\ f[0] = 0 /\ \A n \in 1..L : f[n] = f[n - 1] + s[n]
    BY SumIs
  <1>2. PICK g \in [0..L + 1 -> Int] :
           SumOf(t) = g[L + 1] /\ g[0] = 0 /\ \A n \in 1..L + 1 : g[n] = g[n - 1] + t[n]
    BY <1>0, SumIs
  <1>3. PICK p \in [0..L -> Int] :
           ProductOf(s) = p[L] /\ p[0] = 1 /\ \A n \in 1..L : p[n] = p[n - 1] * s[n]
    BY ProductIs
  <1>4. PICK q \in [0..L + 1 -> Int] :
           ProductOf(t) = q[L + 1] /\ q[0] = 1 /\ \A n \in 1..L + 1 : q[n] = q[n - 1] * t[n]
    BY <1>0, ProductIs
  <1> DEFINE G == {n \in 0..L : g[n] = f[n] /\ q[n] = p[n]}
  <1>5. 0..L \subseteq G
    <2>1. \A n \in 0..L - 1 : n \in G => n + 1 \in G
      <3> TAKE n \in 0..L - 1
      <3>1. n + 1 \in 1..L /\ n + 1 \in 1..L + 1 /\ (n + 1) - 1 = n /\ n + 1 \in 0..L
        OBVIOUS
      <3>2. g[n + 1] = g[n] + t[n + 1] /\ q[n + 1] = q[n] * t[n + 1]
        BY <1>2, <1>4, <3>1
      <3>3. f[n + 1] = f[n] + s[n + 1] /\ p[n + 1] = p[n] * s[n + 1] /\ t[n + 1] = s[n + 1]
        BY <1>1, <1>3, <3>1
      <3> QED BY <3>1, <3>2, <3>3
    <2>2. 0 \in G
      BY <1>1, <1>2, <1>3, <1>4
    <2> HIDE DEF G
    <2> QED BY <2>1, <2>2, Upwards
  <1>6. g[L] = f[L] /\ q[L] = p[L] /\ L + 1 \in 1..L + 1 /\ (L + 1) - 1 = L
    BY <1>5
  <1>7. g[L + 1] = g[L] + t[L + 1] /\ q[L + 1] = q[L] * t[L + 1]
    BY <1>2, <1>4, <1>6
  <1> QED BY <1>1, <1>2, <1>3, <1>4, <1>6, <1>7

\* The first n numbers of s
First(s, n) == [i \in 1..n |-> s[i]]

\* The sums of the first numbers, one after another
LEMMA SumFirst ==
  ASSUME NEW L \in Nat, NEW s \in [1..L -> Int]
  PROVE  /\ SumOf(First(s, 0)) = 0 /\ ProductOf(First(s, 0)) = 1 /\ First(s, L) = s
         /\ \A n \in 0..L : SumOf(First(s, n)) \in Int /\ ProductOf(First(s, n)) \in Int
         /\ \A n \in 0..L - 1 :
              /\ n + 1 \in 1..L /\ s[n + 1] \in Int
              /\ SumOf(First(s, n + 1)) = SumOf(First(s, n)) + s[n + 1]
              /\ ProductOf(First(s, n + 1)) = ProductOf(First(s, n)) * s[n + 1]
  <1>1. \A n \in 0..L : First(s, n) \in [1..n -> Int] /\ \A i \in 1..n : First(s, n)[i] = s[i]
    BY DEF First
  <1>2. First(s, L) = s
    BY DEF First
  <1>3. First(s, 0) \in [1..0 -> Int]
    BY <1>1
  <1>4. \A n \in 0..L : SumOf(First(s, n)) \in Int /\ ProductOf(First(s, n)) \in Int
    <2> TAKE n \in 0..L
    <2> DEFINE t == First(s, n)
    <2>0. n \in Nat /\ t \in [1..n -> Int] /\ n \in 0..n
      BY <1>1
    <2> HIDE DEF t
    <2>1. PICK f \in [0..n -> Int] :
            SumOf(t) = f[n] /\ f[0] = 0 /\ \A i \in 1..n : f[i] = f[i - 1] + t[i]
      BY <2>0, SumIs
    <2>2. PICK g \in [0..n -> Int] :
            ProductOf(t) = g[n] /\ g[0] = 1 /\ \A i \in 1..n : g[i] = g[i - 1] * t[i]
      BY <2>0, ProductIs
    <2> QED BY <2>0, <2>1, <2>2 DEF t
  <1>5. ASSUME NEW n \in 0..L - 1
        PROVE  /\ n + 1 \in 1..L /\ s[n + 1] \in Int
               /\ SumOf(First(s, n + 1)) = SumOf(First(s, n)) + s[n + 1]
               /\ ProductOf(First(s, n + 1)) = ProductOf(First(s, n)) * s[n + 1]
    <2> DEFINE a == First(s, n)  b == First(s, n + 1)
    <2>1. n + 1 \in 1..L /\ n \in 0..L /\ n + 1 \in 0..L /\ n + 1 \in 1..n + 1
      OBVIOUS
    <2>2. /\ a \in [1..n -> Int] /\ b \in [1..n + 1 -> Int] /\ b[n + 1] = s[n + 1]
          /\ \A i \in 1..n : b[i] = a[i]
      BY <1>1, <2>1
    <2> HIDE DEF a, b
    <2>3. SumOf(b) = SumOf(a) + b[n + 1] /\ ProductOf(b) = ProductOf(a) * b[n + 1]
      <3>1. n \in Nat /\ a \in [1..n -> Int] /\ b \in [1..n + 1 -> Int]
        BY <2>2
      <3>2. \A i \in 1..n : b[i] = a[i]
        BY <2>2
      <3> QED BY <3>1, <3>2, SumMore
    <2> QED BY <2>1, <2>2, <2>3 DEF a, b
  <1> QED BY <1>2, <1>3, <1>4, <1>5, SumNone

\* A sum and a product of numbers are numbers; a product of positive numbers is positive.
LEMMA SumType ==
  ASSUME NEW L \in Nat, NEW s \in [1..L -> Int]
  PROVE  SumOf(s) \in Int /\ ProductOf(s) \in Int
  <1>1. L \in 0..L
    OBVIOUS
  <1> QED BY <1>1, SumFirst

\* A product of positive numbers is positive.
LEMMA ProductPositive ==
  ASSUME NEW L \in Nat, NEW s \in [1..L -> Nat \ {0}]
  PROVE  ProductOf(s) \in Nat \ {0}
  <1> DEFINE P(n) == ProductOf(First(s, n))  G == {n \in 0..L : P(n) \in Nat \ {0}}
  <1>0. s \in [1..L -> Int]
    OBVIOUS
  <1>1. P(0) = 1 /\ First(s, L) = s /\ \A n \in 0..L - 1 : n + 1 \in 1..L /\ P(n + 1) = P(n) * s[n + 1]
    BY <1>0, SumFirst
  <1> HIDE DEF P
  <1>2. \A n \in 0..L - 1 : n \in G => n + 1 \in G
    <2> TAKE n \in 0..L - 1
    <2>1. \A x, y \in Nat \ {0} : x * y \in Nat \ {0}
      <3>1. \A x, y \in Nat : x * y \in Nat
        OBVIOUS
      <3>2. \A x, y \in Int : x # 0 /\ y # 0 => x * y # 0
        OBVIOUS
      <3> QED BY <3>1, <3>2
    <2>2. n + 1 \in 0..L /\ s[n + 1] \in Nat \ {0}
      OBVIOUS
    <2> QED BY <1>1, <2>1, <2>2
  <1>3. 0 \in G
    BY <1>1
  <1> HIDE DEF G
  <1>4. 0..L \subseteq G
    BY <1>2, <1>3, Upwards
  <1>5. P(L) \in Nat \ {0}
    BY <1>4 DEF G
  <1> QED BY <1>1, <1>5 DEF P

\* A common factor
LEMMA SumScaled ==
  ASSUME NEW L \in Nat, NEW s \in [1..L -> Int], NEW c \in Int, NEW t,
         t = [i \in 1..L |-> s[i] * c]
  PROVE  SumOf(t) = SumOf(s) * c
  <1> DEFINE A(n) == SumOf(First(s, n))  B(n) == SumOf(First(t, n))
             G == {n \in 0..L : B(n) = A(n) * c}
  <1>0. t \in [1..L -> Int] /\ \A i \in 1..L : t[i] = s[i] * c
    <2>1. \A x \in Int : x * c \in Int
      OBVIOUS
    <2>2. \A i \in 1..L : s[i] * c \in Int
      BY <2>1
    <2> QED BY <2>2
  <1>1. /\ A(0) = 0 /\ First(s, L) = s /\ \A n \in 0..L : A(n) \in Int
        /\ \A n \in 0..L - 1 : n + 1 \in 1..L /\ s[n + 1] \in Int /\ A(n + 1) = A(n) + s[n + 1]
    BY SumFirst
  <1>2. /\ B(0) = 0 /\ First(t, L) = t
        /\ \A n \in 0..L - 1 : B(n + 1) = B(n) + t[n + 1]
    BY <1>0, SumFirst
  <1> HIDE DEF A, B
  <1>3. \A n \in 0..L - 1 : n \in G => n + 1 \in G
    <2> TAKE n \in 0..L - 1
    <2> HAVE n \in G
    <2>1. \A x, y \in Int : x * c + y * c = (x + y) * c
      OBVIOUS
    <2>2. n \in 0..L /\ n + 1 \in 0..L /\ t[n + 1] = s[n + 1] * c
      BY <1>0, <1>1
    <2>3. A(n) * c + s[n + 1] * c = (A(n) + s[n + 1]) * c
      BY <1>1, <2>1, <2>2
    <2> QED BY <1>1, <1>2, <2>2, <2>3
  <1>4. 0 \in G
    BY <1>1, <1>2
  <1> HIDE DEF G
  <1>5. 0..L \subseteq G
    BY <1>3, <1>4, Upwards
  <1>6. B(L) = A(L) * c
    BY <1>5 DEF G
  <1> QED BY <1>1, <1>2, <1>6 DEF A, B

\* A factor of a sum, on the right
LEMMA ScaledSum ==
  ASSUME NEW L \in Nat, NEW s \in [1..L -> Int], NEW c \in Int
  PROVE  SumOf([i \in 1..L |-> s[i] * c]) = SumOf(s) * c
  <1> DEFINE t == [i \in 1..L |-> s[i] * c]
  <1>1. t \in [1..L -> Int] /\ \A i \in 1..L : t[i] = s[i] * c
    OBVIOUS
  <1> HIDE DEF t
  <1>2. SumOf(t) = SumOf(s) * c
    BY <1>1, SumScaled
  <1> QED BY <1>2 DEF t

\* A sum with one number that is not zero
LEMMA SumOfOne ==
  ASSUME NEW L \in Nat, NEW s \in [1..L -> Int], NEW k \in 1..L, \A i \in 1..L : i # k => s[i] = 0
  PROVE  SumOf(s) = s[k]
  <1> DEFINE A(n) == SumOf(First(s, n))
             G == {n \in 0..L : A(n) = IF n < k THEN 0 ELSE s[k]}
  <1>1. /\ A(0) = 0 /\ First(s, L) = s /\ \A n \in 0..L : A(n) \in Int
        /\ \A n \in 0..L - 1 : n + 1 \in 1..L /\ s[n + 1] \in Int /\ A(n + 1) = A(n) + s[n + 1]
    BY SumFirst
  <1> HIDE DEF A
  <1>3. \A n \in 0..L - 1 : n \in G => n + 1 \in G
    <2> TAKE n \in 0..L - 1
    <2> HAVE n \in G
    <2>1. n + 1 \in 0..L /\ n + 1 \in 1..L /\ A(n + 1) = A(n) + s[n + 1] /\ k \in Nat
      BY <1>1
    <2>2. CASE n + 1 < k
      BY <2>1, <2>2
    <2>3. CASE n + 1 = k
      BY <2>1, <2>3
    <2>4. CASE n + 1 > k
      BY <2>1, <2>4
    <2> QED BY <2>1, <2>2, <2>3, <2>4
  <1>4. 0 \in G
    BY <1>1
  <1> HIDE DEF G
  <1>5. 0..L \subseteq G
    BY <1>3, <1>4, Upwards
  <1>6. A(L) = s[k]
    BY <1>5 DEF G
  <1> QED BY <1>1, <1>6 DEF A

\* The first factor of a product
LEMMA ProductFirst ==
  ASSUME NEW L \in Nat, NEW s \in [1..L -> Int], NEW t \in [1..L + 1 -> Int],
         \A n \in 1..L : t[n + 1] = s[n]
  PROVE  ProductOf(t) = t[1] * ProductOf(s)
  <1> DEFINE A(n) == ProductOf(First(s, n))  B(n) == ProductOf(First(t, n))
             G == {n \in 0..L : B(n + 1) = t[1] * A(n)}
  <1>1. /\ A(0) = 1 /\ First(s, L) = s /\ \A n \in 0..L : A(n) \in Int
        /\ \A n \in 0..L - 1 : n + 1 \in 1..L /\ s[n + 1] \in Int /\ A(n + 1) = A(n) * s[n + 1]
    BY SumFirst
  <1>2. /\ B(0) = 1 /\ First(t, L + 1) = t /\ \A n \in 0..L + 1 : B(n) \in Int
        /\ \A n \in 0..L : n + 1 \in 1..L + 1 /\ t[n + 1] \in Int /\ B(n + 1) = B(n) * t[n + 1]
    <2>1. L + 1 \in Nat /\ (L + 1) - 1 = L
      OBVIOUS
    <2> QED BY <2>1, SumFirst
  <1> HIDE DEF A, B
  <1>3. \A n \in 0..L - 1 : n \in G => n + 1 \in G
    <2> TAKE n \in 0..L - 1
    <2> HAVE n \in G
    <2>1. n \in 0..L /\ n + 1 \in 0..L /\ n + 1 \in 1..L /\ t[(n + 1) + 1] = s[n + 1] /\ t[1] \in Int
      BY <1>1, <1>2
    <2>2. B((n + 1) + 1) = (t[1] * A(n)) * s[n + 1]
      BY <1>2, <2>1
    <2>3. \A x, y, z \in Int : (x * y) * z = x * (y * z)
      OBVIOUS
    <2>4. (t[1] * A(n)) * s[n + 1] = t[1] * A(n + 1)
      BY <1>1, <2>1, <2>3
    <2> QED BY <2>1, <2>2, <2>4
  <1>4. 0 \in G
    <2>1. 0 \in 0..L /\ B(0 + 1) = B(0) * t[0 + 1] /\ t[0 + 1] \in Int
      BY <1>2
    <2>2. B(0 + 1) = t[1] * A(0)
      BY <1>1, <1>2, <2>1
    <2> QED BY <2>1, <2>2
  <1> HIDE DEF G
  <1>5. 0..L \subseteq G
    BY <1>3, <1>4, Upwards
  <1>6. B(L + 1) = t[1] * A(L)
    BY <1>5 DEF G
  <1> QED BY <1>1, <1>2, <1>6 DEF A, B

-----------------------------------------------------------------------------
(* Sums over the elements of a sequence *)

\* What f gives for each element of a sequence
Each(f, s) == [i \in 1..Len(s) |-> f[s[i]]]

\* The numbers of the elements of a sequence
LEMMA EachType ==
  ASSUME NEW S, NEW f \in [S -> Int], NEW s \in Seq(S)
  PROVE  Len(s) \in Nat /\ Each(f, s) \in [1..Len(s) -> Int] /\ SumOf(Each(f, s)) \in Int
  <1>1. Len(s) \in Nat /\ \A i \in 1..Len(s) : s[i] \in S
    OBVIOUS
  <1>2. Each(f, s) \in [1..Len(s) -> Int]
    BY <1>1 DEF Each
  <1> QED BY <1>1, <1>2, SumType

\* The sum over two sequences
LEMMA EachConcat ==
  ASSUME NEW S, NEW f \in [S -> Int], NEW s \in Seq(S), NEW u \in Seq(S)
  PROVE  SumOf(Each(f, s \o u)) = SumOf(Each(f, s)) + SumOf(Each(f, u))
  <1> DEFINE t == s \o u  K == Len(s)  L == Len(u)
             es == Each(f, s)  eu == Each(f, u)  et == Each(f, t)
             A(n) == SumOf(First(eu, n))  B(n) == SumOf(First(et, n))
             G == {n \in 0..L : B(K + n) = SumOf(es) + A(n)}
  <1>1. /\ t \in Seq(S) /\ Len(t) = K + L /\ K \in Nat /\ L \in Nat
        /\ \A i \in 1..K : t[i] = s[i]
        /\ \A i \in 1..L : t[K + i] = u[i]
    OBVIOUS
  <1> HIDE DEF t, K, L
  <1>2. /\ es \in [1..K -> Int] /\ eu \in [1..L -> Int] /\ et \in [1..K + L -> Int]
        /\ SumOf(es) \in Int
    <2>1. es \in [1..K -> Int] /\ SumOf(es) \in Int
      BY EachType DEF K
    <2>2. eu \in [1..L -> Int]
      BY EachType DEF L
    <2>3. et \in [1..K + L -> Int]
      BY <1>1, EachType
    <2> QED BY <2>1, <2>2, <2>3
  <1>3. /\ \A i \in 1..K : i \in 1..K + L /\ et[i] = es[i]
        /\ \A i \in 1..L : K + i \in 1..K + L /\ et[K + i] = eu[i]
    <2>1. /\ \A i \in 1..K : i \in 1..K + L
          /\ \A i \in 1..L : K + i \in 1..K + L
      BY <1>1
    <2> QED BY <1>1, <2>1 DEF Each, K, L
  <1> HIDE DEF es, eu, et
  <1>4. /\ A(0) = 0 /\ First(eu, L) = eu /\ \A n \in 0..L : A(n) \in Int
        /\ \A n \in 0..L - 1 : n + 1 \in 1..L /\ eu[n + 1] \in Int /\ A(n + 1) = A(n) + eu[n + 1]
    BY <1>1, <1>2, SumFirst
  <1>m. PICK M \in Nat : M = K + L
    BY <1>1
  <1>5. /\ First(et, M) = et /\ First(et, K) = es
        /\ \A n \in 0..M - 1 : B(n + 1) = B(n) + et[n + 1]
    <2>1. First(et, K) = es
      <3>1. es = [i \in 1..K |-> es[i]]
        BY <1>2
      <3> QED BY <1>3, <3>1 DEF First
    <2>2. et \in [1..M -> Int]
      BY <1>1, <1>2, <1>m
    <2>3. First(et, M) = et /\ \A n \in 0..M - 1 : B(n + 1) = B(n) + et[n + 1]
      BY <2>2, SumFirst
    <2> QED BY <2>1, <2>3
  <1>6. B(K) = SumOf(es)
    BY <1>5
  <1> HIDE DEF A, B
  <1>7. \A n \in 0..L - 1 : n \in G => n + 1 \in G
    <2> TAKE n \in 0..L - 1
    <2> HAVE n \in G
    <2>1. /\ n \in 0..L /\ n + 1 \in 0..L /\ n + 1 \in 1..L /\ K + n \in 0..M - 1
          /\ (K + n) + 1 = K + (n + 1)
      BY <1>1, <1>m
    <2>2. B(K + (n + 1)) = B(K + n) + et[K + (n + 1)]
      BY <1>5, <2>1
    <2>3. et[K + (n + 1)] = eu[n + 1]
      BY <1>3, <2>1
    <2> QED BY <1>2, <1>4, <2>1, <2>2, <2>3
  <1>8. 0 \in G
    BY <1>1, <1>2, <1>4, <1>6
  <1> HIDE DEF G
  <1>9. 0..L \subseteq G
    BY <1>1, <1>7, <1>8, Upwards
  <1>10. B(M) = SumOf(es) + A(L)
    <2>1. L \in G
      BY <1>1, <1>9
    <2>2. B(K + L) = SumOf(es) + A(L)
      BY <2>1 DEF G
    <2> QED BY <1>m, <2>2
  <1> QED BY <1>4, <1>5, <1>10 DEF A, B, t, es, eu, et

\* The sum over sequences put one after another
LEMMA EachFlatten ==
  ASSUME NEW S, NEW f \in [S -> Int], NEW ss \in Seq(Seq(S))
  PROVE  /\ [n \in 1..Len(ss) |-> SumOf(Each(f, ss[n]))] \in [1..Len(ss) -> Int]
         /\ SumOf(Each(f, FlattenSeq(ss))) = SumOf([n \in 1..Len(ss) |-> SumOf(Each(f, ss[n]))])
  <1> DEFINE L == Len(ss)  v == [n \in 1..L |-> SumOf(Each(f, ss[n]))]  A(n) == SumOf(First(v, n))
  <1>1. L \in Nat /\ \A n \in 1..L : ss[n] \in Seq(S)
    OBVIOUS
  <1>2. v \in [1..L -> Int] /\ \A n \in 1..L : v[n] = SumOf(Each(f, ss[n]))
    BY <1>1, EachType
  <1> HIDE DEF v
  <1>3. /\ A(0) = 0 /\ First(v, L) = v /\ \A n \in 0..L : A(n) \in Int
        /\ \A n \in 0..L - 1 : A(n + 1) = A(n) + v[n + 1]
    BY <1>1, <1>2, SumFirst
  <1>4. CASE L = 0
    <2>1. FlattenSeq(ss) = << >>
      <3>1. ss = << >>
        BY <1>4
      <3> QED BY <3>1 DEF FlattenSeq
    <2>2. Each(f, << >>) \in [1..0 -> Int]
      BY DEF Each
    <2>3. SumOf(Each(f, << >>)) = 0
      BY <2>2, SumNone
    <2>4. SumOf(v) = 0
      BY <1>3, <1>4
    <2> QED BY <1>2, <2>1, <2>3, <2>4 DEF v
  <1>5. CASE L > 0
    <2>1. PICK F : /\ FlattenSeq(ss) = F[L] /\ F[1] = ss[1]
                   /\ \A m \in 1..L : m + 1 \in 1..L => F[m + 1] = F[m] \o ss[m + 1]
      BY <1>5, FlattenTurns
    <2> DEFINE G == {m \in 1..L : F[m] \in Seq(S) /\ SumOf(Each(f, F[m])) = A(m)}
    <2> HIDE DEF A, L
    <2>2. 1 \in G
      <3>1. 1 \in 1..L /\ 0 \in 0..L - 1 /\ 0 + 1 = 1
        BY <1>1, <1>5
      <3>2. A(1) = v[1] /\ v[1] \in Int
        BY <1>2, <1>3, <3>1
      <3> QED BY <1>1, <1>2, <2>1, <3>1, <3>2
    <2>3. ASSUME NEW m \in 1..L - 1, m \in G PROVE m + 1 \in G
      <3>1. m \in 1..L /\ m + 1 \in 1..L /\ m \in 0..L - 1
        BY <1>1
      <3> DEFINE s == F[m]  u == ss[m + 1]
      <3>2. s \in Seq(S) /\ u \in Seq(S) /\ F[m + 1] = s \o u /\ SumOf(Each(f, s)) = A(m)
        BY <1>1, <2>1, <2>3, <3>1
      <3>3. SumOf(Each(f, u)) = v[m + 1]
        BY <1>2, <3>1
      <3> HIDE DEF s, u
      <3>4. SumOf(Each(f, s \o u)) = SumOf(Each(f, s)) + SumOf(Each(f, u))
        <4>1. s \in Seq(S) /\ u \in Seq(S)
          BY <3>2
        <4> QED BY <4>1, EachConcat
      <3>6. s \o u \in Seq(S)
        BY <3>2
      <3>5. A(m + 1) = A(m) + v[m + 1]
        BY <1>3, <3>1
      <3> QED BY <3>1, <3>2, <3>3, <3>4, <3>5, <3>6
    <2> HIDE DEF G
    <2>4. 1..L \subseteq G
      BY <1>1, <2>2, <2>3, Upwards
    <2>5. SumOf(Each(f, F[L])) = A(L)
      BY <1>1, <1>5, <2>4 DEF G
    <2> QED BY <1>2, <1>3, <2>1, <2>5 DEF A, L, v
  <1> QED BY <1>1, <1>4, <1>5

\* Counting is adding one for each member.
LEMMA CountIsSum ==
  ASSUME NEW T, NEW s \in Seq(T), NEW S
  PROVE  Count(s, S) = SumOf(Each([x \in T |-> IF x \in S THEN 1 ELSE 0], s))
  <1> DEFINE L == Len(s)  part(m) == SubSeq(s, 1, m)  f == [x \in T |-> IF x \in S THEN 1 ELSE 0]
             G == {m \in 0..L : Count(part(m), S) = SumOf(Each(f, part(m)))}
  <1>0. L \in Nat /\ f \in [T -> Int]
    OBVIOUS
  <1>1. 0 \in G
    <2>1. part(0) = << >> /\ Each(f, << >>) \in [1..0 -> Int]
      BY DEF Each
    <2> HIDE DEF part, f
    <2>2. Count(<< >>, S) = 0
      BY CountOne
    <2>3. SumOf(Each(f, << >>)) = 0
      BY <2>1, SumNone
    <2>4. 0 \in 0..L
      BY <1>0
    <2> QED BY <2>1, <2>2, <2>3, <2>4
  <1>2. ASSUME NEW m \in 0..L - 1, m \in G PROVE m + 1 \in G
    <2> DEFINE p == part(m)  x == s[m + 1]  y == <<x>>
    <2>1. p \in Seq(T) /\ x \in T /\ part(m + 1) = p \o y
      BY OneLonger
    <2>2. Count(p, S) = SumOf(Each(f, p))
      BY <1>2
    <2>3. y \in Seq(T) /\ Len(y) = 1 /\ y[1] = x
      BY <2>1
    <2> HIDE DEF p, part
    <2>4. Count(p \o y, S) = Count(p, S) + Count(y, S)
      <3> HIDE DEF y
      <3> QED BY <2>1, <2>3, CountConcat
    <2>5. SumOf(Each(f, p \o y)) = SumOf(Each(f, p)) + SumOf(Each(f, y))
      <3> HIDE DEF y, f
      <3> QED BY <1>0, <2>1, <2>3, EachConcat
    <2>6. Count(y, S) = IF x \in S THEN 1 ELSE 0
      BY CountOne
    <2>7. SumOf(Each(f, y)) = IF x \in S THEN 1 ELSE 0
      <3> DEFINE e == Each(f, y)
      <3>1. e \in [1..1 -> Int] /\ e[1] = IF x \in S THEN 1 ELSE 0
        <4>1. e = [i \in 1..1 |-> f[x]] /\ f[x] = IF x \in S THEN 1 ELSE 0
          BY <2>1, <2>3 DEF Each
        <4> HIDE DEF e, f
        <4> QED BY <4>1
      <3> HIDE DEF e
      <3>2. SumOf(e) = e[1]
        <4>1. 1 \in Nat /\ 1 \in 1..1 /\ \A i \in 1..1 : i # 1 => e[i] = 0
          OBVIOUS
        <4> QED BY <3>1, <4>1, SumOfOne
      <3> QED BY <3>1, <3>2 DEF e
    <2> HIDE DEF f, y
    <2>8. m + 1 \in 0..L
      BY <1>0
    <2> QED BY <2>1, <2>2, <2>4, <2>5, <2>6, <2>7, <2>8
  <1> HIDE DEF G
  <1>3. 0..L \subseteq G
    BY <1>0, <1>1, <1>2, Upwards
  <1>4. Count(part(L), S) = SumOf(Each(f, part(L)))
    <2>1. L \in G
      BY <1>0, <1>3
    <2> QED BY <2>1 DEF G
  <1>5. part(L) = s
    OBVIOUS
  <1> HIDE DEF part, f
  <1>6. Count(s, S) = SumOf(Each(f, s))
    BY <1>4, <1>5
  <1> QED BY <1>6 DEF f

\* Of sequences put one after another the counts are added.
LEMMA CountFlatten ==
  ASSUME NEW T, NEW ss \in Seq(Seq(T)), NEW S
  PROVE  /\ [n \in 1..Len(ss) |-> Count(ss[n], S)] \in [1..Len(ss) -> Int]
         /\ Count(FlattenSeq(ss), S) = SumOf([n \in 1..Len(ss) |-> Count(ss[n], S)])
  <1> DEFINE f == [x \in T |-> IF x \in S THEN 1 ELSE 0]
  <1>1. f \in [T -> Int] /\ \A n \in 1..Len(ss) : ss[n] \in Seq(T)
    OBVIOUS
  <1>2. FlattenSeq(ss) \in Seq(T)
    BY FlattenElements
  <1>3. \A s \in Seq(T) : Count(s, S) = SumOf(Each(f, s))
    BY CountIsSum
  <1> HIDE DEF f
  <1>4. [n \in 1..Len(ss) |-> Count(ss[n], S)] = [n \in 1..Len(ss) |-> SumOf(Each(f, ss[n]))]
    BY <1>1, <1>3
  <1>5. /\ [n \in 1..Len(ss) |-> SumOf(Each(f, ss[n]))] \in [1..Len(ss) -> Int]
        /\ SumOf(Each(f, FlattenSeq(ss))) = SumOf([n \in 1..Len(ss) |-> SumOf(Each(f, ss[n]))])
    BY <1>1, EachFlatten
  <1>6. Count(FlattenSeq(ss), S) = SumOf(Each(f, FlattenSeq(ss)))
    BY <1>2, <1>3
  <1> QED BY <1>4, <1>5, <1>6

\* All the elements are counted.
LEMMA CountAll ==
  ASSUME NEW T, NEW s \in Seq(T), NEW S, ToSet(s) \subseteq S
  PROVE  Count(s, S) = Len(s) /\ Len(s) \in Nat
  <1> DEFINE L == Len(s)
  <1>1. L \in Nat /\ DOMAIN s = 1..L
    OBVIOUS
  <1> HIDE DEF L
  <1>2. {n \in DOMAIN s : s[n] \in S} = 1..L
    <2>1. \A n \in DOMAIN s : s[n] \in S
      BY DEF ToSet
    <2> QED BY <1>1, <2>1
  <1>3. Cardinality(1..L) = L
    BY <1>1, FS_Interval
  <1> QED BY <1>1, <1>2, <1>3 DEF Count, L

\* The length of a flattened sequence
LEMMA FlattenLen ==
  ASSUME NEW T, NEW ss \in Seq(Seq(T))
  PROVE  /\ [n \in 1..Len(ss) |-> Len(ss[n])] \in [1..Len(ss) -> Int]
         /\ Len(FlattenSeq(ss)) = SumOf([n \in 1..Len(ss) |-> Len(ss[n])])
  <1>1. \A s \in Seq(T) : Count(s, T) = Len(s)
    <2> TAKE s \in Seq(T)
    <2>1. ToSet(s) \subseteq T
      BY DEF ToSet
    <2> QED BY <2>1, CountAll
  <1>2. FlattenSeq(ss) \in Seq(T)
    BY FlattenElements
  <1>3. [n \in 1..Len(ss) |-> Count(ss[n], T)] = [n \in 1..Len(ss) |-> Len(ss[n])]
    BY <1>1
  <1>4. /\ [n \in 1..Len(ss) |-> Count(ss[n], T)] \in [1..Len(ss) -> Int]
        /\ Count(FlattenSeq(ss), T) = SumOf([n \in 1..Len(ss) |-> Count(ss[n], T)])
    BY CountFlatten
  <1> QED BY <1>1, <1>2, <1>3, <1>4

\* One member more to count
LEMMA CountOneMore ==
  ASSUME NEW T, NEW s \in Seq(T), NEW S, NEW x, x \notin S
  PROVE  Count(s, S \cup {x}) = Count(s, S) + Count(s, {x})
  <1> DEFINE A == {n \in DOMAIN s : s[n] \in S}  B == {n \in DOMAIN s : s[n] \in {x}}
  <1>1. {n \in DOMAIN s : s[n] \in S \cup {x}} = A \cup B /\ A \cap B = {}
    OBVIOUS
  <1>2. /\ IsFiniteSet(A) /\ IsFiniteSet(B) /\ Cardinality(A) = Count(s, S)
        /\ Cardinality(B) = Count(s, {x}) /\ Count(s, S) \in Nat /\ Count(s, {x}) \in Nat
    <2>1. IsFiniteSet(A) /\ Count(s, S) \in Nat
      BY CountType
    <2>2. IsFiniteSet(B) /\ Count(s, {x}) \in Nat
      BY CountType
    <2> QED BY <2>1, <2>2 DEF Count
  <1> HIDE DEF A, B
  <1>3. Cardinality(A \cup B) = Cardinality(A) + Cardinality(B) - Cardinality(A \cap B)
    BY <1>2, FS_Union
  <1>4. Cardinality(A \cap B) = 0
    BY <1>1, FS_EmptySet
  <1>5. Count(s, S \cup {x}) = Cardinality(A \cup B)
    BY <1>1 DEF Count
  <1>6. Cardinality(A \cup B) = Cardinality(A) + Cardinality(B) /\ Cardinality(A) = Count(s, S)
        /\ Cardinality(B) = Count(s, {x})
    <2>1. Cardinality(A) \in Nat /\ Cardinality(B) \in Nat
      BY <1>2
    <2> QED BY <1>2, <1>3, <1>4, <2>1
  <1> QED BY <1>5, <1>6

\* ps are the members of P, each once.
Naming(L, P, ps) ==
  /\ L \in Nat /\ ps \in [1..L -> P]
  /\ \A i, j \in 1..L : ps[i] = ps[j] => i = j
  /\ \A p \in P : \E i \in 1..L : ps[i] = p

\* How many there are of each
Counts(d, L, ps) == [i \in 1..L |-> Count(d, {ps[i]})]

\* What is counted one by one is counted all together, if nothing is counted twice.
LEMMA CountedOneByOne ==
  ASSUME NEW T, NEW d \in Seq(T), NEW L, NEW P, NEW ps, Naming(L, P, ps)
  PROVE  Counts(d, L, ps) \in [1..L -> Int] /\ SumOf(Counts(d, L, ps)) = Count(d, P)
  <1> DEFINE c == [i \in 1..L |-> Count(d, {ps[i]})]  A(n) == SumOf(First(c, n))
             seen(n) == {ps[i] : i \in 1..n}
             G == {n \in 0..L : A(n) = Count(d, seen(n))}
  <1>0. /\ L \in Nat /\ ps \in [1..L -> P]
        /\ \A i, j \in 1..L : ps[i] = ps[j] => i = j
        /\ \A p \in P : \E i \in 1..L : ps[i] = p
    BY DEF Naming
  <1>1. \A S : Count(d, S) \in Nat
    BY CountType
  <1>2. c \in [1..L -> Int]
    BY <1>1
  <1>3. /\ A(0) = 0 /\ First(c, L) = c
        /\ \A n \in 0..L - 1 : A(n + 1) = A(n) + c[n + 1]
    <2>1. L \in Nat
      BY <1>0
    <2> HIDE DEF c
    <2> QED BY <1>2, <2>1, SumFirst
  <1> HIDE DEF A
  <1>4. 0 \in G
    <2>1. Count(d, {}) = 0
      <3>1. {n \in DOMAIN d : d[n] \in {}} = {}
        OBVIOUS
      <3> QED BY <3>1, FS_EmptySet DEF Count
    <2>2. seen(0) = {}
      OBVIOUS
    <2>3. 0 \in 0..L
      BY <1>0
    <2> QED BY <1>3, <2>1, <2>2, <2>3
  <1>5. ASSUME NEW n \in 0..L - 1, n \in G PROVE n + 1 \in G
    <2>1. n + 1 \in 1..L /\ n + 1 \in 0..L /\ c[n + 1] = Count(d, {ps[n + 1]})
      BY <1>0
    <2>2. seen(n + 1) = seen(n) \cup {ps[n + 1]}
      <3>1. \A i : i \in 1..n + 1 <=> i \in 1..n \/ i = n + 1
        BY <1>0
      <3> QED BY <3>1
    <2>3. ps[n + 1] \notin seen(n)
      <3>1. \A i \in 1..n : i \in 1..L /\ i # n + 1
        BY <1>0
      <3> QED BY <1>0, <2>1, <3>1
    <2>4. A(n) = Count(d, seen(n)) /\ A(n + 1) = A(n) + c[n + 1]
      BY <1>3, <1>5
    <2> HIDE DEF seen, c
    <2>5. Count(d, seen(n) \cup {ps[n + 1]}) = Count(d, seen(n)) + Count(d, {ps[n + 1]})
      BY <2>3, CountOneMore
    <2> QED BY <2>1, <2>2, <2>4, <2>5
  <1> HIDE DEF G
  <1>6. 0..L \subseteq G
    BY <1>0, <1>4, <1>5, Upwards
  <1>7. A(L) = Count(d, seen(L))
    BY <1>0, <1>6 DEF G
  <1>8. seen(L) = P
    BY <1>0
  <1>9. Counts(d, L, ps) = c
    BY DEF Counts
  <1> HIDE DEF seen, c
  <1> QED BY <1>2, <1>3, <1>7, <1>8, <1>9 DEF A

-----------------------------------------------------------------------------
(* Orders *)

\* A strict order of the members of P, by what comes before each
IsOrder(P, before) ==
  /\ before \in [P -> SUBSET P]
  /\ \A n \in P : n \notin before[n]
  /\ \A m, n \in P : m \in before[n] => before[m] \subseteq before[n]
  /\ \A m, n \in P : m = n \/ m \in before[n] \/ n \in before[m]

\* The members of a finite set that is ordered, each chosen by how many come before it
LEMMA Ranked ==
  ASSUME NEW P, IsFiniteSet(P), NEW before, IsOrder(P, before)
  PROVE  \E f \in Bijection(1..Cardinality(P), P) :
           /\ f = [r \in 1..Cardinality(P) |-> CHOOSE n \in P : Cardinality(before[n]) = r - 1]
           /\ \A q, r \in 1..Cardinality(P) : q < r => f[q] \in before[f[r]]
           /\ \A r \in 1..Cardinality(P) : \A n \in P : Cardinality(before[n]) = r - 1 <=> n = f[r]
  <1>a. /\ before \in [P -> SUBSET P]
        /\ \A n \in P : n \notin before[n]
        /\ \A m, n \in P : m \in before[n] => before[m] \subseteq before[n]
        /\ \A m, n \in P : m = n \/ m \in before[n] \/ n \in before[m]
    BY DEF IsOrder
  <1> DEFINE L == Cardinality(P)  place == [n \in P |-> Cardinality(before[n]) + 1]
  <1>0. L \in Nat
    BY FS_CardinalityType
  <1>1. IsFiniteSet(1..L) /\ Cardinality(1..L) = L /\ Cardinality(P) = L
    <2>1. L = Cardinality(P)
      OBVIOUS
    <2> HIDE DEF L
    <2> QED BY <1>0, <2>1, FS_Interval
  <1>b. IsFiniteSet(P)
    OBVIOUS
  <1>2. ASSUME NEW n \in P PROVE IsFiniteSet(before[n]) /\ Cardinality(before[n]) \in 0..L - 1
    <2>1. before[n] \in SUBSET P /\ n \notin before[n]
      BY <1>a 
    <2>2. IsFiniteSet(before[n]) /\ Cardinality(before[n]) <= L
          /\ (Cardinality(P) = Cardinality(before[n]) => P = before[n])
      BY <1>b, <2>1, FS_Subset
    <2>3. Cardinality(before[n]) \in Nat
      BY <2>2, FS_CardinalityType
    <2> QED BY <1>0, <1>1, <2>1, <2>2, <2>3
  <1>3. ASSUME NEW m \in P, NEW n \in P, m \in before[n]
        PROVE  Cardinality(before[m]) < Cardinality(before[n])
    <2>1. before[m] \in SUBSET before[n] /\ before[m] # before[n]
      BY <1>a, <1>3 
    <2>2. /\ Cardinality(before[m]) <= Cardinality(before[n])
          /\ Cardinality(before[n]) = Cardinality(before[m]) => before[n] = before[m]
      BY <1>2, <2>1, FS_Subset
    <2>3. Cardinality(before[m]) \in Nat /\ Cardinality(before[n]) \in Nat
      BY <1>2
    <2> QED BY <2>1, <2>2, <2>3
  <1>4. place \in [P -> 1..L] /\ \A n \in P : place[n] = Cardinality(before[n]) + 1
    <2>1. \A n \in P : Cardinality(before[n]) + 1 \in 1..L
      BY <1>0, <1>2
    <2> QED BY <2>1
  <1>5. \A m, n \in P : m \in before[n] => place[m] < place[n]
    <2>1. \A n \in P : Cardinality(before[n]) \in Nat
      BY <1>2
    <2> HIDE DEF place
    <2> QED BY <1>3, <1>4, <2>1
  <1> HIDE DEF place
  <1>6. \A m, n \in P : place[m] = place[n] => m = n
    <2> SUFFICES ASSUME NEW m \in P, NEW n \in P, place[m] = place[n], m # n PROVE FALSE
      OBVIOUS
    <2>1. m \in before[n] \/ n \in before[m]
      BY <1>a 
    <2>2. place[m] \in Nat /\ place[n] \in Nat
      BY <1>4
    <2> QED BY <1>5, <2>1, <2>2
  <1>7. \A r \in 1..L : \E n \in P : place[n] = r
    <2>1. place \in Injection(P, 1..L)
      BY <1>4, <1>6 DEF Injection, IsInjective
    <2>2. place \in Surjection(P, 1..L)
      BY <1>1, <2>1, FS_Injection
    <2> QED BY <2>2 DEF Surjection
  <1> DEFINE f == [r \in 1..L |-> CHOOSE n \in P : Cardinality(before[n]) = r - 1]
  <1>8. ASSUME NEW r \in 1..L PROVE f[r] \in P /\ place[f[r]] = r
    <2>1. PICK n \in P : place[n] = r
      BY <1>7
    <2>2. Cardinality(before[n]) = r - 1
      <3>1. Cardinality(before[n]) \in Nat
        BY <1>2
      <3> QED BY <1>4, <2>1, <3>1
    <2>3. f[r] \in P /\ Cardinality(before[f[r]]) = r - 1
      <3>1. f[r] = CHOOSE k \in P : Cardinality(before[k]) = r - 1
        OBVIOUS
      <3> HIDE DEF f
      <3> QED BY <2>2, <3>1
    <2> HIDE DEF f
    <2>4. place[f[r]] = (r - 1) + 1
      BY <1>4, <2>3
    <2> QED BY <2>3, <2>4
  <1>9. f \in [1..L -> P]
    BY <1>8
  <1>10. \A n \in P : f[place[n]] = n
    <2> HIDE DEF f
    <2> QED BY <1>4, <1>6, <1>8
  <1> HIDE DEF f
  <1>12. f \in Bijection(1..L, P)
    <2>1. \A q, r \in 1..L : f[q] = f[r] => q = r
      BY <1>8
    <2>2. \A n \in P : \E r \in 1..L : f[r] = n
      BY <1>4, <1>10
    <2> QED BY <1>9, <2>1, <2>2 DEF Bijection, Injection, Surjection, IsInjective
  <1>13. ASSUME NEW q \in 1..L, NEW r \in 1..L, q < r PROVE f[q] \in before[f[r]]
    <2>1. f[q] \in P /\ f[r] \in P /\ place[f[q]] = q /\ place[f[r]] = r
      BY <1>8
    <2>2. f[q] # f[r] /\ f[r] \notin before[f[q]]
      BY <1>5, <1>13, <2>1
    <2>3. f[q] = f[r] \/ f[q] \in before[f[r]] \/ f[r] \in before[f[q]]
      BY <1>a, <2>1
    <2> QED BY <2>2, <2>3
  <1>14. ASSUME NEW r \in 1..L, NEW n \in P PROVE Cardinality(before[n]) = r - 1 <=> n = f[r]
    <2>1. Cardinality(before[n]) \in Nat /\ place[n] = Cardinality(before[n]) + 1 /\ place[f[r]] = r
      BY <1>2, <1>4, <1>8
    <2>2. Cardinality(before[n]) = r - 1 <=> place[n] = r
      BY <2>1
    <2> QED BY <1>8, <1>10, <2>1, <2>2
  <1> QED BY <1>12, <1>13, <1>14 DEF f

-----------------------------------------------------------------------------
(* Products of sequences *)

\* The sum of as many ones
LEMMA SumOfOnes ==
  ASSUME NEW m \in Nat
  PROVE  SumOf([n \in 1..m |-> 1]) = m /\ [n \in 1..m |-> 1] \in [1..m -> Int]
  <1> DEFINE s == [n \in 1..m |-> n]  f == [x \in 1..m |-> IF x \in 1..m THEN 1 ELSE 0]
  <1>1. s \in [1..m -> 1..m]
    OBVIOUS
  <1>2. Len(s) = m /\ s \in Seq(1..m)
    BY <1>1, LenIs
  <1>3. ToSet(s) \subseteq 1..m
    BY DEF ToSet
  <1>4. Each(f, s) = [n \in 1..m |-> 1]
    <2>1. \A n \in 1..m : f[s[n]] = 1
      OBVIOUS
    <2> HIDE DEF f, s
    <2> QED BY <1>2, <2>1 DEF Each
  <1> HIDE DEF s
  <1>5. Count(s, 1..m) = SumOf(Each(f, s)) /\ Count(s, 1..m) = m
    BY <1>2, <1>3, CountIsSum, CountAll
  <1> QED BY <1>4, <1>5

\* Each element of s with each of m numbers
Crossed(s, f) == [k \in 1..Len(s) |-> f[s[k]]]

Crossing(S, s, m, R, f) == s \in Seq(S) /\ m \in Nat /\ f \in [S -> [1..m -> R]]

\* The types of a product of sequences
LEMMA CrossedType ==
  ASSUME NEW S, NEW s, NEW m, NEW R, NEW f, Crossing(S, s, m, R, f)
  PROVE  /\ Crossed(s, f) \in Seq(Seq(R)) /\ Len(Crossed(s, f)) = Len(s)
         /\ \A k \in 1..Len(s) :
              /\ s[k] \in S
              /\ Crossed(s, f)[k] \in Seq(R) /\ Len(Crossed(s, f)[k]) = m
              /\ \A n \in 1..m : Crossed(s, f)[k][n] = f[s[k]][n] /\ f[s[k]][n] \in R
  <1>c. s \in Seq(S) /\ m \in Nat /\ f \in [S -> [1..m -> R]]
    BY DEF Crossing
  <1> DEFINE L == Len(s)  tt == Crossed(s, f)
  <1>1. L \in Nat /\ \A k \in 1..L : s[k] \in S
    BY <1>c
  <1>2. tt = [k \in 1..L |-> f[s[k]]]
    BY DEF Crossed
  <1> HIDE DEF L, tt
  <1>3. ASSUME NEW k \in 1..L
        PROVE  /\ tt[k] \in Seq(R) /\ Len(tt[k]) = m
               /\ \A n \in 1..m : tt[k][n] = f[s[k]][n] /\ f[s[k]][n] \in R
    <2>1. \A n \in 1..m : f[s[k]][n] \in R
      BY <1>c, <1>1
    <2>2. tt[k] = f[s[k]]
      BY <1>2
    <2>3. tt[k] \in [1..m -> R]
      BY <1>c, <1>1, <2>2
    <2> QED BY <1>c, <2>1, <2>2, <2>3, LenIs
  <1>4. tt \in [1..L -> Seq(R)]
    BY <1>2, <1>3
  <1>5. tt \in Seq(Seq(R)) /\ Len(tt) = L
    BY <1>1, <1>4, LenIs
  <1> QED BY <1>1, <1>3, <1>5 DEF L, tt

\* What they all are, and that they differ
LEMMA CrossedElements ==
  ASSUME NEW S, NEW s, NEW m, NEW R, NEW f, Crossing(S, s, m, R, f)
  PROVE  /\ FlattenSeq(Crossed(s, f)) \in Seq(R)
         /\ \A x : x \in ToSet(FlattenSeq(Crossed(s, f))) <=>
              \E y \in ToSet(s) : \E n \in 1..m : x = f[y][n]
         /\ /\ IsInjective(s)
            /\ \A x, y \in S : \A i, n \in 1..m : f[x][i] = f[y][n] => x = y /\ i = n
            => IsInjective(FlattenSeq(Crossed(s, f)))
  <1>c. s \in Seq(S) /\ m \in Nat /\ f \in [S -> [1..m -> R]]
    BY DEF Crossing
  <1> DEFINE L == Len(s)  tt == Crossed(s, f)
  <1>1. /\ tt \in Seq(Seq(R)) /\ Len(tt) = L
        /\ \A k \in 1..L :
             /\ s[k] \in S
             /\ tt[k] \in Seq(R) /\ Len(tt[k]) = m
             /\ \A n \in 1..m : tt[k][n] = f[s[k]][n] /\ f[s[k]][n] \in R
    BY CrossedType
  <1>2. DOMAIN s = 1..L /\ L \in Nat
    BY <1>c
  <1> HIDE DEF L, tt
  <1>3. \A k \in 1..L : DOMAIN tt[k] = 1..m
    <2> TAKE k \in 1..L
    <2>1. tt[k] \in Seq(R) /\ Len(tt[k]) = m
      BY <1>1
    <2> QED BY <2>1
  <1>4. \A x : x \in ToSet(FlattenSeq(tt)) <=> \E k \in 1..L : x \in ToSet(tt[k])
    BY <1>1, FlattenElements
  <1>5. ASSUME NEW k \in 1..L, NEW x
        PROVE  x \in ToSet(tt[k]) <=> \E n \in 1..m : x = f[s[k]][n]
    <2>1. x \in ToSet(tt[k]) <=> \E n \in 1..m : x = tt[k][n]
      BY <1>3 DEF ToSet
    <2>2. \A n \in 1..m : tt[k][n] = f[s[k]][n]
      BY <1>1
    <2> QED BY <2>1, <2>2
  <1>6. ASSUME NEW x
        PROVE  x \in ToSet(FlattenSeq(tt)) <=> \E y \in ToSet(s) : \E n \in 1..m : x = f[y][n]
    <2>1. \A y : y \in ToSet(s) <=> \E k \in 1..L : y = s[k]
      BY <1>2, Zenon DEF ToSet
    <2>2. \A k \in 1..L : x \in ToSet(tt[k]) <=> \E n \in 1..m : x = f[s[k]][n]
      BY <1>5
    <2>3. x \in ToSet(FlattenSeq(tt)) <=> \E k \in 1..L : \E n \in 1..m : x = f[s[k]][n]
      BY <1>4, <2>2, Zenon
    <2>4. (\E k \in 1..L : \E n \in 1..m : x = f[s[k]][n])
            <=> \E y \in ToSet(s) : \E n \in 1..m : x = f[y][n]
      <3>1. ASSUME NEW k \in 1..L, NEW n \in 1..m, x = f[s[k]][n]
            PROVE  \E y \in ToSet(s) : \E i \in 1..m : x = f[y][i]
        <4>1. s[k] \in ToSet(s)
          BY <2>1
        <4> QED BY <3>1, <4>1
      <3>2. ASSUME NEW y \in ToSet(s), NEW n \in 1..m, x = f[y][n]
            PROVE  \E k \in 1..L : \E i \in 1..m : x = f[s[k]][i]
        <4>1. PICK k \in 1..L : y = s[k]
          BY <2>1
        <4> QED BY <3>2, <4>1
      <3> QED BY <3>1, <3>2, Zenon
    <2> QED BY <2>3, <2>4, Zenon
  <1>7. ASSUME IsInjective(s),
               \A x, y \in S : \A i, n \in 1..m : f[x][i] = f[y][n] => x = y /\ i = n
        PROVE  IsInjective(FlattenSeq(tt))
    <2>1. ASSUME NEW k \in 1..L PROVE IsInjective(tt[k])
      <3>0. s[k] \in S /\ \A n \in 1..m : tt[k][n] = f[s[k]][n]
        BY <1>1
      <3>1. ASSUME NEW i \in 1..m, NEW n \in 1..m, tt[k][i] = tt[k][n] PROVE i = n
        <4>1. f[s[k]][i] = f[s[k]][n]
          BY <3>0, <3>1
        <4> QED BY <1>7, <3>0, <4>1
      <3> QED BY <1>3, <3>1 DEF IsInjective
    <2>2. ASSUME NEW k \in 1..L, NEW j \in 1..L, k # j PROVE ToSet(tt[k]) \cap ToSet(tt[j]) = {}
      <3>1. s[k] # s[j] /\ s[k] \in S /\ s[j] \in S
        BY <1>1, <1>2, <1>7, <2>2 DEF IsInjective
      <3> SUFFICES ASSUME NEW x, x \in ToSet(tt[k]), x \in ToSet(tt[j]) PROVE FALSE
        OBVIOUS
      <3>2. PICK i \in 1..m : x = f[s[k]][i]
        BY <1>5
      <3>3. PICK n \in 1..m : x = f[s[j]][n]
        BY <1>5
      <3>4. f[s[k]][i] = f[s[j]][n]
        BY <3>2, <3>3
      <3> QED BY <1>7, <3>1, <3>4, Zenon
    <2> QED BY <1>1, <2>1, <2>2, FlattenInjective
  <1>8. FlattenSeq(tt) \in Seq(R)
    BY <1>1, FlattenElements
  <1> QED BY <1>6, <1>7, <1>8 DEF tt

\* w is the product of a number for the one and a number for the other
IsProduct(S, s, m, R, f, w, a, c) ==
  /\ s \in Seq(S) /\ m \in Nat /\ f \in [S -> [1..m -> R]]
  /\ w \in [R -> Int] /\ a \in [S -> Int] /\ c \in [1..m -> Int]
  /\ \A x \in S : \A n \in 1..m : w[f[x][n]] = a[x] * c[n]

\* The sum over all of them, when each has the product of two numbers
LEMMA CrossedSum ==
  ASSUME NEW S, NEW s, NEW m, NEW R, NEW f, NEW w, NEW a, NEW c,
         IsProduct(S, s, m, R, f, w, a, c)
  PROVE  SumOf(Each(w, FlattenSeq(Crossed(s, f)))) = SumOf(Each(a, s)) * SumOf(c)
  <1>0. /\ s \in Seq(S) /\ m \in Nat /\ f \in [S -> [1..m -> R]]
        /\ w \in [R -> Int] /\ a \in [S -> Int] /\ c \in [1..m -> Int]
        /\ \A x \in S : \A n \in 1..m : w[f[x][n]] = a[x] * c[n]
    BY DEF IsProduct
  <1> DEFINE L == Len(s)  tt == Crossed(s, f)  e == Each(a, s)
  <1>1. /\ tt \in Seq(Seq(R)) /\ Len(tt) = L
        /\ \A k \in 1..L :
             /\ s[k] \in S
             /\ tt[k] \in Seq(R) /\ Len(tt[k]) = m
             /\ \A n \in 1..m : tt[k][n] = f[s[k]][n] /\ f[s[k]][n] \in R
    BY <1>0, CrossedType DEF Crossing
  <1>2. L \in Nat /\ e \in [1..L -> Int] /\ SumOf(c) \in Int /\ \A k \in 1..L : e[k] = a[s[k]]
    <2>1. e \in [1..L -> Int] /\ L \in Nat
      BY <1>0, EachType
    <2>2. \A k \in 1..L : e[k] = a[s[k]]
      BY DEF Each
    <2> QED BY <1>0, <2>1, <2>2, SumType
  <1> HIDE DEF L, tt, e
  <1>3. ASSUME NEW k \in 1..L PROVE SumOf(Each(w, tt[k])) = e[k] * SumOf(c)
    <2> DEFINE b == a[s[k]]
    <2>1. b \in Int /\ s[k] \in S
      BY <1>0, <1>1
    <2>2. \A n \in 1..m : w[tt[k][n]] = c[n] * b
      <3>1. \A n \in 1..m : b * c[n] = c[n] * b
        <4>1. \A x, y \in Int : x * y = y * x
          OBVIOUS
        <4>2. \A n \in 1..m : c[n] \in Int
          BY <1>0
        <4> HIDE DEF b
        <4> QED BY <2>1, <4>1, <4>2
      <3>2. \A n \in 1..m : w[tt[k][n]] = w[f[s[k]][n]]
        BY <1>1
      <3>3. \A n \in 1..m : w[f[s[k]][n]] = b * c[n]
        BY <1>0, <2>1
      <3> HIDE DEF b
      <3> QED BY <3>1, <3>2, <3>3
    <2>3. Each(w, tt[k]) = [n \in 1..m |-> c[n] * b]
      BY <1>1, <2>2 DEF Each
    <2> HIDE DEF b
    <2>4. SumOf([n \in 1..m |-> c[n] * b]) = SumOf(c) * b
      BY <1>0, <2>1, ScaledSum
    <2>5. b = e[k] /\ SumOf(c) * b = b * SumOf(c)
      BY <1>2, <2>1 DEF b
    <2> QED BY <2>3, <2>4, <2>5
  <1>4. SumOf(Each(w, FlattenSeq(tt))) = SumOf([k \in 1..L |-> SumOf(Each(w, tt[k]))])
    BY <1>0, <1>1, EachFlatten
  <1> DEFINE v == [k \in 1..L |-> SumOf(Each(w, tt[k]))]  u == [k \in 1..L |-> e[k] * SumOf(c)]
  <1>5. v = u
    BY <1>3
  <1>6. SumOf(u) = SumOf(e) * SumOf(c)
    BY <1>2, ScaledSum
  <1>7. SumOf(Each(w, FlattenSeq(tt))) = SumOf(v)
    BY <1>4
  <1> HIDE DEF u, v
  <1> QED BY <1>5, <1>6, <1>7 DEF tt, e

\* Those of P in s tell those of Q.
Tells(S, m, f, P, Q) == \A x \in S : \A n \in 1..m : f[x][n] \in Q <=> x \in P

\* How many of them are of a kind that s tells, and how many they are
LEMMA CrossedCount ==
  ASSUME NEW S, NEW s, NEW m, NEW R, NEW f, Crossing(S, s, m, R, f),
         NEW P, NEW Q, Tells(S, m, f, P, Q)
  PROVE  /\ Count(FlattenSeq(Crossed(s, f)), Q) = Count(s, P) * m
         /\ Len(FlattenSeq(Crossed(s, f))) = Len(s) * m
  <1>c. s \in Seq(S) /\ m \in Nat /\ f \in [S -> [1..m -> R]]
    BY DEF Crossing
  <1> DEFINE t == FlattenSeq(Crossed(s, f))
  <1>1. t \in Seq(R)
    BY CrossedElements
  <1>2. ASSUME NEW A, NEW B, \A x \in S : \A n \in 1..m : f[x][n] \in B <=> x \in A
        PROVE  Count(t, B) = Count(s, A) * m
    <2> DEFINE w == [x \in R |-> IF x \in B THEN 1 ELSE 0]  a == [x \in S |-> IF x \in A THEN 1 ELSE 0]
               c == [n \in 1..m |-> 1]
    <2>1. w \in [R -> Int] /\ a \in [S -> Int]
      OBVIOUS
    <2>2. c \in [1..m -> Int] /\ SumOf(c) = m
      BY <1>c, SumOfOnes
    <2>3. \A x \in S : \A n \in 1..m : w[f[x][n]] = a[x] * c[n]
      <3> TAKE x \in S
      <3> TAKE n \in 1..m
      <3>1. f[x][n] \in R
        BY <1>c
      <3>2. c[n] = 1
        OBVIOUS
      <3>3. w[f[x][n]] = a[x]
        BY <1>2, <3>1
      <3>4. a[x] * 1 = a[x]
        BY <2>1
      <3> HIDE DEF c, w, a
      <3> QED BY <3>2, <3>3, <3>4
    <2>4. Count(t, B) = SumOf(Each(w, t)) /\ Count(s, A) = SumOf(Each(a, s))
      BY <1>c, <1>1, CountIsSum
    <2> HIDE DEF w, a, c
    <2>5. SumOf(Each(w, t)) = SumOf(Each(a, s)) * SumOf(c)
      <3>1. SumOf(Each(w, FlattenSeq(Crossed(s, f)))) = SumOf(Each(a, s)) * SumOf(c)
        <4>1. IsProduct(S, s, m, R, f, w, a, c)
          BY <1>c, <2>1, <2>2, <2>3 DEF IsProduct
        <4> QED BY <4>1, CrossedSum
      <3> QED BY <3>1 DEF t
    <2> QED BY <2>2, <2>4, <2>5
  <1> HIDE DEF t
  <1>5. \A x \in S : \A n \in 1..m : f[x][n] \in R <=> x \in S
    BY <1>c
  <1>3. Count(t, Q) = Count(s, P) * m
    BY <1>2 DEF Tells
  <1>4. Count(t, R) = Count(s, S) * m
    BY <1>2, <1>5
  <1>6. Count(t, R) = Len(t) /\ Count(s, S) = Len(s)
    <2>1. ToSet(t) \subseteq R /\ ToSet(s) \subseteq S
      BY <1>c, <1>1 DEF ToSet
    <2> QED BY <1>c, <1>1, <2>1, CountAll
  <1> QED BY <1>3, <1>4, <1>6 DEF t

\* The length of a product of sequences
LEMMA CrossedLen ==
  ASSUME NEW S, NEW s, NEW m, NEW R, NEW f, Crossing(S, s, m, R, f)
  PROVE  Len(FlattenSeq(Crossed(s, f))) = Len(s) * m
  <1>1. Tells(S, m, f, S, R)
    BY DEF Crossing, Tells
  <1> QED BY <1>1, CrossedCount

-----------------------------------------------------------------------------
(* Names and places *)

\* Two sets whose members have the same names, each its own, have as many members.
LEMMA SameNames ==
  ASSUME NEW A, NEW B, IsFiniteSet(A), NEW a, NEW b,
         \A x, y \in A : a[x] = a[y] => x = y,
         \A x, y \in B : b[x] = b[y] => x = y,
         \A x \in A : \E y \in B : a[x] = b[y],
         \A y \in B : \E x \in A : a[x] = b[y]
  PROVE  Cardinality(A) = Cardinality(B)
  <1> DEFINE f == [x \in A |-> CHOOSE y \in B : a[x] = b[y]]
  <1>1. \A x \in A : f[x] \in B /\ a[x] = b[f[x]]
    OBVIOUS
  <1> HIDE DEF f
  <1>2. f \in [A -> B]
    <2>1. f = [x \in A |-> f[x]]
      BY DEF f
    <2> QED BY <1>1, <2>1
  <1>3. \A x, y \in A : f[x] = f[y] => x = y
    BY <1>1
  <1>4. \A y \in B : \E x \in A : f[x] = y
    BY <1>1
  <1>5. f \in Bijection(A, B)
    BY <1>2, <1>3, <1>4 DEF Bijection, Injection, Surjection, IsInjective
  <1>6. ExistsBijection(A, B)
    BY <1>5 DEF ExistsBijection
  <1> QED BY <1>6, FS_Bijection

\* What is in one of the sequences that f gives only, for the elements of sequences
NamedOnce(S, T, bs, f, x, i, n) ==
  /\ bs \in Seq(Seq(S)) /\ f \in [S -> Seq(T)] /\ i \in 1..Len(bs) /\ n \in 1..Len(bs[i])
  /\ \A j \in 1..Len(bs) : \A m \in 1..Len(bs[j]) : x \in ToSet(f[bs[j][m]]) => j = i /\ m = n

\* It is counted there.
LEMMA CountAlone ==
  ASSUME NEW S, NEW T, NEW bs, NEW f, NEW x, NEW i, NEW n, NamedOnce(S, T, bs, f, x, i, n)
  PROVE  Count(FlattenSeq([k \in DOMAIN FlattenSeq(bs) |-> f[FlattenSeq(bs)[k]]]), {x})
           = Count(f[bs[i][n]], {x})
  <1> DEFINE G == FlattenSeq(bs)  L == Len(G)  ss == [k \in DOMAIN G |-> f[G[k]]]
             c == [s \in S |-> Count(f[s], {x})]
             sums == [j \in 1..Len(bs) |-> SumOf(Each(c, bs[j]))]
  <1>0. bs \in Seq(Seq(S)) /\ f \in [S -> Seq(T)] /\ i \in 1..Len(bs) /\ n \in 1..Len(bs[i])
    BY DEF NamedOnce
  <1>1. G \in Seq(S)
    BY <1>0, FlattenElements
  <1>2. L \in Nat /\ DOMAIN G = 1..L /\ \A k \in 1..L : G[k] \in S
    BY <1>1
  <1> HIDE DEF G, L
  <1>3. ss \in Seq(Seq(T)) /\ Len(ss) = L /\ \A k \in 1..L : ss[k] = f[G[k]]
    <2>1. ss \in [1..L -> Seq(T)]
      BY <1>0, <1>2
    <2>2. \A k \in 1..L : ss[k] = f[G[k]]
      BY <1>2
    <2> HIDE DEF ss
    <2> QED BY <1>2, <2>1, <2>2, LenIs
  <1> HIDE DEF ss
  <1>4. c \in [S -> Int] /\ \A s \in S : c[s] = Count(f[s], {x})
    <2>1. ASSUME NEW s \in S PROVE Count(f[s], {x}) \in Int
      <3>1. f[s] \in Seq(T)
        BY <1>0
      <3>2. Count(f[s], {x}) \in Nat
        BY <3>1, CountType
      <3> QED BY <3>2
    <2> QED BY <2>1
  <1> HIDE DEF c
  <1>5. Count(FlattenSeq(ss), {x}) = SumOf(Each(c, G))
    <2>1. Count(FlattenSeq(ss), {x}) = SumOf([k \in 1..Len(ss) |-> Count(ss[k], {x})])
      BY <1>3, CountFlatten
    <2>2. [k \in 1..Len(ss) |-> Count(ss[k], {x})] = Each(c, G)
      BY <1>2, <1>3, <1>4 DEF Each, L
    <2> QED BY <2>1, <2>2
  <1>6. SumOf(Each(c, G)) = SumOf(sums) /\ sums \in [1..Len(bs) -> Int]
    BY <1>0, <1>4, EachFlatten DEF G
  <1>7. Len(bs) \in Nat /\ \A j \in 1..Len(bs) : bs[j] \in Seq(S)
    BY <1>0
  <1>8. ASSUME NEW j \in 1..Len(bs), NEW m \in 1..Len(bs[j]), ~(j = i /\ m = n)
        PROVE  c[bs[j][m]] = 0
    <2>1. bs[j][m] \in S /\ x \notin ToSet(f[bs[j][m]])
      BY <1>7, <1>8 DEF NamedOnce
    <2> DEFINE g == f[bs[j][m]]
    <2>2. {k \in DOMAIN g : g[k] \in {x}} = {}
      BY <2>1 DEF ToSet
    <2>3. Count(g, {x}) = 0
      BY <2>2, FS_EmptySet DEF Count
    <2> QED BY <1>4, <2>1, <2>3
  <1>9. ASSUME NEW j \in 1..Len(bs)
        PROVE  /\ Len(bs[j]) \in Nat /\ Each(c, bs[j]) \in [1..Len(bs[j]) -> Int]
               /\ \A m \in 1..Len(bs[j]) : Each(c, bs[j])[m] = c[bs[j][m]]
    <2>1. bs[j] \in Seq(S)
      BY <1>7
    <2>2. Len(bs[j]) \in Nat /\ Each(c, bs[j]) \in [1..Len(bs[j]) -> Int]
      BY <1>4, <2>1, EachType
    <2> QED BY <2>2 DEF Each
  <1>10. ASSUME NEW j \in 1..Len(bs), j # i PROVE sums[j] = 0
    <2> DEFINE e == Each(c, bs[j])  l == Len(bs[j])
    <2>1. l \in Nat /\ e \in [1..l -> Int] /\ \A m \in 1..l : e[m] = 0
      BY <1>8, <1>9, <1>10
    <2>2. SumOf(e) = 0
      <3> HIDE DEF e, l
      <3>1. CASE l = 0
        BY <2>1, <3>1, SumNone
      <3>2. CASE l # 0
        <4>1. 1 \in 1..l
          BY <2>1, <3>2
        <4>2. SumOf(e) = e[1]
          BY <2>1, <4>1, SumOfOne
        <4> QED BY <2>1, <4>1, <4>2
      <3> QED BY <3>1, <3>2
    <2> QED BY <2>2
  <1>11. sums[i] = c[bs[i][n]]
    <2> DEFINE e == Each(c, bs[i])  l == Len(bs[i])
    <2>1. l \in Nat /\ e \in [1..l -> Int] /\ n \in 1..l /\ \A m \in 1..l : m # n => e[m] = 0
      <3>1. l \in Nat /\ e \in [1..l -> Int] /\ n \in 1..l
        BY <1>0, <1>9
      <3>2. ASSUME NEW m \in 1..l, m # n PROVE e[m] = 0
        <4>1. c[bs[i][m]] = 0
          BY <1>0, <1>8, <3>2
        <4> QED BY <1>0, <1>9, <4>1
      <3> QED BY <3>1, <3>2
    <2>2. e[n] = c[bs[i][n]]
      BY <1>0, <1>9
    <2>3. SumOf(e) = e[n]
      <3> HIDE DEF e, l
      <3> QED BY <2>1, SumOfOne
    <2> QED BY <1>0, <2>2, <2>3
  <1> HIDE DEF sums
  <1>12. SumOf(sums) = sums[i]
    <2>1. \A j \in 1..Len(bs) : j # i => sums[j] = 0
      BY <1>10
    <2> QED BY <1>0, <1>6, <1>7, <2>1, SumOfOne
  <1>13. bs[i][n] \in S
    BY <1>0, <1>7
  <1> QED BY <1>4, <1>5, <1>6, <1>11, <1>12, <1>13 DEF ss, G

\* Select returns the members of S, and nothing else.
LEMMA SelectElements ==
  ASSUME NEW T, NEW s \in Seq(T), NEW S
  PROVE  \A x : x \in ToSet(Select(s, S)) <=> x \in ToSet(s) /\ x \in S
  <1>1. /\ Picked(s, S) \in Seq(Seq(T)) /\ Len(Picked(s, S)) = Len(s)
        /\ Select(s, S) = FlattenSeq(Picked(s, S))
    BY PickedType
  <1>2. \A x : x \in ToSet(Select(s, S)) <=> \E n \in 1..Len(s) : x \in ToSet(Picked(s, S)[n])
    <2>1. \A x : x \in ToSet(FlattenSeq(Picked(s, S)))
                 <=> \E n \in 1..Len(Picked(s, S)) : x \in ToSet(Picked(s, S)[n])
      BY <1>1, FlattenElements
    <2> QED BY <1>1, <2>1
  <1>3. DOMAIN s = 1..Len(s)
    OBVIOUS
  <1>4. ASSUME NEW n \in 1..Len(s), NEW x
        PROVE  x \in ToSet(Picked(s, S)[n]) <=> s[n] \in S /\ x = s[n]
    <2>1. Picked(s, S)[n] = IF s[n] \in S THEN <<s[n]>> ELSE << >>
      BY <1>3 DEF Picked
    <2>2. ToSet(<<s[n]>>) = {s[n]} /\ ToSet(<< >>) = {}
      BY DEF ToSet
    <2> QED BY <2>1, <2>2
  <1>5. \A x : x \in ToSet(s) <=> \E n \in 1..Len(s) : x = s[n]
    BY <1>3 DEF ToSet
  <1> SUFFICES ASSUME NEW x PROVE x \in ToSet(Select(s, S)) <=> x \in ToSet(s) /\ x \in S
    OBVIOUS
  <1>6. x \in ToSet(Select(s, S)) <=> \E n \in 1..Len(s) : s[n] \in S /\ x = s[n]
    BY <1>2, <1>4
  <1> QED BY <1>5, <1>6
=============================================================================
