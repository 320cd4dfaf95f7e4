----------------------------- MODULE Splitting -----------------------------
(***************************************************************************)
(* How a calculation cuts its work: the callers of block_splitter,         *)
(* Starmap.apply with a maximum weight or a number of tasks                *)
(* (split_in_blocks), split_task, and the classical calculator, whose      *)
(* tasks cut again the block they receive (classical_split_filter).        *)
(* What a task computes is the list of the elements it is called with.      *)
(***************************************************************************)
EXTENDS BlockSplitter, Lists

CONSTANTS
  Inputs,   \* the sequences of elements
  MaxWeights,
  Hints,    \* concurrent_tasks
  TaskWeights,  \* max_weight of the classical calculator: even, as half of it is used
  Times,    \* time per unit of weight that split_task measures
  MinWeight

ASSUME SplittingAssumption ==
  /\ Inputs \subseteq Seq(Item) /\ MaxWeights \subseteq Int
  /\ Hints \subseteq Nat /\ TaskWeights \subseteq Nat /\ Times \subseteq Nat
  /\ MinWeight \in Nat

VARIABLES
  caller,   \* who cuts the elements
  elements,
  hint,     \* its concurrent_tasks, its params max_weight, or the time per unit
            \* of weight that split_task measured
  stage,    \* how far it is
  tasks,    \* tasks of the classical calculator that are still to run
  calls     \* the elements of each call of the task function

vars == <<splitter, caller, elements, hint, stage, tasks, calls>>

Callers == {"maxweight", "blocks", "classical", "split_task"}

Weigh(its) ==
  LET sum[n \in 0 .. Len(its)] == IF n = 0 THEN 0 ELSE sum[n - 1] + its[n].w
  IN sum[Len(its)]

\* The items of a sequence of blocks or of calls, in order
Flat(seqs) == FlattenSeq(seqs)

Seqs(bs) == [n \in DOMAIN bs |-> bs[n].seq]

Computed == Flat(calls)

ceil(a, b) == IF a % b = 0 THEN a \div b ELSE a \div b + 1

\* The sequence in a new order, where before[n] are the places that come before n
Ordered(its, before) ==
  [r \in DOMAIN its |-> its[CHOOSE n \in DOMAIN its : Cardinality(before[n]) = r - 1]]

\* sorted, which keeps the order of equal elements
Heavier(its) ==
  [n \in DOMAIN its |->
     {m \in DOMAIN its : its[m].w > its[n].w \/ (its[m].w = its[n].w /\ m < n)}]

Lesser(its) ==
  [n \in DOMAIN its |->
     {m \in DOMAIN its :
        \/ its[m].k < its[n].k
        \/ /\ its[m].k = its[n].k
           /\ its[m].w < its[n].w \/ (its[m].w = its[n].w /\ m < n)}]

ByWeight(its) == Ordered(its, Heavier(its))

ByKey(its) == Ordered(its, Lesser(its))

Init ==
  /\ caller \in Callers
  /\ elements \in Inputs
  /\ caller \in {"classical", "split_task"} =>
       \A n \in DOMAIN elements : elements[n].k = Unspecified   \* nokey
  /\ caller = "split_task" => \A n \in DOMAIN elements : elements[n].w >= 0
  /\ hint \in CASE caller = "maxweight"  -> {0}
              [] caller = "blocks"     -> Hints
              [] caller = "classical"  -> TaskWeights
              [] caller = "split_task" -> Times
  /\ max_weight \in CASE caller = "maxweight"  -> MaxWeights \ {0}
                    [] caller = "split_task" -> MaxWeights
                    [] OTHER                 -> {0}
  /\ NotCalled
  /\ stage = "called"
  /\ tasks = <<>> /\ calls = <<>>

-----------------------------------------------------------------------------
(* Starmap.apply *)

Keys(its) == {i.k : i \in ToSet(its)}

\* The items whose key has n lesser keys
OfKey(its, n) == {i \in Item : Cardinality({k \in Keys(its) : k < i.k}) = n}

\* A group for each key, in the order of the keys
groupby(its) == [n \in 1 .. Cardinality(Keys(its)) |-> Select(its, OfKey(its, n - 1))]

ApplyMaxWeight ==
  /\ caller = "maxweight" /\ stage = "called"
  /\ Call(elements, max_weight)
  /\ stage' = "splitting"
  /\ UNCHANGED <<caller, elements, hint, tasks, calls>>

\* split_in_blocks with the hint 0 or 1 does not cut the elements, or cuts
\* them by key.
DontSplit ==
  /\ caller = "blocks" /\ stage = "called" /\ hint <= 1
  /\ calls' = groupby(elements)
  /\ stage' = "returned"
  /\ UNCHANGED <<splitter, caller, elements, hint, tasks>>

ApplyBlocks ==
  /\ caller = "blocks" /\ stage = "called" /\ hint > 1 /\ elements # <<>>
  /\ Call(ByKey(elements), ceil(Weigh(elements), hint))
  /\ stage' = "splitting"
  /\ UNCHANGED <<caller, elements, hint, tasks, calls>>

\* One task for each block
Apply ==
  /\ caller \in {"maxweight", "blocks"} /\ stage = "splitting" /\ gen = "ended"
  /\ calls' = Seqs(blocks)
  /\ stage' = "returned"
  /\ UNCHANGED <<splitter, caller, elements, hint, tasks>>

-----------------------------------------------------------------------------
(* The classical calculator *)

\* execute cuts the sources of a group, the heaviest first.
Execute ==
  /\ caller = "classical" /\ stage = "called"
  /\ Call(ByWeight(elements), 2 * hint)
  /\ stage' = "splitting"
  /\ UNCHANGED <<caller, elements, hint, tasks, calls>>

Submit ==
  /\ caller = "classical" /\ stage = "splitting" /\ gen = "ended"
  /\ tasks' = Seqs(blocks)
  /\ stage' = "submitted"
  /\ UNCHANGED <<splitter, caller, elements, hint, calls>>

\* classical_split_filter cuts its sources again.
RunTask ==
  /\ stage = "submitted" /\ tasks # <<>>
  /\ Call(Head(tasks), hint \div 2)
  /\ tasks' = Tail(tasks)
  /\ stage' = "task"
  /\ UNCHANGED <<caller, elements, hint, calls>>

Above == {b \in WeightedSequence : b.weight >= MinWeight}

\* The blocks above min_weight are subtasks; the task computes the others, with
\* the last one.
EndTask_Last ==
  /\ stage = "task" /\ gen = "ended" /\ blocks # <<>>
  /\ LET heavy == Select(Front(blocks), Above)
     IN calls' = calls \o Seqs(heavy) \o <<Last(blocks).seq>>
  /\ stage' = "submitted"
  /\ UNCHANGED <<splitter, caller, elements, hint, tasks>>

EndTask ==
  /\ stage = "task" /\ gen = "ended" /\ blocks # <<>>
  /\ LET heavy == Select(Front(blocks), Above)
         light == Select(Front(blocks), WeightedSequence \ Above)
     IN calls' = calls \o Seqs(heavy) \o <<Last(blocks).seq \o Flat(Seqs(light))>>
  /\ stage' = "submitted"
  /\ UNCHANGED <<splitter, caller, elements, hint, tasks>>

\* A task whose sources are all ignored returns an empty result.
EndEmptyTask ==
  /\ stage = "task" /\ gen = "ended" /\ blocks = <<>>
  /\ stage' = "submitted"
  /\ UNCHANGED <<splitter, caller, elements, hint, tasks, calls>>

Executed ==
  /\ stage = "submitted" /\ tasks = <<>>
  /\ stage' = "returned"
  /\ UNCHANGED <<splitter, caller, elements, hint, tasks, calls>>

-----------------------------------------------------------------------------
(* split_task *)

\* It computes the heaviest element, measures the time and cuts the others by
\* the time they are expected to take.
ComputeFirst ==
  /\ caller = "split_task" /\ stage = "called" /\ Len(elements) > 1
  /\ LET els == ByWeight(elements) IN
       IF Head(els).w = 0   \* ZeroDivisionError
       THEN stage' = "raised" /\ UNCHANGED splitter
       ELSE /\ Call([n \in 1 .. Len(els) - 1 |->
                      [els[n + 1] EXCEPT !.w = @ * hint, !.k = Unspecified]],
                    max_weight)
            /\ stage' = "splitting"
  /\ calls' = <<<<Head(ByWeight(elements))>>>>
  /\ UNCHANGED <<caller, elements, hint, tasks>>

ComputeOnly ==
  /\ caller = "split_task" /\ stage = "called" /\ Len(elements) = 1
  /\ calls' = <<elements>>
  /\ stage' = "returned"
  /\ UNCHANGED <<splitter, caller, elements, hint, tasks>>

\* Every block but the last is a subtask.
ComputeBlocks ==
  /\ caller = "split_task" /\ stage = "splitting" /\ gen = "ended"
  /\ IF blocks = <<>>       \* IndexError
     THEN stage' = "raised" /\ calls' = calls
     ELSE stage' = "returned" /\ calls' = calls \o Seqs(blocks)
  /\ UNCHANGED <<splitter, caller, elements, hint, tasks>>

-----------------------------------------------------------------------------
Raise ==
  /\ stage \in {"splitting", "task"} /\ gen = "raised"
  /\ stage' = "raised"
  /\ UNCHANGED <<splitter, caller, elements, hint, tasks, calls>>

Next ==
  \/ /\ stage \in {"splitting", "task"}
     /\ NextItem
     /\ UNCHANGED <<caller, elements, hint, stage, tasks, calls>>
  \/ ApplyMaxWeight \/ DontSplit \/ ApplyBlocks \/ Apply
  \/ Execute \/ Submit \/ RunTask \/ EndTask \/ EndEmptyTask \/ Executed
  \/ ComputeFirst \/ ComputeOnly \/ ComputeBlocks \/ Raise

Spec == Init /\ [][Next]_vars

-----------------------------------------------------------------------------
(* Properties *)

Weighing == {i \in Item : i.w > 0}

Heavy(its) == Select(its, Weighing)

Occurrences(its, id) == Cardinality({n \in DOMAIN its : its[n].id = id /\ its[n] \in Weighing})

\* Every element that weighs something is computed once, whichever callers cut
\* it and cut it again: no task computes what another computes, none is lost in
\* the last block.
EachOnce ==
  stage = "returned" =>
    \A id \in Id : Occurrences(Computed, id) = Occurrences(elements, id)

\* Starmap.apply with a maximum weight keeps the order of the elements: the
\* disaggregation reads the ruptures of a block as a slice.
InOrder ==
  caller = "maxweight" /\ stage = "splitting" =>
    Heavy(Flat(Seqs(blocks)) \o ws.seq \o items) = Heavy(elements)

\* split_in_blocks: "Split the `sequence` in a number of WeightedSequences close
\* to `hint`".  It is less than twice as many, for elements of one key: two
\* blocks in a row weigh more than total_weight / hint.
CloseToHint ==
  caller = "blocks" /\ stage = "returned" =>
    Len(calls) <= 2 * (IF hint > 1 THEN hint - 1 ELSE 0)
                    + Cardinality(Keys(elements))

\* Nothing raises but negative weights, maxima that are not positive, and a
\* split_task that measures no time, or that has one element that weighs: then
\* block_splitter ignores all the others, and there is no last block.
RaisesForAReason ==
  stage = "raised" =>
    \/ \E i \in ToSet(elements) : i.w < 0
    \/ max_weight <= 0
    \/ caller = "split_task" /\ (hint = 0 \/ Len(Heavy(elements)) <= 1)
=============================================================================
