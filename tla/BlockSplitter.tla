--------------------------- MODULE BlockSplitter ---------------------------
(***************************************************************************)
(* The generator block_splitter, which cuts a sequence of items in blocks  *)
(* of one key and of a weight that does not exceed a maximum.  Almost all  *)
(* the tasks of the engine come out of it.  Next is what it does with one  *)
(* item; the caller gives it the items (Splitting).                         *)
(***************************************************************************)
EXTENDS Integers, Sequences

CONSTANTS
  Id,
  Key,          \* a set of integers: keys are sorted
  Unspecified   \* the key before the first item, and that of nokey

ASSUME KeyAssumption == Key \subseteq Int /\ Unspecified \in Key

\* What it is, its weight and its key
Item == [id : Id, w : Int, k : Key]

VARIABLES
  items,        \* the items that are still to come
  max_weight,
  ws,           \* the block that is being filled
  prev_key,
  blocks,       \* the blocks that were yielded
  gen           \* the generator: running, ended or raised

splitter == <<items, max_weight, ws, prev_key, blocks, gen>>

WeightedSequence == [seq : Seq(Item), weight : Int]

Empty == [seq |-> <<>>, weight |-> 0]

TypeOK ==
  /\ items \in Seq(Item)
  /\ max_weight \in Int
  /\ ws \in WeightedSequence
  /\ blocks \in Seq(WeightedSequence)
  /\ gen \in {"running", "ended", "raised"}

NotCalled ==
  /\ max_weight \in Int
  /\ items = <<>> /\ ws = Empty /\ prev_key = Unspecified
  /\ blocks = <<>> /\ gen = "ended"

\* The call block_splitter(its, max, weight, key), up to its first item
Call(its, max) ==
  /\ items' = its
  /\ max_weight' = max
  /\ ws' = Empty
  /\ prev_key' = Unspecified
  /\ blocks' = <<>>
  /\ gen' = IF max <= 0 THEN "raised" ELSE "running"

Yield == IF ws.seq = <<>> THEN blocks ELSE Append(blocks, ws)

-----------------------------------------------------------------------------
Item1 == Head(items)

\* Mutants: a definition named X_Y is X with the bug Y, for the checks that a
\* property is able to fail.
Fits_Strict(i) == ws.weight + i.w < max_weight /\ i.k = prev_key

Fits(i) == ws.weight + i.w <= max_weight /\ i.k = prev_key

Running == gen = "running" /\ items # <<>>

NegativeWeight_OrZero ==
  /\ Running /\ Item1.w <= 0
  /\ gen' = "raised"
  /\ UNCHANGED <<items, max_weight, ws, prev_key, blocks>>

NegativeWeight ==
  /\ Running /\ Item1.w < 0
  /\ gen' = "raised"
  /\ UNCHANGED <<items, max_weight, ws, prev_key, blocks>>

NewBlock_NoYield ==
  /\ Running /\ Item1.w >= 0 /\ ~Fits(Item1)
  /\ ws' = [seq |-> <<Item1>>, weight |-> Item1.w]
  /\ items' = Tail(items)
  /\ prev_key' = Item1.k
  /\ UNCHANGED <<max_weight, blocks, gen>>

NewBlock_OldKey ==
  /\ Running /\ Item1.w >= 0 /\ ~Fits(Item1)
  /\ blocks' = Yield
  /\ ws' = [seq |-> <<Item1>>, weight |-> Item1.w]
  /\ items' = Tail(items)
  /\ UNCHANGED <<max_weight, gen, prev_key>>

NewBlock ==
  /\ Running /\ Item1.w >= 0 /\ ~Fits(Item1)
  /\ blocks' = Yield
  /\ ws' = [seq |-> <<Item1>>, weight |-> Item1.w]
  /\ items' = Tail(items)
  /\ prev_key' = Item1.k
  /\ UNCHANGED <<max_weight, gen>>

AppendItem ==
  /\ Running /\ Item1.w > 0 /\ Fits(Item1)
  /\ ws' = [seq |-> Append(ws.seq, Item1), weight |-> ws.weight + Item1.w]
  /\ items' = Tail(items)
  /\ UNCHANGED <<max_weight, prev_key, blocks, gen>>

\* An item of weight zero is ignored, unless it begins a block.
IgnoreItem ==
  /\ Running /\ Item1.w = 0 /\ Fits(Item1)
  /\ items' = Tail(items)
  /\ UNCHANGED <<max_weight, ws, prev_key, blocks, gen>>

LastBlock_PlainList ==
  /\ gen = "running" /\ items = <<>>
  /\ blocks' = Yield
  /\ ws' = <<>>
  /\ gen' = "ended"
  /\ UNCHANGED <<items, max_weight, prev_key>>

LastBlock ==
  /\ gen = "running" /\ items = <<>>
  /\ blocks' = Yield
  /\ ws' = Empty
  /\ gen' = "ended"
  /\ UNCHANGED <<items, max_weight, prev_key>>

NextItem == NegativeWeight \/ NewBlock \/ AppendItem \/ IgnoreItem \/ LastBlock

\* The generator in the hands of any caller
SplitterSpec ==
  /\ NotCalled
  /\ [][NextItem \/ \E its \in Seq(Item), max \in Int : Call(its, max)]_splitter

-----------------------------------------------------------------------------
(* Properties *)

\* A block weighs at most max_weight, unless it has one item only, and its
\* items have one key: the tasks are as small as they can be, and those of a
\* key are computed with the parameters of that key (block[0] in the callers).
BlockFits(b) ==
  /\ b.weight <= max_weight \/ Len(b.seq) <= 1
  /\ \A i, j \in DOMAIN b.seq : b.seq[i].k = b.seq[j].k

BlocksFit == BlockFits(ws) /\ \A n \in DOMAIN blocks : BlockFits(blocks[n])
=============================================================================
