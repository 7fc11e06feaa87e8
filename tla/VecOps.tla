------------------------------- MODULE VecOps -------------------------------
(***************************************************************************)
(* collection-primitives.lisp: define-pvec-trie, the storage of vectors: a *)
(* tree of full leaves and a tail.  A leaf or tail is a cell with items,   *)
(* an inner node one with children, whose empty slots are absent.  A level *)
(* stands for log2(B) bits of shift.                                       *)
(***************************************************************************)
EXTENDS Heap

CONSTANT Unset   \* what the places of a new array hold

Array(heap, items) == Alloc(heap, Cell("array", <<>>, items))
Inner(heap, kids) == Alloc(heap, Cell("inner", kids, <<>>))
ItemsOf(heap, ref) == heap[ref.at].items
Vec(count, level, root, tail) == [count |-> count, level |-> level, root |-> root, tail |-> tail]
Made(count, level, root, tail, heap) == [v |-> Vec(count, level, root, tail), heap |-> heap]

Slot(index, level) == (index \div B ^ level) % B
Place(index) == Slot(index, 0) + 1
TailOff(count) == IF count < B THEN 0 ELSE ((count - 1) \div B) * B
TailLen(count) == IF count = 0 THEN 0 ELSE Place(count - 1)

RECURSIVE LeafAt(_, _, _, _)
LeafAt(heap, ref, level, index) ==
  IF level = 0 THEN ref ELSE LeafAt(heap, KidsOf(heap, ref)[Slot(index, level)], level - 1, index)

(* api-ref and %transient-vec-t-ref, for an index within the bounds. *)
VecRef(heap, v, index) ==
  ItemsOf(heap, IF index >= TailOff(v.count) THEN v.tail ELSE LeafAt(heap, v.root, v.level, index))
    [Place(index)]

VecContents(heap, v) == [i \in 1 .. v.count |-> VecRef(heap, v, i - 1)]

RECURSIVE NewPath(_, _, _)
NewPath(heap, level, leaf) ==
  LET below == NewPath(heap, level - 1, leaf)
  IN  IF level <= 0 THEN [ref |-> leaf, heap |-> heap] ELSE Inner(below.heap, With(<<>>, 0, below.ref))

RECURSIVE PushTail(_, _, _, _, _)
PushTail(heap, level, ref, index, leaf) ==
  LET kids == KidsOf(heap, ref)
      i == Slot(index, level)
      child == IF level = 1 THEN [ref |-> leaf, heap |-> heap]
               ELSE IF i \in DOMAIN kids THEN PushTail(heap, level - 1, kids[i], index, leaf)
               ELSE NewPath(heap, level - 1, leaf)
  IN  Inner(child.heap, With(kids, i, child.ref))

(* conj and conj!: the tree that has taken a full tail. *)
Grown(heap, v, leaf) ==
  LET path == NewPath(heap, v.level, leaf)
      grown == Inner(path.heap, With(With(<<>>, 0, v.root), 1, path.ref))
  IN  IF v.root = Nil THEN Inner(heap, With(<<>>, 0, leaf)) @@ [level |-> 1]
      ELSE IF v.count \div B > B ^ v.level THEN grown @@ [level |-> v.level + 1]
      ELSE PushTail(heap, v.level, v.root, v.count - 1, leaf) @@ [level |-> v.level]

\* In place.
SetItem(heap, ref, index, x) == [heap EXCEPT ![ref.at].items = With(@, Place(index), x)]

\* Mutant: a tail with room takes the new element in place.
VecConjInPlace(heap, v, x) ==
  LET short == TailLen(v.count) < B
      tail == Array(heap, <<x>>)
      g == Grown(tail.heap, v, v.tail)
  IN  IF short THEN Made(v.count + 1, v.level, v.root, v.tail,
                         SetItem(heap, v.tail, v.count, x))
      ELSE Made(v.count + 1, g.level, g.ref, tail.ref, g.heap)

VecConj(heap, v, x) ==
  LET short == TailLen(v.count) < B
      tail == Array(heap, IF short THEN Append(ItemsOf(heap, v.tail), x) ELSE <<x>>)
      g == Grown(tail.heap, v, v.tail)
  IN  IF short THEN Made(v.count + 1, v.level, v.root, tail.ref, tail.heap)
      ELSE Made(v.count + 1, g.level, g.ref, tail.ref, g.heap)

(* The tree with one element replaced: the path to its leaf is cloned, if it changes. *)
RECURSIVE Updated(_, _, _, _, _)
Updated(heap, ref, level, index, x) ==
  LET i == Slot(index, level)
      child == Updated(heap, KidsOf(heap, ref)[i], level - 1, index, x)
      same == [ref |-> ref, heap |-> heap]
  IN  IF level = 0
        THEN IF ItemsOf(heap, ref)[Place(index)] = x THEN same
             ELSE Array(heap, With(ItemsOf(heap, ref), Place(index), x))
        ELSE IF child.ref = KidsOf(heap, ref)[i] THEN same
             ELSE Inner(child.heap, With(KidsOf(heap, ref), i, child.ref))

VecAssoc(heap, v, index, x) ==
  LET tail == Updated(heap, v.tail, 0, index, x)
      root == Updated(heap, v.root, v.level, index, x)
  IN  IF index >= TailOff(v.count) THEN Made(v.count, v.level, v.root, tail.ref, tail.heap)
      ELSE Made(v.count, v.level, root.ref, v.tail, root.heap)

(* Building from a list: leaves, then groups of B, level by level, until one is left. *)
AllocAll(heap, cells) == [refs |-> [i \in 1 .. Len(cells) |-> At(Len(heap) + i)], heap |-> heap \o cells]

RECURSIVE Levels(_, _, _)
Levels(heap, refs, level) ==
  LET groups == [g \in 1 .. (Len(refs) + B - 1) \div B |->
                   Cell("inner", [i \in {i \in 0 .. B - 1 : (g - 1) * B + i < Len(refs)} |->
                                    refs[(g - 1) * B + i + 1]], <<>>)]
      made == AllocAll(heap, groups)
  IN  IF Len(refs) = 1 THEN [ref |-> refs[1], level |-> level, heap |-> heap]
      ELSE Levels(made.heap, made.refs, level + 1)

BuildFromList(heap, s) ==
  LET off == TailOff(Len(s))
      leaves == AllocAll(heap, [l \in 1 .. off \div B |->
                                  Cell("array", <<>>, SubSeq(s, (l - 1) * B + 1, l * B))])
      tree == Levels(leaves.heap, leaves.refs, 0)
      small == Array(heap, s)
      tail == Array(tree.heap, SubSeq(s, off + 1, Len(s)))
  IN  IF Len(s) <= B THEN Made(Len(s), 0, Nil, small.ref, small.heap)
      ELSE Made(Len(s), tree.level, tree.ref, tail.ref, tail.heap)

\* Pop slices the tail, or rebuilds the vector without its last element.
VecPop(heap, v) ==
  LET items == ItemsOf(heap, v.tail)
      tail == Array(heap, SubSeq(items, 1, Len(items) - 1))
  IN  IF v.count > 1 /\ Len(items) > 1 THEN Made(v.count - 1, v.level, v.root, tail.ref, tail.heap)
      ELSE BuildFromList(heap, SubSeq(VecContents(heap, v), 1, v.count - 1))

-----------------------------------------------------------------------------
(* Transients, whose tail always has B places. *)

\* Mutant: the transient takes over the tail of the vector.
ShareTail(heap, v) == [v |-> v, heap |-> heap]

TransientOf(heap, v) ==
  LET old == ItemsOf(heap, v.tail)
      tail == Array(heap, [i \in 1 .. B |-> IF i <= Len(old) THEN old[i] ELSE Unset])
  IN  Made(v.count, v.level, v.root, tail.ref, tail.heap)

\* Mutant: a full tail goes into the tree and stays the tail.
ConjBangKeepsTail(heap, v, x) ==
  LET g == Grown(heap, v, v.tail)
  IN  IF v.count > 0 /\ v.count % B = 0
        THEN Made(v.count + 1, g.level, g.ref, v.tail, SetItem(g.heap, v.tail, v.count, x))
        ELSE Made(v.count + 1, v.level, v.root, v.tail, SetItem(heap, v.tail, v.count, x))

\* A full tail goes into the tree as it is, and a new array takes its place.
ConjBang(heap, v, x) ==
  LET tail == Array(heap, [i \in 1 .. B |-> Unset])
      g == Grown(tail.heap, v, v.tail)
  IN  IF v.count > 0 /\ v.count % B = 0
        THEN Made(v.count + 1, g.level, g.ref, tail.ref, SetItem(g.heap, tail.ref, v.count, x))
        ELSE Made(v.count + 1, v.level, v.root, v.tail, SetItem(heap, v.tail, v.count, x))

\* The tail is written in place, the tree is cloned.
AssocBang(heap, v, index, x) ==
  LET root == Updated(heap, v.root, v.level, index, x)
  IN  IF index >= TailOff(v.count) THEN [v |-> v, heap |-> SetItem(heap, v.tail, index, x)]
      ELSE Made(v.count, v.level, root.ref, v.tail, root.heap)

PersistentOf(heap, v) ==
  LET tail == Array(heap, SubSeq(ItemsOf(heap, v.tail), 1, TailLen(v.count)))
  IN  Made(v.count, v.level, v.root, tail.ref, tail.heap)
=============================================================================
