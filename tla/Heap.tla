-------------------------------- MODULE Heap --------------------------------
(***************************************************************************)
(* The objects of collections that the code could write in place: the      *)
(* nodes of dictionaries, the nodes and the arrays of vectors.  The host's *)
(* heap is a sequence of cells and an address a position in it; a cell has *)
(* a tag, children and, if it is an array of elements, items.  Anything    *)
(* else that a child can be (an empty place, a leaf, a bucket of leaves)   *)
(* is immutable and a value.                                               *)
(***************************************************************************)
EXTENDS Integers, Sequences, SequencesExt

CONSTANT B   \* the branch factor: 32 in the code

At(a) == [kind |-> "at", at |-> a]
Nil == [kind |-> "nil"]
Cell(tag, kids, items) == [tag |-> tag, kids |-> kids, items |-> items]

Alloc(heap, c) == [ref |-> At(Len(heap) + 1), heap |-> Append(heap, c)]
KidsOf(heap, ref) == heap[ref.at].kids
With(kids, i, kid) == i :> kid @@ kids
Without(kids, i) == [j \in DOMAIN kids \ {i} |-> kids[j]]

(* The addresses that refs lead to, in the order of a walk. *)
RECURSIVE Walk(_, _, _)
Walk(heap, refs, seen) ==
  IF refs = <<>> THEN seen
  ELSE IF refs[1].kind # "at" \/ Contains(seen, refs[1].at) THEN Walk(heap, Tail(refs), seen)
  ELSE LET kids == KidsOf(heap, refs[1])
           next == [i \in 1 .. B |-> IF i - 1 \in DOMAIN kids THEN kids[i - 1] ELSE Nil]
       IN  Walk(heap, next \o Tail(refs), Append(seen, refs[1].at))

(* The collector: what nothing leads to is gone, and the rest gets new addresses. *)
Moved(seen, ref) == IF ref.kind = "at" THEN At(CHOOSE i \in DOMAIN seen : seen[i] = ref.at) ELSE ref
Collected(heap, seen) ==
  FoldLeft(LAMBDA h, a : Append(h, [heap[a] EXCEPT !.kids = <<>> @@ [j \in DOMAIN @ |-> Moved(seen, @[j])]]),
           <<>>, seen)
=============================================================================
