------------------------------- MODULE HamtOps -------------------------------
(***************************************************************************)
(* collection-primitives.lisp: hash array mapped tries, the storage of     *)
(* dictionaries and sets.  A hamt-node is a cell with the tag "node", a    *)
(* hamt-transient-node one that is tagged with its token.  A bitmap and    *)
(* its compressed array are the function from the chunks that are present  *)
(* to the children; a hash is the sequence of its chunks, and a level      *)
(* stands for five bits of shift.                                          *)
(***************************************************************************)
EXTENDS Heap, FiniteSets

CONSTANTS Hash   \* sxhash: key -> the chunks of its hash

Leaf(k, v) == [kind |-> "leaf", key |-> k, val |-> v]
Collision(leaves) == [kind |-> "collision", leaves |-> leaves]
Chunk(k, level) == Hash[k][level + 1]
KeysOf(leaves) == {leaves[i].key : i \in DOMAIN leaves}
NewNode(heap, kids) == Alloc(heap, Cell("node", kids, <<>>))

RECURSIVE MergeLeaves(_, _, _, _)
MergeLeaves(heap, level, l1, l2) ==
  LET c1 == Chunk(l1.key, level)
      c2 == Chunk(l2.key, level)
      deeper == MergeLeaves(heap, level + 1, l1, l2)
  IN  IF Hash[l1.key] = Hash[l2.key] THEN [ref |-> Collision(<<l1, l2>>), heap |-> heap]
      ELSE IF c1 = c2 THEN NewNode(deeper.heap, With(<<>>, c1, deeper.ref))
      ELSE NewNode(heap, With(With(<<>>, c1, l1), c2, l2))

(* find-node and find-node-transient: the values found, at most one.  The first does *)
(* not know transient nodes.                                                         *)
RECURSIVE FindNode(_, _, _, _, _)
FindNode(heap, ref, level, k, transients) ==
  CASE ref.kind = "nil" -> {}
    [] ref.kind = "leaf" -> {l.val : l \in {l \in {ref} : l.key = k}}
    [] ref.kind = "collision" -> {l.val : l \in {l \in Range(ref.leaves) : l.key = k}}
    [] ref.kind = "at" ->
         IF /\ heap[ref.at].tag = "node" \/ transients
            /\ Chunk(k, level) \in DOMAIN KidsOf(heap, ref)
           THEN FindNode(heap, KidsOf(heap, ref)[Chunk(k, level)], level + 1, k, transients)
           ELSE {}

(* An empty place or a leaf takes a key, in assoc-node as in assoc-node!. *)
AssocLeaf(heap, ref, level, k, v) ==
  LET m == MergeLeaves(heap, level, ref, Leaf(k, v))
  IN  IF ref.kind = "nil" THEN [ref |-> Leaf(k, v), added |-> TRUE, heap |-> heap]
      ELSE IF ref.key = k THEN [ref |-> Leaf(k, v), added |-> FALSE, heap |-> heap]
      ELSE [ref |-> m.ref, added |-> TRUE, heap |-> m.heap]

\* A bucket takes every key that comes its way, of whatever hash.
AssocCollision(heap, ref, k, v) ==
  IF k \in KeysOf(ref.leaves)
    THEN [ref |-> Collision([i \in DOMAIN ref.leaves |->
                               IF ref.leaves[i].key = k THEN Leaf(k, v) ELSE ref.leaves[i]]),
          added |-> FALSE, heap |-> heap]
    ELSE [ref |-> Collision(<<Leaf(k, v)>> \o ref.leaves), added |-> TRUE, heap |-> heap]

RECURSIVE AssocNode(_, _, _, _, _)
AssocNode(heap, ref, level, k, v) ==
  CASE ref.kind \in {"nil", "leaf"} -> AssocLeaf(heap, ref, level, k, v)
    [] ref.kind = "collision" -> AssocCollision(heap, ref, k, v)
    [] ref.kind = "at" ->
         LET kids == KidsOf(heap, ref)
             c == Chunk(k, level)
             r == AssocNode(heap, IF c \in DOMAIN kids THEN kids[c] ELSE Nil, level + 1, k, v)
             n == NewNode(r.heap, With(kids, c, r.ref))
         IN  [ref |-> n.ref, added |-> r.added, heap |-> n.heap]

DissocLeaf(heap, ref, k) ==
  IF ref.kind = "leaf" /\ ref.key = k THEN [ref |-> Nil, removed |-> TRUE, heap |-> heap]
  ELSE [ref |-> ref, removed |-> FALSE, heap |-> heap]

\* A bucket of two shrinks to a leaf.
DissocCollision(heap, ref, k) ==
  LET rest == SelectSeq(ref.leaves, LAMBDA l : l.key # k)
  IN  IF k \notin KeysOf(ref.leaves) THEN [ref |-> ref, removed |-> FALSE, heap |-> heap]
      ELSE [ref |-> IF Len(rest) = 1 THEN rest[1] ELSE Collision(rest), removed |-> TRUE, heap |-> heap]

\* A node that has lost a child: nothing, the one leaf that is left, or a smaller node.
Shrunk(heap, kids) ==
  IF DOMAIN kids = {} THEN [ref |-> Nil, heap |-> heap]
  ELSE IF Cardinality(DOMAIN kids) = 1 /\ \A c \in DOMAIN kids : kids[c].kind = "leaf"
    THEN [ref |-> kids[CHOOSE c \in DOMAIN kids : TRUE], heap |-> heap]
  ELSE NewNode(heap, kids)

RECURSIVE DissocNode(_, _, _, _)
DissocNode(heap, ref, level, k) ==
  CASE ref.kind \in {"nil", "leaf"} -> DissocLeaf(heap, ref, k)
    [] ref.kind = "collision" -> DissocCollision(heap, ref, k)
    [] ref.kind = "at" ->
         LET kids == KidsOf(heap, ref)
             c == Chunk(k, level)
             r == DissocNode(heap, kids[c], level + 1, k)
             n == IF r.ref = Nil THEN Shrunk(r.heap, Without(kids, c))
                  ELSE NewNode(r.heap, With(kids, c, r.ref))
         IN  IF c \notin DOMAIN kids \/ ~r.removed THEN [ref |-> ref, removed |-> FALSE, heap |-> heap]
             ELSE [ref |-> n.ref, removed |-> TRUE, heap |-> n.heap]

-----------------------------------------------------------------------------
(* Transient nodes. *)

\* assoc-node! has no case for a bucket, and ensure-editable-hamt-node none for a
\* transient node of another owner: both end in a type error, before any write.
RECURSIVE CanEdit(_, _, _, _, _, _)
CanEdit(heap, ref, level, k, token, bucketOk) ==
  /\ ref.kind = "collision" => bucketOk
  /\ ref.kind = "at" =>
       /\ heap[ref.at].tag \in {"node", token}
       /\ Chunk(k, level) \in DOMAIN KidsOf(heap, ref) =>
            CanEdit(heap, KidsOf(heap, ref)[Chunk(k, level)], level + 1, k, token, bucketOk)

\* The node itself if it carries the token, or a copy that does.
EnsureEditable(heap, ref, token) ==
  IF heap[ref.at].tag = token THEN [ref |-> ref, heap |-> heap]
  ELSE Alloc(heap, Cell(token, KidsOf(heap, ref), <<>>))

SetKids(heap, ref, kids) == [heap EXCEPT ![ref.at].kids = kids]

RECURSIVE AssocNodeBang(_, _, _, _, _, _)
AssocNodeBang(heap, ref, level, k, v, token) ==
  IF ref.kind \in {"nil", "leaf"} THEN AssocLeaf(heap, ref, level, k, v)
  ELSE LET e == EnsureEditable(heap, ref, token)
           kids == KidsOf(e.heap, e.ref)
           c == Chunk(k, level)
           r == AssocNodeBang(e.heap, IF c \in DOMAIN kids THEN kids[c] ELSE Nil, level + 1, k, v, token)
       IN  [ref |-> e.ref, added |-> r.added, heap |-> SetKids(r.heap, e.ref, With(kids, c, r.ref))]

RECURSIVE DissocNodeBang(_, _, _, _, _)
DissocNodeBang(heap, ref, level, k, token) ==
  CASE ref.kind \in {"nil", "leaf"} -> DissocLeaf(heap, ref, k)
    [] ref.kind = "collision" -> DissocCollision(heap, ref, k)
    [] ref.kind = "at" ->
         LET e == EnsureEditable(heap, ref, token)
             kids == KidsOf(e.heap, e.ref)
             c == Chunk(k, level)
             r == DissocNodeBang(e.heap, kids[c], level + 1, k, token)
             left == IF r.ref = Nil THEN Without(kids, c) ELSE With(kids, c, r.ref)
         IN  IF c \notin DOMAIN kids THEN [ref |-> e.ref, removed |-> FALSE, heap |-> e.heap]
             ELSE IF ~r.removed THEN [ref |-> e.ref, removed |-> FALSE, heap |-> r.heap]
             ELSE IF DOMAIN left = {} THEN [ref |-> Nil, removed |-> TRUE, heap |-> r.heap]
             ELSE [ref |-> e.ref, removed |-> TRUE, heap |-> SetKids(r.heap, e.ref, left)]

(* A copy of the transient nodes, down to the first node that is not one. *)
RECURSIVE FreezeHamtNode(_, _)
FreezeHamtNode(heap, ref) ==
  LET kids == KidsOf(heap, ref)
      order == SetToSeq(DOMAIN kids)
      done == FoldLeft(LAMBDA acc, c : LET f == FreezeHamtNode(acc.heap, kids[c])
                                       IN  [heap |-> f.heap, kids |-> With(acc.kids, c, f.ref)],
                       [heap |-> heap, kids |-> <<>>], order)
  IN  IF ref.kind # "at" THEN [ref |-> ref, heap |-> heap]
      ELSE IF heap[ref.at].tag = "node" THEN [ref |-> ref, heap |-> heap]
      ELSE NewNode(done.heap, done.kids)

(* hamt-bulk-load: assoc-node! of one pair after the other, with a token of their own. *)
RECURSIVE LoadPairs(_, _, _, _)
LoadPairs(heap, ref, count, pairs) ==
  IF pairs = <<>> THEN FreezeHamtNode(heap, ref) @@ [ok |-> TRUE, count |-> count]
  ELSE IF ~CanEdit(heap, ref, 0, pairs[1][1], "batch", FALSE) THEN [ok |-> FALSE]
  ELSE LET r == AssocNodeBang(heap, ref, 0, pairs[1][1], pairs[1][2], "batch")
       IN  LoadPairs(r.heap, r.ref, count + (IF r.added THEN 1 ELSE 0), Tail(pairs))
BulkLoad(heap, pairs) == LoadPairs(heap, Nil, 0, pairs)
=============================================================================
