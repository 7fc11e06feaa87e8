----------------------------- MODULE DequeSpec -----------------------------
(* What a worker-deque promises: a sequence of items, a stack at its end    *)
(* and a queue at its front.                                                *)
EXTENDS Integers, Sequences

CONSTANTS Items, NIL

VARIABLES items, out

vars == <<items, out>>

Init == items = <<>> /\ out = NIL

PushTail(x) == items' = Append(items, x) /\ out' = NIL

PopTail == \/ items = <<>> /\ out' = NIL /\ UNCHANGED items
           \/ /\ items # <<>>
              /\ out' = items[Len(items)]
              /\ items' = SubSeq(items, 1, Len(items) - 1)

StealHead == \/ items = <<>> /\ out' = NIL /\ UNCHANGED items
             \/ items # <<>> /\ out' = Head(items) /\ items' = Tail(items)

Next == (\E x \in Items : PushTail(x)) \/ PopTail \/ StealHead

Spec == Init /\ [][Next]_vars
=============================================================================
