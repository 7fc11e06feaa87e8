------------------------------- MODULE Deque -------------------------------
(***************************************************************************)
(* The worker-deque of src/src/mutable.lisp: a circular buffer that its    *)
(* owner uses as a stack at the tail and thieves as a queue at the head,   *)
(* doubled before it is full.  Every operation runs under the deque's      *)
(* lock and is one step.  It implements the sequence of DequeSpec.         *)
(***************************************************************************)
EXTENDS Integers, Sequences

CONSTANTS Items,     \* what is pushed
          Capacity,  \* the initial length of data (64 in the code)
          MaxCapacity, \* bound: no push that would grow the buffer beyond it
          NIL

ASSUME DequeAssumption == /\ Capacity \in Nat \ {0, 1}
                          /\ MaxCapacity \in Nat
                          /\ NIL \notin Items

VARIABLES data,      \* the buffer, indexed from 0
          head, tail,
          out        \* what the last operation returned, NIL when it was empty

vars == <<data, head, tail, out>>

Cap == Len(data)
At(i) == data[i + 1]              \* (aref data i)

Count == LET d == tail - head IN IF d < 0 THEN d + Cap ELSE d

Init == /\ data = [i \in 1..Capacity |-> NIL]
        /\ head = 0 /\ tail = 0
        /\ out = NIL

(* %deque-grow: the elements from the head on, moved to index 0. *)
Grown == [i \in 1..(2 * Cap) |-> IF i <= Count THEN At((head + i - 1) % Cap) ELSE NIL]

(* Mutant: the buffer grows when it is full. *)
NeedsGrowthLate == Count >= Cap

NeedsGrowth == Count >= Cap - 1

PushTail(x) ==
  /\ NeedsGrowth => 2 * Cap <= MaxCapacity
  /\ LET d == IF NeedsGrowth THEN Grown ELSE data
         t == IF NeedsGrowth THEN Count ELSE tail
     IN  /\ data' = [d EXCEPT ![t + 1] = x]
         /\ head' = IF NeedsGrowth THEN 0 ELSE head
         /\ tail' = (t + 1) % Len(d)
  /\ out' = NIL

PopTail ==
  \/ /\ head = tail
     /\ out' = NIL
     /\ UNCHANGED <<data, head, tail>>
  \/ /\ head # tail
     /\ LET t == (tail - 1) % Cap
        IN  /\ out' = At(t)
            /\ data' = [data EXCEPT ![t + 1] = NIL]
            /\ tail' = t
     /\ UNCHANGED head

StealHead ==
  \/ /\ head = tail
     /\ out' = NIL
     /\ UNCHANGED <<data, head, tail>>
  \/ /\ head # tail
     /\ out' = At(head)
     /\ data' = [data EXCEPT ![head + 1] = NIL]
     /\ head' = (head + 1) % Cap
     /\ UNCHANGED tail

Next == (\E x \in Items : PushTail(x)) \/ PopTail \/ StealHead

Spec == Init /\ [][Next]_vars

-----------------------------------------------------------------------------
(* Properties. *)

(* The window, read from the head, is a sequence that behaves as one. *)
Contents == [i \in 1..Count |-> At((head + i - 1) % Cap)]

Sequence == INSTANCE DequeSpec WITH items <- Contents
SequenceDeque == Sequence!Spec
=============================================================================
