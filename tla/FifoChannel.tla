---------------------------- MODULE FifoChannel ----------------------------
(***************************************************************************)
(* What a channel promises of its values, whatever its buffer: they leave  *)
(* in the order in which they entered, never more than Room are held, and  *)
(* none enters after the channel has been closed.                          *)
(***************************************************************************)
EXTENDS Naturals, Sequences

CONSTANT Values

VARIABLES q,         \* the values held, oldest first
          out,       \* the values that have left, in order
          closed,
          room,      \* how many values may be held: fixed
          evicts     \* TRUE: a value entering a full channel may push out the oldest

Init == /\ q = << >> /\ out = << >> /\ closed = FALSE
        /\ room \in Nat /\ evicts \in BOOLEAN

Enter(v) == ~closed /\ Len(q) < room /\ q' = Append(q, v) /\ UNCHANGED <<out, closed>>

PushOut(v) == /\ evicts /\ ~closed /\ Len(q) = room
              /\ q' = Append(Tail(q), v)
              /\ UNCHANGED <<out, closed>>

Leave == /\ q # << >>
         /\ out' = Append(out, Head(q)) /\ q' = Tail(q)
         /\ UNCHANGED closed

\* A value that goes straight to a waiting taker overtakes nothing.
Pass(v) == ~closed /\ q = << >> /\ out' = Append(out, v) /\ UNCHANGED <<q, closed>>

Close == closed' = TRUE /\ UNCHANGED <<q, out>>

Next == /\ (\E v \in Values : Enter(v) \/ PushOut(v) \/ Pass(v)) \/ Leave \/ Close
        /\ UNCHANGED <<room, evicts>>

Spec == Init /\ [][Next]_<<q, out, closed, room, evicts>>
=============================================================================
