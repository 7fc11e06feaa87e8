----------------------------- MODULE MCChannel -----------------------------
(***************************************************************************)
(* Instances of Channel: a crowd of two putters, two takers and a thread   *)
(* that polls and closes, on each kind of buffer; pairs of one putter and  *)
(* one taker; and two putters with one taker.                              *)
(***************************************************************************)
EXTENDS Channel

CONSTANTS p1, p2, t1, t2, o, v1, v2, v3, v4

Crowd(kind, capacity, values, n) ==
  [kind |-> kind, capacity |-> capacity, values |-> values,
   putters |-> {p1, p2}, takers |-> {t1, t2}, pollers |-> {o}, closers |-> {o},
   strays |-> n]

PairOf(kind, capacity, pollers, n) ==
  [kind |-> kind, capacity |-> capacity, values |-> {v1, v2, v3, v4},
   putters |-> {p1}, takers |-> {t1}, pollers |-> pollers, closers |-> {o},
   strays |-> n]

AllSetups == {Crowd("fixed", 1, {v1, v2, v3, v4}, 0), Crowd("unbuffered", 0, {v1, v2, v3}, 0),
              Crowd("sliding", 2, {v1, v2, v3}, 1), Crowd("dropping", 2, {v1, v2, v3}, 1),
              PairOf("fixed", 1, {}, 2), PairOf("unbuffered", 0, {o}, 2)}

TwoPutters == {[kind |-> "fixed", capacity |-> 1, values |-> {v1, v2, v3},
                putters |-> {p1, p2}, takers |-> {t1}, pollers |-> {}, closers |-> {},
                strays |-> 0]}
=============================================================================
