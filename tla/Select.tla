------------------------------- MODULE Select -------------------------------
(***************************************************************************)
(* alts!! and timeout.  alts!! goes round its operations with poll! and    *)
(* offer! until one of them succeeds; between two tries other threads run. *)
(* A round takes the operations in random order, or in the order given.    *)
(***************************************************************************)
EXTENDS Chans

\* The operations of the call, [op : {"take", "put"}, ch, val].
Ops == setup.ops

\* The operations that may be tried next.
Candidates(p) == IF setup.priority THEN {1} ELSE DOMAIN todo[p]

\* alts!! returns r; the caller calls it again with the same operations.
AltsReturns(p, r) ==
  /\ got' = [got EXCEPT ![p] = Append(@, r)]
  /\ todo' = [todo EXCEPT ![p] = Ops]
  /\ pc' = [pc EXCEPT ![p] = "first"]
  /\ UNCHANGED loc

\* Mutant: a round stops at a channel that is closed.
AltsTryStops(p, i) ==
  LET o == todo[p][i] IN
  IF o.op = "put"
    THEN \/ OfferAccepted(o.ch, o.val) /\ AltsReturns(p, [ch |-> o.ch, val |-> o.val])
         \/ ~CanOffer(o.ch) /\ todo' = [todo EXCEPT ![p] = RemoveAt(@, i)] /\ UNCHANGED <<pc, loc, got, chanVars>>
    ELSE \/ \E v \in Range(ch[o.ch].buf) : PollAnswers(o.ch, v) /\ AltsReturns(p, [ch |-> o.ch, val |-> v])
         \/ /\ ch[o.ch].buf = << >>
            /\ todo' = [todo EXCEPT ![p] = IF ch[o.ch].closed THEN << >> ELSE RemoveAt(@, i)]
            /\ UNCHANGED <<pc, loc, got, chanVars>>

\* One operation of a round.  poll! of a closed and empty channel answers no value, as that
\* of an open one does.
AltsTry(p, i) ==
  LET o == todo[p][i] IN
  IF o.op = "put"
    THEN \/ OfferAccepted(o.ch, o.val) /\ AltsReturns(p, [ch |-> o.ch, val |-> o.val])
         \/ ~CanOffer(o.ch) /\ todo' = [todo EXCEPT ![p] = RemoveAt(@, i)] /\ UNCHANGED <<pc, loc, got, chanVars>>
    ELSE \/ \E v \in Range(ch[o.ch].buf) : PollAnswers(o.ch, v) /\ AltsReturns(p, [ch |-> o.ch, val |-> v])
         \/ /\ ch[o.ch].buf = << >>
            /\ todo' = [todo EXCEPT ![p] = RemoveAt(@, i)]
            /\ UNCHANGED <<pc, loc, got, chanVars>>

\* The end of a round: with :default the first is the only one.
AltsRound(p) ==
  /\ todo[p] = << >>
  /\ IF setup.default /\ pc[p] = "first"
       THEN AltsReturns(p, [ch |-> Nil, val |-> Nil])
       ELSE /\ todo' = [todo EXCEPT ![p] = Ops]
            /\ pc' = [pc EXCEPT ![p] = "again"]
            /\ UNCHANGED <<loc, got>>
  /\ UNCHANGED chanVars

Alts(p) == /\ Len(got[p]) < setup.calls
           /\ (todo[p] # << >> /\ \E i \in Candidates(p) : AltsTry(p, i)) \/ AltsRound(p)

\* The thread of timeout, whose sleep may end at any time.
Timeout(p) ==
  /\ pc[p] = "sleep"
  /\ Close(<<"timeout", 1>>)
  /\ pc' = [pc EXCEPT ![p] = "done"]
  /\ UNCHANGED <<loc, todo, got>>

SelectStep(p) == (p[1] = "alts" /\ Alts(p)) \/ (p[1] = "timer" /\ Timeout(p))
=============================================================================
