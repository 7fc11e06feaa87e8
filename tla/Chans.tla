------------------------------- MODULE Chans -------------------------------
(***************************************************************************)
(* The channels between the threads that core-async.lisp builds networks   *)
(* of.  All have fixed buffers.  A call of >!! or <!! is a sequence of     *)
(* steps, as in Channel: it runs under the channel's lock until it answers *)
(* or sleeps, and goes on when it has been woken.  A thread makes one call *)
(* at a time, and so has one cell at a time; a cell it has turned its back *)
(* on is Abandoned.                                                        *)
(*                                                                         *)
(* condition-wait is taken to return only when notified.  It may return    *)
(* without, and then a take loses values (Channel, AcceptedNotLost): what  *)
(* a network delivers is delivered as long as that does not happen.        *)
(*                                                                         *)
(* The threads are named <<role, number>>, and so are the channels.        *)
(***************************************************************************)
EXTENDS Naturals, Sequences, FiniteSets, FiniteSetsExt, SequencesExt

CONSTANTS Nil,         \* the NIL that a take answers at the end of a channel
          Unresolved,  \* the content of a cell nobody has resolved
          Abandoned

VARIABLES setup,    \* the network and its inputs, fixed (see Network)
          ch,       \* by channel: capacity, buffer, pending takes, sleepers
          call,     \* by thread: "none", "put" or "take", the call it is in
          cell,     \* by thread: what its cell in pending-takes holds
          pc,       \* by thread: where its body is
          loc,      \* by thread: what its body holds
          todo,     \* by thread: what its body has yet to go through
          got       \* by thread: the values it has been given to keep

chanVars == <<ch, call, cell>>
bodyVars == <<pc, loc, todo, got>>

NewChan(n) == [cap |-> n, buf |-> << >>, closed |-> FALSE, takes |-> << >>,
               notEmpty |-> << >>, notFull |-> << >>]

\* What may be left of the sleepers s after n notifications: any n have been woken,
\* or the n that slept first.
Woken(s, n) ==
  LET left == IF n < Len(s) THEN Len(s) - n ELSE 0
      Those(I) == LET at == SetToSortSeq(I, <) IN [i \in DOMAIN at |-> s[at[i]]]
  IN  IF setup.inOrder \/ left = 0 THEN {SubSeq(s, Len(s) - left + 1, Len(s))}
                                   ELSE {Those(I) : I \in kSubset(left, DOMAIN s)}

Leave(p, takes) == [i \in DOMAIN takes |-> IF takes[i] = p THEN Abandoned ELSE takes[i]]

Resolved(who, v) == IF who = Abandoned THEN cell ELSE [cell EXCEPT ![who] = v]

-----------------------------------------------------------------------------
(* >!! *)

\* Thread p begins or goes on with its call op on a channel, and is not one of the sleepers.
AtCall(p, op, sleepers) == call[p] = "none" \/ (call[p] = op /\ ~Contains(sleepers, p))

HandOver(c, v) ==
  /\ ch[c].takes # << >>
  /\ \E left \in Woken(ch[c].notEmpty, 1) :
       ch' = [ch EXCEPT ![c].takes = Tail(@), ![c].notEmpty = left]
  /\ cell' = Resolved(Head(ch[c].takes), v)

AddToBuffer(c, v) ==
  /\ ch[c].takes = << >> /\ Len(ch[c].buf) < ch[c].cap
  /\ \E left \in Woken(ch[c].notEmpty, 1) :
       ch' = [ch EXCEPT ![c].buf = Append(@, v), ![c].notEmpty = left]
  /\ UNCHANGED cell

PutAnswers(p, c, v, accepted) ==
  /\ AtCall(p, "put", ch[c].notFull)
  /\ IF ch[c].closed THEN ~accepted /\ UNCHANGED <<ch, cell>>
                     ELSE accepted /\ (HandOver(c, v) \/ AddToBuffer(c, v))
  /\ call' = [call EXCEPT ![p] = "none"]

PutBlocks(p, c) ==
  /\ AtCall(p, "put", ch[c].notFull)
  /\ ~ch[c].closed /\ ch[c].takes = << >> /\ Len(ch[c].buf) >= ch[c].cap
  /\ ch' = [ch EXCEPT ![c].notFull = Append(@, p)]
  /\ call' = [call EXCEPT ![p] = "put"]
  /\ UNCHANGED cell

-----------------------------------------------------------------------------
(* <!! *)

FromCell(p, v) ==
  /\ call[p] = "take" /\ cell[p] # Unresolved
  /\ v = cell[p]
  /\ cell' = [cell EXCEPT ![p] = Unresolved]
  /\ UNCHANGED ch

\* The top of the loop, which a woken call reaches with a cell nobody resolved.
Looks(p) == cell[p] = Unresolved

FromBuffer(p, c, v) ==
  /\ Looks(p) /\ ch[c].buf # << >>
  /\ v = Head(ch[c].buf)
  /\ \E left \in Woken(ch[c].notFull, 1) :
       ch' = [ch EXCEPT ![c].buf = Tail(@), ![c].notFull = left, ![c].takes = Leave(p, @)]
  /\ UNCHANGED cell

FromClosed(p, c, v) ==
  /\ Looks(p) /\ ch[c].buf = << >> /\ ch[c].closed
  /\ v = Nil
  /\ ch' = [ch EXCEPT ![c].takes = Leave(p, @)]
  /\ UNCHANGED cell

\* What a take may answer now.
Answers(p, c) == {cell[p], Nil} \cup Range(ch[c].buf)

TakeAnswers(p, c, v) ==
  /\ AtCall(p, "take", ch[c].notEmpty)
  /\ FromCell(p, v) \/ FromBuffer(p, c, v) \/ FromClosed(p, c, v)
  /\ call' = [call EXCEPT ![p] = "none"]

TakeBlocks(p, c) ==
  /\ AtCall(p, "take", ch[c].notEmpty)
  /\ Looks(p) /\ ch[c].buf = << >> /\ ~ch[c].closed
  /\ ch' = [ch EXCEPT ![c].takes = Append(Leave(p, @), p), ![c].notEmpty = Append(@, p)]
  /\ call' = [call EXCEPT ![p] = "take"]
  /\ UNCHANGED cell

-----------------------------------------------------------------------------
(* close!, offer! and poll! *)

\* close! wakes as many takers as there are pending takes, and no put: a put that
\* sleeps on a full buffer is not a pending put.
Close(c) ==
  /\ IF ch[c].closed
       THEN UNCHANGED ch
       ELSE \E left \in Woken(ch[c].notEmpty, Len(ch[c].takes)) :
              ch' = [ch EXCEPT ![c].closed = TRUE, ![c].notEmpty = left]
  /\ UNCHANGED <<call, cell>>

CanOffer(c) == ~ch[c].closed /\ (ch[c].takes # << >> \/ Len(ch[c].buf) < ch[c].cap)
OfferAccepted(c, v) == CanOffer(c) /\ (HandOver(c, v) \/ AddToBuffer(c, v)) /\ UNCHANGED call

\* poll! frees a slot and wakes nobody.
PollAnswers(c, v) ==
  /\ ch[c].buf # << >> /\ v = Head(ch[c].buf)
  /\ ch' = [ch EXCEPT ![c].buf = Tail(@)]
  /\ UNCHANGED <<call, cell>>
=============================================================================
