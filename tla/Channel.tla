------------------------------ MODULE Channel ------------------------------
(***************************************************************************)
(* One channel of core-async.lisp and the threads that call >!!, <!!,      *)
(* offer!, poll! and close! on it.  Every call runs under the channel's    *)
(* lock except while it sleeps in condition-wait, so a step is a call, or  *)
(* the part of one that follows a wake-up, up to its return or its next    *)
(* sleep.  condition-notify wakes one sleeping thread, whichever; a woken  *)
(* thread may find that others have held the lock before it.  A thread may *)
(* also wake without a notification, as condition-wait permits (Stray).    *)
(*                                                                         *)
(* A put of >!! or offer! uses a value of its own, so that a value stands  *)
(* for the call that put it.  A cell (the cons a blocked call leaves in    *)
(* pending-puts or pending-takes) is named by its thread, and by Abandoned *)
(* once that thread does not look at it any more.                          *)
(***************************************************************************)
EXTENDS Naturals, Sequences, FiniteSets, FiniteSetsExt, SequencesExt

CONSTANTS Threads, Values,   \* each value is put at most once
          Filtered,          \* the values the transducer drops
          Setups,            \* the buffers, and who calls what (see SetupType)
          NoValue, Abandoned

(* A channel and its program: the arguments of chan, the values put, the    *)
(* threads by what they call (a thread may both poll and close), and how    *)
(* often each may wake without a notification.                              *)
SetupType == [kind : {"unbuffered", "fixed", "dropping", "sliding"}, capacity : Nat, values : SUBSET Values,
              putters : SUBSET Threads, takers : SUBSET Threads,
              pollers : SUBSET Threads, closers : SUBSET Threads, strays : Nat]

ASSUME ChannelAssumption ==
  /\ Setups \subseteq SetupType
  /\ \A s \in Setups : s.kind = "sliding" => s.capacity > 0
  /\ Filtered \subseteq Values
  /\ NoValue \notin Values /\ Abandoned \notin Threads

VARIABLES setup,         \* the channel and its program, fixed
          buf,           \* %ch-buf's data, oldest first
          closed,        \* %ch-closed
          pendingPuts,   \* %ch-pending-puts: [by, val]
          pendingTakes,  \* %ch-pending-takes: threads and Abandoned
          notEmpty,      \* the threads asleep on the condition variable not-empty
          notFull,       \* those asleep on not-full
          pc,            \* "idle", "putting" or "taking", by thread
          arg,           \* the value of a blocked >!!
          strays,        \* how often each thread has woken without a notification
          cell,          \* what the thread's cell was resolved with
          verdict,       \* what the put of a value has returned: history
          got,           \* the values that takes and polls have returned: history
          out            \* the values in the order in which they left: history

vars == <<setup, buf, closed, pendingPuts, pendingTakes, notEmpty, notFull, pc, arg,
          strays, cell, verdict, got, out>>

Kind == setup.kind
Capacity == setup.capacity
Buffered == Kind # "unbuffered"

Init == /\ setup \in Setups
        /\ buf = << >> /\ closed = FALSE
        /\ pendingPuts = << >> /\ pendingTakes = << >>
        /\ notEmpty = {} /\ notFull = {}
        /\ pc = [t \in Threads |-> "idle"]
        /\ arg = [t \in Threads |-> NoValue]
        /\ strays = [t \in Threads |-> 0]
        /\ cell = [t \in Threads |-> NoValue]
        /\ verdict = [v \in Values |-> "unsent"]
        /\ got = {} /\ out = << >>

-----------------------------------------------------------------------------
(* Condition variables and cells. *)

\* What may be left of the sleepers S after n calls of condition-notify.
Woken(S, n) == {S \ W : W \in kSubset(IF n < Cardinality(S) THEN n ELSE Cardinality(S), S)}

Resolved(who, v) == IF who = Abandoned THEN cell ELSE [cell EXCEPT ![who] = v]

\* The pending calls, once thread t has turned its back on its cell.
LeaveTake(t) == [i \in DOMAIN pendingTakes |->
                   IF pendingTakes[i] = t THEN Abandoned ELSE pendingTakes[i]]
LeavePut(t) == [i \in DOMAIN pendingPuts |->
                  IF pendingPuts[i].by = t THEN [pendingPuts[i] EXCEPT !.by = Abandoned]
                                           ELSE pendingPuts[i]]

-----------------------------------------------------------------------------
(* The buffer. *)

BufFull == Kind = "fixed" /\ Len(buf) >= Capacity

\* b after %apply-xf-or-add of v: the transducer, then the overflow policy.
Added(b, v) ==
  CASE v \in Filtered -> b
    [] v \notin Filtered /\ Kind = "dropping" /\ Len(b) >= Capacity -> b
    [] v \notin Filtered /\ Kind = "sliding" /\ Len(b) >= Capacity -> Append(Tail(b), v)
    [] OTHER -> Append(b, v)

-----------------------------------------------------------------------------
(* >!! *)

Returns(t) == pc' = [pc EXCEPT ![t] = "idle"]

PutReturns(t, v, answer) ==
  /\ Returns(t)
  /\ arg' = [arg EXCEPT ![t] = NoValue]
  /\ verdict' = [verdict EXCEPT ![v] = answer]

CallsPut(t, v) == t \in setup.putters /\ pc[t] = "idle" /\ v \in setup.values /\ verdict[v] = "unsent"

ResumesPut(t, v) == pc[t] = "putting" /\ t \notin notFull /\ arg[t] = v

\* Give v to the first pending taker.
HandOver(v) ==
  /\ pendingTakes # << >>
  /\ pendingTakes' = Tail(pendingTakes)
  /\ cell' = Resolved(Head(pendingTakes), v)
  /\ out' = Append(out, v)
  /\ notEmpty' \in Woken(notEmpty, 1)
  /\ UNCHANGED <<buf, closed, pendingPuts, notFull, got>>

\* Mutant: a putter that was woken does not look again whether there is room.
AddToBufferUnchecked(v) ==
  /\ Buffered /\ (~BufFull \/ \E t \in Threads : ResumesPut(t, v)) /\ pendingTakes = << >>
  /\ buf' = Added(buf, v)
  /\ notEmpty' \in Woken(notEmpty, 1)
  /\ UNCHANGED <<closed, pendingPuts, pendingTakes, notFull, cell, got, out>>

AddToBuffer(v) ==
  /\ Buffered /\ ~BufFull /\ pendingTakes = << >>
  /\ buf' = Added(buf, v)
  /\ notEmpty' \in Woken(notEmpty, 1)
  /\ UNCHANGED <<closed, pendingPuts, pendingTakes, notFull, cell, got, out>>

BlockOnFull(t, v) ==
  /\ BufFull /\ pendingTakes = << >>
  /\ notFull' = notFull \cup {t}
  /\ pc' = [pc EXCEPT ![t] = "putting"]
  /\ arg' = [arg EXCEPT ![t] = v]
  /\ verdict' = [verdict EXCEPT ![v] = "pending"]
  /\ UNCHANGED <<buf, closed, pendingPuts, pendingTakes, notEmpty, cell, got, out>>

PutBuffered(t, v) ==
  /\ Buffered
  /\ CallsPut(t, v) \/ ResumesPut(t, v)
  /\ \/ /\ closed
        /\ PutReturns(t, v, "nil")
        /\ UNCHANGED <<buf, closed, pendingPuts, pendingTakes, notEmpty, notFull, cell, got, out>>
     \/ ~closed /\ (HandOver(v) \/ AddToBuffer(v)) /\ PutReturns(t, v, "true")
     \/ ~closed /\ BlockOnFull(t, v)
  /\ UNCHANGED <<setup, strays>>

\* Mutant: a put registers without looking for a waiting taker.
PutUnbufferedIgnoresTakers(t, v) ==
  /\ ~Buffered
  /\ CallsPut(t, v) /\ ~closed
  /\ pendingPuts' = Append(pendingPuts, [by |-> t, val |-> v])
  /\ notFull' = notFull \cup {t}
  /\ pc' = [pc EXCEPT ![t] = "putting"]
  /\ arg' = [arg EXCEPT ![t] = v]
  /\ verdict' = [verdict EXCEPT ![v] = "pending"]
  /\ UNCHANGED <<setup, strays, buf, closed, pendingTakes, notEmpty, cell, got, out>>

\* The first part of an unbuffered put: refuse, hand over, or wait for a taker.
PutUnbuffered(t, v) ==
  /\ ~Buffered
  /\ CallsPut(t, v)
  /\ \/ /\ closed
        /\ PutReturns(t, v, "nil")
        /\ UNCHANGED <<buf, closed, pendingPuts, pendingTakes, notEmpty, notFull, cell, got, out>>
     \/ ~closed /\ HandOver(v) /\ PutReturns(t, v, "true")
     \/ /\ ~closed /\ pendingTakes = << >>
        /\ pendingPuts' = Append(pendingPuts, [by |-> t, val |-> v])
        /\ notFull' = notFull \cup {t}
        /\ pc' = [pc EXCEPT ![t] = "putting"]
        /\ arg' = [arg EXCEPT ![t] = v]
        /\ verdict' = [verdict EXCEPT ![v] = "pending"]
        /\ UNCHANGED <<buf, closed, pendingTakes, notEmpty, cell, got, out>>
  /\ UNCHANGED <<setup, strays>>

\* After a wake-up: the answer depends on closed alone, done-cell or not.
ResumePutUnbuffered(t, v) ==
  /\ ~Buffered
  /\ ResumesPut(t, v)
  /\ IF cell[t] # NoValue \/ closed
       THEN /\ PutReturns(t, v, IF closed THEN "nil" ELSE "true")
            /\ pendingPuts' = LeavePut(t)
            /\ cell' = [cell EXCEPT ![t] = NoValue]
            /\ UNCHANGED notFull
       ELSE /\ notFull' = notFull \cup {t}
            /\ UNCHANGED <<pc, arg, verdict, pendingPuts, cell>>
  /\ UNCHANGED <<setup, strays, buf, closed, pendingTakes, notEmpty, got, out>>

Put(t, v) == PutBuffered(t, v) \/ PutUnbuffered(t, v) \/ ResumePutUnbuffered(t, v)

-----------------------------------------------------------------------------
(* <!!, offer!, poll! and close! *)

CallsTake(t) == t \in setup.takers /\ pc[t] = "idle"
ResumesTake(t) == pc[t] = "taking" /\ t \notin notEmpty

\* Mutant: a take does not notify not-full.
FromBufferSilently(wakes) ==
  /\ buf # << >>
  /\ got' = got \cup {Head(buf)}
  /\ out' = Append(out, Head(buf))
  /\ buf' = Tail(buf)
  /\ UNCHANGED <<pendingPuts, cell, notFull>>

\* Take the oldest item of the buffer; a pending put, if any, moves up.
FromBuffer(wakes) ==
  /\ buf # << >>
  /\ got' = got \cup {Head(buf)}
  /\ out' = Append(out, Head(buf))
  /\ IF pendingPuts # << >>
       THEN /\ buf' = Added(Tail(buf), Head(pendingPuts).val)
            /\ pendingPuts' = Tail(pendingPuts)
            /\ cell' = Resolved(Head(pendingPuts).by, Head(pendingPuts).val)
            /\ notFull' \in Woken(notFull, wakes + 1)
       ELSE /\ buf' = Tail(buf)
            /\ notFull' \in Woken(notFull, wakes)
            /\ UNCHANGED <<pendingPuts, cell>>

\* Take the value of the first pending put.
FromPut ==
  /\ buf = << >> /\ pendingPuts # << >>
  /\ got' = got \cup {Head(pendingPuts).val}
  /\ out' = Append(out, Head(pendingPuts).val)
  /\ pendingPuts' = Tail(pendingPuts)
  /\ cell' = Resolved(Head(pendingPuts).by, Head(pendingPuts).val)
  /\ notFull' \in Woken(notFull, 1)
  /\ UNCHANGED buf

\* The loop of <!! from its top; a cell of an earlier round is abandoned.
TakeRound(t) ==
  \/ /\ FromBuffer(1) \/ FromPut
     /\ pendingTakes' = LeaveTake(t)
     /\ Returns(t)
     /\ UNCHANGED notEmpty
  \/ /\ buf = << >> /\ pendingPuts = << >> /\ closed
     /\ pendingTakes' = LeaveTake(t)
     /\ Returns(t)
     /\ UNCHANGED <<buf, pendingPuts, notEmpty, notFull, cell, got, out>>
  \/ /\ buf = << >> /\ pendingPuts = << >> /\ ~closed
     /\ pendingTakes' = Append(LeaveTake(t), t)
     /\ notEmpty' = notEmpty \cup {t}
     /\ pc' = [pc EXCEPT ![t] = "taking"]
     /\ UNCHANGED <<buf, pendingPuts, notFull, cell, got, out>>

\* Mutant: a woken taker does not look into its cell.
TakeIgnoresCell(t) ==
  /\ CallsTake(t) \/ ResumesTake(t)
  /\ TakeRound(t)
  /\ UNCHANGED <<setup, strays, closed, arg, verdict>>

Take(t) ==
  /\ \/ CallsTake(t) /\ TakeRound(t)
     \/ ResumesTake(t) /\ cell[t] = NoValue /\ TakeRound(t)
     \/ /\ ResumesTake(t) /\ cell[t] # NoValue
        /\ got' = got \cup {cell[t]}
        /\ cell' = [cell EXCEPT ![t] = NoValue]
        /\ Returns(t)
        /\ UNCHANGED <<buf, pendingPuts, pendingTakes, notEmpty, notFull, out>>
  /\ UNCHANGED <<setup, strays, closed, arg, verdict>>

\* Mutant: offer! forgets to return t after a direct handoff.
OfferReturnsNil(t, v) ==
  /\ CallsPut(t, v) /\ ~closed
  /\ HandOver(v) \/ AddToBuffer(v)
  /\ verdict' = [verdict EXCEPT ![v] = IF pendingTakes = << >> THEN "true" ELSE "nil"]
  /\ UNCHANGED <<setup, strays, pc, arg>>

Offer(t, v) ==
  /\ CallsPut(t, v)
  /\ \/ /\ closed \/ (pendingTakes = << >> /\ (BufFull \/ ~Buffered))
        /\ verdict' = [verdict EXCEPT ![v] = "nil"]
        /\ UNCHANGED <<buf, closed, pendingPuts, pendingTakes, notEmpty, notFull, cell, got, out>>
     \/ ~closed /\ (HandOver(v) \/ AddToBuffer(v)) /\ verdict' = [verdict EXCEPT ![v] = "true"]
  /\ UNCHANGED <<setup, strays, pc, arg>>

\* A poll! that finds nothing changes nothing; poll! does not notify not-full.
Poll(t) ==
  /\ t \in setup.pollers
  /\ FromBuffer(0) \/ FromPut
  /\ UNCHANGED <<setup, strays, closed, pendingTakes, notEmpty, pc, arg, verdict>>

\* Mutant: close! does not wake the putters.
CloseTakersOnly(t) ==
  /\ t \in setup.closers /\ ~closed
  /\ closed' = TRUE
  /\ notEmpty' \in Woken(notEmpty, Len(pendingTakes))
  /\ UNCHANGED <<setup, strays, buf, pendingPuts, pendingTakes, notFull, pc, arg, cell, verdict, got, out>>

Close(t) ==
  /\ t \in setup.closers /\ ~closed
  /\ closed' = TRUE
  /\ notEmpty' \in Woken(notEmpty, Len(pendingTakes))
  /\ notFull' \in Woken(notFull, Len(pendingPuts))
  /\ UNCHANGED <<setup, strays, buf, pendingPuts, pendingTakes, pc, arg, cell, verdict, got, out>>

\* condition-wait returns to t although nobody notified it.
Stray(t) ==
  /\ t \in notEmpty \cup notFull
  /\ strays[t] < setup.strays
  /\ strays' = [strays EXCEPT ![t] = @ + 1]
  /\ notEmpty' = notEmpty \ {t}
  /\ notFull' = notFull \ {t}
  /\ UNCHANGED <<setup, buf, closed, pendingPuts, pendingTakes, pc, arg, cell, verdict, got, out>>

Next == \E t \in Threads : \/ \E v \in Values : Put(t, v) \/ Offer(t, v)
                           \/ Take(t) \/ Poll(t) \/ Close(t) \/ Stray(t)

\* A call that is under way goes on once its thread is awake; nobody need call.
Resumes(t) == \/ \E v \in Values : ResumesPut(t, v) /\ Put(t, v)
              \/ ResumesTake(t) /\ Take(t)
Spec == Init /\ [][Next]_vars /\ \A t \in Threads : WF_vars(Resumes(t))

-----------------------------------------------------------------------------
(* Properties. *)

(* Types of the channel, of its threads and of what they wait for; part of *)
(* AcceptedNotLost. *)
TypeOK ==
  /\ setup \in Setups
  /\ buf \in Seq(Values) /\ closed \in BOOLEAN
  /\ pendingPuts \in Seq([by : Threads \cup {Abandoned}, val : Values])
  /\ pendingTakes \in Seq(Threads \cup {Abandoned})
  /\ notEmpty \subseteq {t \in Threads : pc[t] = "taking"}
  /\ notFull \subseteq {t \in Threads : pc[t] = "putting"}
  /\ pc \in [Threads -> {"idle", "putting", "taking"}]
  /\ arg \in [Threads -> Values \cup {NoValue}]
  /\ strays \in [Threads -> Nat]
  /\ cell \in [Threads -> Values \cup {NoValue}]
  /\ verdict \in [Values -> {"unsent", "pending", "true", "nil"}]
  /\ got \subseteq Values /\ out \in Seq(Values)

Room == IF Buffered THEN Capacity ELSE Cardinality(setup.putters)

Fifo == INSTANCE FifoChannel WITH
          q <- buf \o [i \in DOMAIN pendingPuts |-> pendingPuts[i].val],
          room <- Room, evicts <- Kind = "sliding"

\* Whatever the interleaving of puts, takes, offers, polls and the close, values
\* leave in the order in which they entered, the buffer never holds more than its
\* capacity, and nothing enters after close!: >!! re-tests room and closed after
\* each wake-up.
FifoOrder == Fifo!Spec

\* A channel with one putting and one taking thread.
Pair == Cardinality(setup.putters) = 1 /\ Cardinality(setup.takers) = 1

\* A value whose put returned true was dropped by the transducer, is in the buffer,
\* or has left the channel: the "accepted" of >!!'s docstring.
Accepted ==
  \A v \in Values : verdict[v] = "true" => v \in Filtered \cup Range(buf) \cup Range(out)

\* A value that has left the channel was returned by a take or a poll, or is in the
\* cell of a taker that will look at it.
Received == Range(out) \subseteq got \cup {cell[t] : t \in setup.takers}

\* The only taker, if there is one, was always woken by a notification.
TakerUndisturbed == \E t \in Threads : setup.takers = {t} /\ strays[t] = 0

\* Nothing accepted is lost, but for buffers that may discard; and what is handed out
\* arrives, unless a taker wakes to an empty cell, as it may when it was woken for
\* another taker or for nobody: <!! then goes round, registers a second cell and leaves
\* the first in the list (core-async.lisp:359-365), and the next put resolves the
\* first, answers true, and its value is lost.
AcceptedNotLost ==
  /\ TypeOK
  /\ Kind \in {"unbuffered", "fixed"} => Accepted
  /\ TakerUndisturbed => Received

\* The docstring's promise without that exception: with one taker, what is handed out
\* arrives.
OneTakerReceives == Cardinality(setup.takers) = 1 => Received

\* A value whose put returned nil is never taken.  (An unbuffered put answers nil
\* whenever the channel is closed by the time it wakes, so only buffers promise it.)
RefusedNeverTaken ==
  Buffered => \A v \in Values : verdict[v] = "nil" => v \notin Range(out)

\* A putter does not sleep beside a buffer with room: a take that frees a slot makes
\* it go on (poll! does not notify not-full, so nobody polls here).
PutSeesSpace ==
  LET asleep == /\ Pair /\ Buffered /\ setup.pollers = {}
                /\ \E t \in setup.putters : pc[t] = "putting" /\ ~BufFull /\ ~closed
  IN  asleep ~> ~asleep

BothBlocked(p, t) == pc[p] = "putting" /\ pc[t] = "taking"

\* The only putter and the only taker of a channel do not both stay blocked.
PairMeets ==
  LET both == Pair /\ \E p \in setup.putters, t \in setup.takers : BothBlocked(p, t)
  IN  both ~> ~both

\* The same of any number of them: >!! blocks only "until a taker is ready or the
\* buffer has space".
Rendezvous == LET both == \E p \in setup.putters, t \in setup.takers : BothBlocked(p, t)
              IN  both ~> ~both

\* The put of a pair that is blocked on an unbuffered channel when that is closed
\* returns (close! counts its wake-ups by pending-puts, where a put that is blocked
\* on a full buffer is not listed).
CloseFreesPutters ==
  LET stuck == Pair /\ ~Buffered /\ closed /\ \E t \in setup.putters : pc[t] = "putting"
  IN  stuck ~> ~stuck
=============================================================================
