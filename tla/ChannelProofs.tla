--------------------------- MODULE ChannelProofs ---------------------------
(***************************************************************************)
(* What TLAPS shows of Channel for any threads, values, buffers, programs  *)
(* and stray wake-ups: an accepted value is held or leaves unless its      *)
(* buffer may discard it, what leaves arrives while the only taker has not *)
(* been woken without cause, a refused value never comes out of a buffer,  *)
(* and values leave in the order in which they entered (FifoChannel).      *)
(*                                                                         *)
(* ChanInv is the inductive invariant.  Next is split into the thirteen    *)
(* effects a call can have in a state of ChanInv and the stray wake-up     *)
(* (EffectsCover); each keeps ChanInv, and each is a step of FifoChannel   *)
(* or none.                                                                *)
(***************************************************************************)
EXTENDS Channel, FiniteSetTheorems, TLAPS

(* Only an unbuffered channel has pending puts, only a buffered one holds   *)
(* values; and a take is pending only while there is nothing to take.       *)
NothingToTake == /\ Buffered => pendingPuts = << >>
                 /\ ~Buffered => buf = << >>
                 /\ pendingTakes # << >> => buf = << >> /\ pendingPuts = << >>

(* Every cell in pending-takes that is not abandoned is the empty cell of a *)
(* taker that waits, and every taker with an empty cell has one there.      *)
TakesPending ==
  /\ \A i \in 1..Len(pendingTakes) : pendingTakes[i] # Abandoned =>
       /\ pc[pendingTakes[i]] = "taking" /\ cell[pendingTakes[i]] = NoValue
       /\ \A j \in 1..Len(pendingTakes) : pendingTakes[j] = pendingTakes[i] => j = i
  /\ \A t \in Threads : pc[t] = "taking" =>
       t \in setup.takers /\ (cell[t] = NoValue => \E i \in 1..Len(pendingTakes) : pendingTakes[i] = t)

(* Every entry of pending-puts that is not abandoned is a put that waits. *)
PutsPending ==
  \A i \in 1..Len(pendingPuts) :
    /\ ~closed => pendingPuts[i].by # Abandoned
    /\ pendingPuts[i].by # Abandoned =>
         /\ pendingPuts[i].by \in setup.putters
         /\ pc[pendingPuts[i].by] = "putting" /\ cell[pendingPuts[i].by] = NoValue
         /\ arg[pendingPuts[i].by] = pendingPuts[i].val
         /\ \A j \in 1..Len(pendingPuts) : pendingPuts[j].by = pendingPuts[i].by => j = i

(* A cell that holds a value is a waiting taker's, or the value was taken. *)
CellsHeld == \A t \in Threads : cell[t] # NoValue =>
               pc[t] = "taking" \/ (~Buffered /\ pc[t] = "putting" /\ cell[t] = arg[t]
                                                  /\ arg[t] \in got /\ arg[t] \in Range(out))

(* A put that waits has not answered, and no two wait with the same value. *)
PutsOpen ==
  \A t \in Threads : pc[t] = "putting" =>
    /\ arg[t] \in Values /\ verdict[arg[t]] = "pending"
    /\ \A u \in Threads : pc[u] = "putting" /\ arg[u] = arg[t] => u = t

(* What a buffered channel holds or has given away was accepted. *)
HeldAccepted == Buffered => \A v \in Values : v \in Range(buf) \/ v \in Range(out) => verdict[v] = "true"

HeldFits == Buffered => Len(buf) <= Capacity

(* An open channel with one taker that no stray wake-up has reached never   *)
(* loses sight of it.                                                       *)
OneTakerSeen == \A t \in Threads : setup.takers = {t} /\ strays[t] = 0 /\ ~closed =>
                  /\ \A i \in 1..Len(pendingTakes) : pendingTakes[i] # Abandoned
                  /\ pc[t] = "taking" /\ cell[t] = NoValue => t \in notEmpty

(* Such a taker receives what has left the channel. *)
OneTakerKeeps ==
  \A t \in Threads : setup.takers = {t} /\ strays[t] = 0 =>
    \A v \in Values : v \in Range(out) => v \in got \/ cell[t] = v

(* With no discarding buffer, what was accepted is held or has left. *)
AcceptedSeen ==
  Kind \in {"unbuffered", "fixed"} =>
    \A v \in Values : verdict[v] = "true" => v \in Filtered \/ v \in Range(buf) \/ v \in Range(out)

ChanInv == /\ TypeOK /\ NothingToTake /\ TakesPending /\ PutsPending /\ CellsHeld /\ PutsOpen
           /\ HeldAccepted /\ HeldFits /\ OneTakerSeen /\ OneTakerKeeps /\ AcceptedSeen

-----------------------------------------------------------------------------
(* The effects of a call, in a state of ChanInv. *)

(* A call of thread t that puts v ends with the answer; it is a call made   *)
(* now, or one that was blocked on a full buffer.                           *)
PutEnds(t, v, answer) ==
  /\ t \in Threads /\ v \in Values
  /\ \/ pc[t] = "idle" /\ verdict[v] = "unsent"
     \/ pc[t] = "putting" /\ arg[t] = v /\ Buffered /\ t \notin notFull
  /\ pc' = [pc EXCEPT ![t] = "idle"]
  /\ arg' \in [Threads -> Values \cup {NoValue}]
  /\ \A u \in Threads : u # t => arg'[u] = arg[u]
  /\ verdict' = [verdict EXCEPT ![v] = answer]
  /\ UNCHANGED <<setup, strays>>

Refuses(t, v) ==
  /\ PutEnds(t, v, "nil")
  /\ UNCHANGED <<buf, closed, pendingPuts, pendingTakes, notEmpty, notFull, cell, got, out>>

HandsOver(t, v) == ~closed /\ PutEnds(t, v, "true") /\ HandOver(v)

Adds(t, v) == ~closed /\ PutEnds(t, v, "true") /\ AddToBuffer(v)

(* A call of t that puts v blocks. *)
PutBlocks(t, v) ==
  /\ t \in Threads /\ v \in Values
  /\ \/ t \in setup.putters /\ pc[t] = "idle" /\ verdict[v] = "unsent"
     \/ pc[t] = "putting" /\ arg[t] = v /\ Buffered
  /\ ~closed /\ pendingTakes = << >>
  /\ notFull' = notFull \cup {t}
  /\ pc' = [pc EXCEPT ![t] = "putting"]
  /\ arg' = [arg EXCEPT ![t] = v]
  /\ verdict' = [verdict EXCEPT ![v] = "pending"]
  /\ UNCHANGED <<setup, strays, buf, closed, pendingTakes, notEmpty, cell, got, out>>

BlocksOnFull(t, v) == Buffered /\ PutBlocks(t, v) /\ UNCHANGED pendingPuts

Registers(t, v) ==
  /\ ~Buffered /\ PutBlocks(t, v) /\ pc[t] = "idle"
  /\ pendingPuts' = Append(pendingPuts, [by |-> t, val |-> v])

PutResumes(t) ==
  /\ t \in Threads /\ ~Buffered
  /\ pc[t] = "putting" /\ t \notin notFull
  /\ cell[t] # NoValue \/ closed
  /\ pc' = [pc EXCEPT ![t] = "idle"]
  /\ arg' = [arg EXCEPT ![t] = NoValue]
  /\ verdict' = [verdict EXCEPT ![arg[t]] = IF closed THEN "nil" ELSE "true"]
  /\ pendingPuts' = LeavePut(t)
  /\ cell' = [cell EXCEPT ![t] = NoValue]
  /\ UNCHANGED <<setup, strays, buf, closed, pendingTakes, notEmpty, notFull, got, out>>

PutSleepsOn(t) ==
  /\ t \in Threads /\ pc[t] = "putting"
  /\ notFull' = notFull \cup {t}
  /\ UNCHANGED <<setup, strays, buf, closed, pendingPuts, pendingTakes, notEmpty, pc, arg, cell, verdict, got, out>>

TakesFromBuffer ==
  /\ Buffered /\ buf # << >>
  /\ got' = got \cup {Head(buf)}
  /\ out' = Append(out, Head(buf))
  /\ buf' = Tail(buf)
  /\ notFull' \subseteq notFull
  /\ UNCHANGED <<setup, strays, closed, pendingPuts, pendingTakes, notEmpty, pc, arg, cell, verdict>>

TakesFromPut ==
  /\ ~Buffered /\ pendingPuts # << >> /\ pendingTakes = << >>
  /\ got' = got \cup {Head(pendingPuts).val}
  /\ out' = Append(out, Head(pendingPuts).val)
  /\ pendingPuts' = Tail(pendingPuts)
  /\ cell' = Resolved(Head(pendingPuts).by, Head(pendingPuts).val)
  /\ notFull' \subseteq notFull
  /\ UNCHANGED <<setup, strays, buf, closed, pendingTakes, notEmpty, pc, arg, verdict>>

(* A take starts a round: it is called, or wakes to an empty cell. *)
TakeTurns(t) ==
  /\ t \in Threads
  /\ \/ pc[t] = "idle" /\ t \in setup.takers
     \/ pc[t] = "taking" /\ cell[t] = NoValue /\ t \notin notEmpty

TakesNothing(t) ==
  /\ TakeTurns(t) /\ closed
  /\ pendingTakes' = LeaveTake(t)
  /\ pc' = [pc EXCEPT ![t] = "idle"]
  /\ UNCHANGED <<setup, strays, buf, closed, pendingPuts, notEmpty, notFull, arg, cell, verdict, got, out>>

TakeBlocks(t) ==
  /\ TakeTurns(t) /\ ~closed /\ buf = << >> /\ pendingPuts = << >>
  /\ pendingTakes' = Append(LeaveTake(t), t)
  /\ notEmpty' = notEmpty \cup {t}
  /\ pc' = [pc EXCEPT ![t] = "taking"]
  /\ UNCHANGED <<setup, strays, buf, closed, pendingPuts, notFull, arg, cell, verdict, got, out>>

TakesFromCell(t) ==
  /\ t \in Threads /\ pc[t] = "taking" /\ t \notin notEmpty /\ cell[t] # NoValue
  /\ got' = got \cup {cell[t]}
  /\ cell' = [cell EXCEPT ![t] = NoValue]
  /\ pc' = [pc EXCEPT ![t] = "idle"]
  /\ UNCHANGED <<setup, strays, buf, closed, pendingPuts, pendingTakes, notEmpty, notFull, arg, verdict, out>>

Closes ==
  /\ closed' = TRUE
  /\ notEmpty' \subseteq notEmpty /\ notFull' \subseteq notFull
  /\ UNCHANGED <<setup, strays, buf, pendingPuts, pendingTakes, pc, arg, cell, verdict, got, out>>

Effect ==
  \/ \E t \in Threads, v \in Values : \/ Refuses(t, v) \/ HandsOver(t, v) \/ Adds(t, v)
                                      \/ BlocksOnFull(t, v) \/ Registers(t, v)
  \/ \E t \in Threads : \/ PutResumes(t) \/ PutSleepsOn(t) \/ TakesNothing(t)
                        \/ TakeBlocks(t) \/ TakesFromCell(t)
  \/ TakesFromBuffer \/ TakesFromPut \/ Closes
  \/ \E t \in Threads : Stray(t)

-----------------------------------------------------------------------------
(* The effects cover Next. *)

(* condition-notify wakes, it does not put to sleep. *)
LEMMA WokenShrinks == ASSUME NEW S, NEW n, NEW T \in Woken(S, n) PROVE T \subseteq S
BY DEF Woken, kSubset

(* A pending call that its thread never looked at stays as it is. *)
LEMMA LeaveNobody ==
  ASSUME TypeOK, NEW t \in Threads, \A i \in 1..Len(pendingTakes) : pendingTakes[i] # t
  PROVE  LeaveTake(t) = pendingTakes
<1>1. pendingTakes \in Seq(Threads \cup {Abandoned})
  BY DEF TypeOK
<1>2. DOMAIN pendingTakes = 1..Len(pendingTakes)
  BY <1>1
<1> QED
  BY <1>1, <1>2 DEF LeaveTake

LEMMA PutCovered ==
  ASSUME ChanInv, NEW t \in Threads, NEW v \in Values, Put(t, v)
  PROVE  Effect
<1> USE DEF ChanInv
<1>0. /\ pc \in [Threads -> {"idle", "putting", "taking"}]
      /\ arg \in [Threads -> Values \cup {NoValue}]
  BY DEF TypeOK
<1>1. CASE PutBuffered(t, v)
  <2>1. \/ pc[t] = "idle" /\ verdict[v] = "unsent" /\ t \in setup.putters
        \/ pc[t] = "putting" /\ arg[t] = v /\ Buffered /\ t \notin notFull
    BY <1>1 DEF PutBuffered, CallsPut, ResumesPut
  <2>2. \A a : PutReturns(t, v, a) /\ UNCHANGED <<setup, strays>> => PutEnds(t, v, a)
    BY <2>1, <1>0 DEF PutEnds, PutReturns, Returns
  <2>3. ASSUME ~closed, BlockOnFull(t, v), UNCHANGED <<setup, strays>> PROVE BlocksOnFull(t, v)
    <3>1. Buffered BY <2>3 DEF BlockOnFull, BufFull, Buffered
    <3> QED BY <2>1, <2>3, <3>1 DEF BlockOnFull, BlocksOnFull, PutBlocks
  <2>4. \/ /\ PutReturns(t, v, "nil")
           /\ UNCHANGED <<buf, closed, pendingPuts, pendingTakes, notEmpty, notFull, cell, got, out>>
        \/ ~closed /\ (HandOver(v) \/ AddToBuffer(v)) /\ PutReturns(t, v, "true")
        \/ ~closed /\ BlockOnFull(t, v)
    BY <1>1 DEF PutBuffered
  <2>5. UNCHANGED <<setup, strays>> BY <1>1 DEF PutBuffered
  <2> QED
    BY <2>2, <2>3, <2>4, <2>5 DEF Effect, Refuses, HandsOver, Adds
<1>2. CASE PutUnbuffered(t, v)
  <2>1. pc[t] = "idle" /\ verdict[v] = "unsent" /\ t \in setup.putters /\ ~Buffered /\ UNCHANGED <<setup, strays>>
    BY <1>2 DEF PutUnbuffered, CallsPut
  <2>2. \A a : PutReturns(t, v, a) => PutEnds(t, v, a)
    BY <2>1, <1>0 DEF PutEnds, PutReturns, Returns
  <2>3. CASE closed
    BY <1>2, <2>2, <2>3 DEF Effect, Refuses, PutUnbuffered
  <2>4. CASE ~closed /\ HandOver(v) /\ PutReturns(t, v, "true")
    BY <2>2, <2>4 DEF Effect, HandsOver
  <2>5. CASE ~closed /\ ~(HandOver(v) /\ PutReturns(t, v, "true"))
    <3>1. Registers(t, v)
      BY <1>2, <2>1, <2>5 DEF PutUnbuffered, Registers, PutBlocks
    <3> QED BY <3>1 DEF Effect
  <2> QED BY <2>3, <2>4, <2>5
<1>3. CASE ResumePutUnbuffered(t, v)
  <2>1. pc[t] = "putting" /\ arg[t] = v /\ ~Buffered /\ t \notin notFull
    BY <1>3 DEF ResumePutUnbuffered, ResumesPut
  <2>2. CASE cell[t] # NoValue \/ closed
    <3>1. PutResumes(t)
      BY <1>3, <2>1, <2>2 DEF ResumePutUnbuffered, PutResumes, PutReturns, Returns
    <3> QED BY <3>1 DEF Effect
  <2>3. CASE ~(cell[t] # NoValue \/ closed)
    <3>1. PutSleepsOn(t)
      BY <1>3, <2>1, <2>3 DEF ResumePutUnbuffered, PutSleepsOn
    <3> QED BY <3>1 DEF Effect
  <2> QED BY <2>2, <2>3
<1> QED
  BY <1>1, <1>2, <1>3 DEF Put

LEMMA OfferCovered ==
  ASSUME ChanInv, NEW t \in Threads, NEW v \in Values, Offer(t, v)
  PROVE  Effect
<1>0. /\ pc \in [Threads -> {"idle", "putting", "taking"}]
      /\ arg \in [Threads -> Values \cup {NoValue}]
  BY DEF ChanInv, TypeOK
<1>1. pc[t] = "idle" /\ verdict[v] = "unsent" /\ pc' = pc /\ arg' = arg /\ UNCHANGED <<setup, strays>>
  BY DEF Offer, CallsPut
<1>2. pc' = [pc EXCEPT ![t] = "idle"]
  BY <1>0, <1>1
<1>3. \A a : verdict' = [verdict EXCEPT ![v] = a] => PutEnds(t, v, a)
  BY <1>0, <1>1, <1>2 DEF PutEnds
<1>4. \/ /\ verdict' = [verdict EXCEPT ![v] = "nil"]
         /\ UNCHANGED <<buf, closed, pendingPuts, pendingTakes, notEmpty, notFull, cell, got, out>>
      \/ ~closed /\ (HandOver(v) \/ AddToBuffer(v)) /\ verdict' = [verdict EXCEPT ![v] = "true"]
  BY DEF Offer
<1> QED
  BY <1>3, <1>4 DEF Effect, Refuses, HandsOver, Adds

(* A take or a poll that finds a value has not slept before: a pending take *)
(* would mean that there is nothing to take.                                *)
LEMMA ValueCovered ==
  ASSUME ChanInv, NEW n, FromBuffer(n) \/ FromPut, pendingTakes = << >> => pendingTakes' = << >>,
         UNCHANGED <<setup, strays, closed, notEmpty, pc, arg, verdict>>
  PROVE  TakesFromBuffer \/ TakesFromPut
<1>1. CASE FromBuffer(n)
  <2>1. buf # << >> BY <1>1 DEF FromBuffer
  <2>2. Buffered /\ pendingPuts = << >> /\ pendingTakes = << >>
    BY <2>1 DEF ChanInv, NothingToTake
  <2>3. /\ got' = got \cup {Head(buf)} /\ out' = Append(out, Head(buf))
        /\ buf' = Tail(buf) /\ notFull' \in Woken(notFull, n)
        /\ UNCHANGED <<pendingPuts, cell>>
    BY <1>1, <2>2 DEF FromBuffer
  <2>4. notFull' \subseteq notFull BY <2>3, WokenShrinks
  <2> QED BY <2>1, <2>2, <2>3, <2>4 DEF TakesFromBuffer
<1>2. CASE FromPut
  <2>1. pendingPuts # << >> BY <1>2 DEF FromPut
  <2>2. ~Buffered /\ pendingTakes = << >>
    BY <2>1 DEF ChanInv, NothingToTake
  <2>3. /\ got' = got \cup {Head(pendingPuts).val} /\ out' = Append(out, Head(pendingPuts).val)
        /\ pendingPuts' = Tail(pendingPuts) /\ notFull' \in Woken(notFull, 1)
        /\ cell' = Resolved(Head(pendingPuts).by, Head(pendingPuts).val)
        /\ UNCHANGED buf
    BY <1>2 DEF FromPut
  <2>4. notFull' \subseteq notFull BY <2>3, WokenShrinks
  <2> QED BY <2>1, <2>2, <2>3, <2>4 DEF TakesFromPut
<1> QED
  BY <1>1, <1>2

LEMMA TakeCovered ==
  ASSUME ChanInv, NEW t \in Threads, Take(t)
  PROVE  Effect
<1>0. /\ pc \in [Threads -> {"idle", "putting", "taking"}]
      /\ UNCHANGED <<setup, strays, closed, arg, verdict>>
  BY DEF ChanInv, TypeOK, Take
<1>1. CASE ResumesTake(t) /\ cell[t] # NoValue
  <2>1. TakesFromCell(t)
    BY <1>1 DEF Take, ResumesTake, CallsTake, Returns, TakesFromCell
  <2> QED BY <2>1 DEF Effect
<1>2. CASE ~(ResumesTake(t) /\ cell[t] # NoValue)
  <2>1. TakeRound(t) BY <1>2 DEF Take
  <2>2. TakeTurns(t)
    BY <1>2 DEF Take, CallsTake, ResumesTake, TakeTurns
  <2>3. CASE FromBuffer(1) \/ FromPut
    <3>1. buf # << >> \/ pendingPuts # << >> BY <2>3 DEF FromBuffer, FromPut
    <3>2. pendingTakes = << >> BY <3>1 DEF ChanInv, NothingToTake
    <3>3. pc[t] = "idle"
      BY <2>2, <3>2 DEF TakeTurns, ChanInv, TakesPending
    <3>4. pendingTakes' = LeaveTake(t) /\ pc' = [pc EXCEPT ![t] = "idle"] /\ notEmpty' = notEmpty
      BY <2>1, <3>1 DEF TakeRound, Returns
    <3>5. pc' = pc BY <1>0, <3>3, <3>4
    <3>6. pendingTakes' = << >> BY <3>2, <3>4 DEF LeaveTake
    <3>7. TakesFromBuffer \/ TakesFromPut
      BY <1>0, <2>3, <3>4, <3>5, <3>6, ValueCovered
    <3> QED BY <3>7 DEF Effect
  <2>4. CASE ~(FromBuffer(1) \/ FromPut) /\ closed
    <3>1. TakesNothing(t)
      BY <1>0, <2>1, <2>2, <2>4 DEF TakeRound, TakesNothing, Returns
    <3> QED BY <3>1 DEF Effect
  <2>5. CASE ~(FromBuffer(1) \/ FromPut) /\ ~closed
    <3>1. TakeBlocks(t)
      BY <1>0, <2>1, <2>2, <2>5 DEF TakeRound, TakeBlocks
    <3> QED BY <3>1 DEF Effect
  <2> QED BY <2>3, <2>4, <2>5
<1> QED
  BY <1>1, <1>2

LEMMA EffectsCover == ChanInv /\ Next => Effect
<1> SUFFICES ASSUME ChanInv, Next PROVE Effect
  OBVIOUS
<1>1. PICK t \in Threads : \/ \E v \in Values : Put(t, v) \/ Offer(t, v)
                           \/ Take(t) \/ Poll(t) \/ Close(t) \/ Stray(t)
  BY DEF Next
<1>2. CASE \E v \in Values : Put(t, v) \/ Offer(t, v)
  BY <1>2, PutCovered, OfferCovered
<1>3. CASE Take(t)
  BY <1>3, TakeCovered
<1>4. CASE Poll(t)
  <2>1. FromBuffer(0) \/ FromPut BY <1>4 DEF Poll
  <2>2. UNCHANGED <<setup, strays, closed, pendingTakes, notEmpty, pc, arg, verdict>> BY <1>4 DEF Poll
  <2>3. TakesFromBuffer \/ TakesFromPut BY <2>1, <2>2, ValueCovered
  <2> QED BY <2>3 DEF Effect
<1>5. CASE Close(t)
  <2>1. notEmpty' \in Woken(notEmpty, Len(pendingTakes)) /\ notFull' \in Woken(notFull, Len(pendingPuts))
    BY <1>5 DEF Close
  <2>2. notEmpty' \subseteq notEmpty /\ notFull' \subseteq notFull BY <2>1, WokenShrinks
  <2> QED BY <1>5, <2>2 DEF Close, Closes, Effect
<1>6. CASE Stray(t)
  BY <1>6 DEF Effect
<1> QED
  BY <1>1, <1>2, <1>3, <1>4, <1>5, <1>6

-----------------------------------------------------------------------------
(* Sequences. *)

LEMMA AppendIs ==
  ASSUME NEW S, NEW s \in Seq(S), NEW x \in S
  PROVE  /\ Append(s, x) \in Seq(S) /\ Len(Append(s, x)) = Len(s) + 1
         /\ \A i \in 1..Len(s) : Append(s, x)[i] = s[i]
         /\ Append(s, x)[Len(s) + 1] = x
OBVIOUS

LEMMA TailIs ==
  ASSUME NEW S, NEW s \in Seq(S), s # << >>
  PROVE  /\ Tail(s) \in Seq(S) /\ Len(s) \in Nat \ {0} /\ Len(Tail(s)) = Len(s) - 1
         /\ \A i \in 1..Len(Tail(s)) : i + 1 \in 1..Len(s) /\ Tail(s)[i] = s[i + 1]
         /\ Head(s) = s[1] /\ Head(s) \in S
OBVIOUS

LEMMA ElementIs ==
  ASSUME NEW S, NEW s \in Seq(S)
  PROVE  \A i \in 1..Len(s) : s[i] \in S
OBVIOUS

LEMMA FunctionIsSequence ==
  ASSUME NEW S, NEW n \in Nat, NEW f \in [1..n -> S]
  PROVE  f \in Seq(S) /\ Len(f) = n
OBVIOUS

LEMMA RangeIs ==
  ASSUME NEW S, NEW s \in Seq(S)
  PROVE  \A x : x \in Range(s) <=> \E i \in 1..Len(s) : s[i] = x
BY DEF Range

LEMMA RangeAppend ==
  ASSUME NEW S, NEW s \in Seq(S), NEW x \in S
  PROVE  \A y : y \in Range(Append(s, x)) <=> y \in Range(s) \/ y = x
<1>0. Append(s, x) \in Seq(S)
  OBVIOUS
<1>1. \A y : y \in Range(Append(s, x)) <=> \E i \in 1..Len(Append(s, x)) : Append(s, x)[i] = y
  BY <1>0, RangeIs
<1> QED
  BY <1>1, RangeIs

LEMMA RangeTail ==
  ASSUME NEW S, NEW s \in Seq(S), s # << >>
  PROVE  \A y : y \in Range(s) <=> y \in Range(Tail(s)) \/ y = Head(s)
<1>0. Tail(s) \in Seq(S)
  OBVIOUS
<1>1. \A y : y \in Range(Tail(s)) <=> \E i \in 1..Len(Tail(s)) : Tail(s)[i] = y
  BY <1>0, RangeIs
<1>2. ASSUME NEW y, y \in Range(s) PROVE y \in Range(Tail(s)) \/ y = Head(s)
  <2>1. PICK i \in 1..Len(s) : s[i] = y BY <1>2, RangeIs
  <2>2. CASE i = 1 BY <2>1, <2>2
  <2>3. CASE i # 1
    <3>1. i - 1 \in 1..Len(Tail(s)) /\ Tail(s)[i - 1] = y BY <2>1, <2>3, TailIs
    <3> QED BY <1>1, <3>1
  <2> QED BY <2>2, <2>3
<1>3. ASSUME NEW y, y \in Range(Tail(s)) \/ y = Head(s) PROVE y \in Range(s)
  BY <1>1, <1>3, TailIs, RangeIs
<1> QED
  BY <1>2, <1>3

-----------------------------------------------------------------------------
(* What an effect starts from. *)

LEMMA SetupIs ==
  ASSUME TypeOK
  PROVE  /\ Kind \in {"unbuffered", "fixed", "dropping", "sliding"} /\ Capacity \in Nat
         /\ Kind = "sliding" => Capacity > 0
         /\ setup.putters \subseteq Threads /\ setup.takers \subseteq Threads
BY ChannelAssumption DEF TypeOK, SetupType, Kind, Capacity

(* A value whose put is about to answer is nowhere in a buffered channel,   *)
(* and the call that puts it is in no list.                                 *)
LEMMA PutEndsFrom ==
  ASSUME ChanInv, NEW t, NEW v, NEW a, PutEnds(t, v, a)
  PROVE  /\ t \in Threads /\ v \in Values /\ v # NoValue
         /\ verdict[v] \in {"unsent", "pending"}
         /\ Buffered => v \notin Range(buf) /\ v \notin Range(out)
         /\ cell[t] = NoValue
         /\ \A i \in 1..Len(pendingPuts) : pendingPuts[i].by # t
         /\ \A i \in 1..Len(pendingTakes) : pendingTakes[i] # t
<1>0. t \in Threads /\ v \in Values /\ v # NoValue
  BY ChannelAssumption DEF PutEnds
<1>1. verdict[v] \in {"unsent", "pending"}
  BY DEF PutEnds, ChanInv, PutsOpen
<1>2. pc[t] # "taking" /\ (pc[t] = "putting" => Buffered)
  BY DEF PutEnds
<1>3. Buffered => v \notin Range(buf) /\ v \notin Range(out)
  BY <1>0, <1>1 DEF ChanInv, HeldAccepted
<1>4. cell[t] = NoValue
  BY <1>0, <1>2 DEF ChanInv, CellsHeld, TypeOK
<1>5. \A i \in 1..Len(pendingPuts) : pendingPuts[i].by # t
  BY <1>0, <1>2, ChannelAssumption DEF ChanInv, PutsPending, NothingToTake
<1>6. \A i \in 1..Len(pendingTakes) : pendingTakes[i] # t
  BY <1>0, <1>2, ChannelAssumption DEF ChanInv, TakesPending
<1> QED
  BY <1>0, <1>1, <1>3, <1>4, <1>5, <1>6

(* What the first cell of pending-takes is. *)
LEMMA FirstTake ==
  ASSUME ChanInv, pendingTakes # << >>
  PROVE  /\ Head(pendingTakes) = pendingTakes[1] /\ 1 \in 1..Len(pendingTakes)
         /\ Head(pendingTakes) \in Threads \cup {Abandoned}
         /\ Head(pendingTakes) # Abandoned =>
              /\ Head(pendingTakes) \in Threads
              /\ pc[Head(pendingTakes)] = "taking" /\ cell[Head(pendingTakes)] = NoValue
              /\ \A i \in 1..Len(pendingTakes) : pendingTakes[i] = Head(pendingTakes) => i = 1
<1>1. pendingTakes \in Seq(Threads \cup {Abandoned})
  BY DEF ChanInv, TypeOK
<1>2. Head(pendingTakes) = pendingTakes[1] /\ 1 \in 1..Len(pendingTakes)
      /\ Head(pendingTakes) \in Threads \cup {Abandoned}
  BY <1>1
<1> QED
  BY <1>2 DEF ChanInv, TakesPending

LEMMA FirstPut ==
  ASSUME ChanInv, pendingPuts # << >>
  PROVE  /\ Head(pendingPuts) = pendingPuts[1] /\ 1 \in 1..Len(pendingPuts)
         /\ Head(pendingPuts).val \in Values
         /\ Head(pendingPuts).by # Abandoned =>
              /\ Head(pendingPuts).by \in Threads
              /\ pc[Head(pendingPuts).by] = "putting" /\ cell[Head(pendingPuts).by] = NoValue
              /\ arg[Head(pendingPuts).by] = Head(pendingPuts).val
              /\ \A i \in 1..Len(pendingPuts) : pendingPuts[i].by = Head(pendingPuts).by => i = 1
<1>1. pendingPuts \in Seq([by : Threads \cup {Abandoned}, val : Values])
  BY DEF ChanInv, TypeOK
<1>2. /\ Head(pendingPuts) = pendingPuts[1] /\ 1 \in 1..Len(pendingPuts)
      /\ Head(pendingPuts).val \in Values /\ Head(pendingPuts).by \in Threads \cup {Abandoned}
  <2>1. /\ Head(pendingPuts) = pendingPuts[1] /\ Len(pendingPuts) \in Nat \ {0}
        /\ Head(pendingPuts) \in [by : Threads \cup {Abandoned}, val : Values]
    BY <1>1, TailIs
  <2> QED BY <2>1
<1> QED
  BY <1>2 DEF ChanInv, PutsPending

LEMMA LeaveTakeIs ==
  ASSUME TypeOK, NEW t \in Threads
  PROVE  /\ LeaveTake(t) \in Seq(Threads \cup {Abandoned}) /\ Len(LeaveTake(t)) = Len(pendingTakes)
         /\ \A i \in 1..Len(pendingTakes) :
              LeaveTake(t)[i] = IF pendingTakes[i] = t THEN Abandoned ELSE pendingTakes[i]
<1>1. pendingTakes \in Seq(Threads \cup {Abandoned})
  BY DEF TypeOK
<1>2. DOMAIN pendingTakes = 1..Len(pendingTakes) /\ Len(pendingTakes) \in Nat
  BY <1>1
<1> QED
  BY <1>1, <1>2 DEF LeaveTake

LEMMA LeavePutIs ==
  ASSUME TypeOK, NEW t \in Threads
  PROVE  /\ LeavePut(t) \in Seq([by : Threads \cup {Abandoned}, val : Values])
         /\ Len(LeavePut(t)) = Len(pendingPuts)
         /\ \A i \in 1..Len(pendingPuts) :
              /\ LeavePut(t)[i].by = IF pendingPuts[i].by = t THEN Abandoned ELSE pendingPuts[i].by
              /\ LeavePut(t)[i].val = pendingPuts[i].val
<1>1. pendingPuts \in Seq([by : Threads \cup {Abandoned}, val : Values])
  BY DEF TypeOK
<1>2. DOMAIN pendingPuts = 1..Len(pendingPuts) /\ Len(pendingPuts) \in Nat
  BY <1>1
<1>3. \A i \in 1..Len(pendingPuts) : pendingPuts[i] \in [by : Threads \cup {Abandoned}, val : Values]
  BY <1>1, ElementIs
<1>4. \A i \in 1..Len(pendingPuts) :
        [pendingPuts[i] EXCEPT !.by = Abandoned] \in [by : Threads \cup {Abandoned}, val : Values]
  BY <1>3
<1>5. LeavePut(t) \in [1..Len(pendingPuts) -> [by : Threads \cup {Abandoned}, val : Values]]
  BY <1>2, <1>3, <1>4 DEF LeavePut
<1>6. LeavePut(t) \in Seq([by : Threads \cup {Abandoned}, val : Values]) /\ Len(LeavePut(t)) = Len(pendingPuts)
  BY <1>2, <1>5, FunctionIsSequence
<1> QED
  BY <1>2, <1>3, <1>6 DEF LeavePut

(* What %apply-xf-or-add leaves in a buffer that %buf-full-p says has room. *)
LEMMA AddedIs ==
  ASSUME ChanInv, Buffered, ~BufFull, NEW v \in Values, buf' = Added(buf, v)
  PROVE  /\ buf' \in Seq(Values) /\ Len(buf') <= Capacity
         /\ \A x \in Range(buf') : x \in Range(buf) \/ x = v
         /\ Kind = "fixed" => /\ \A x \in Range(buf) : x \in Range(buf')
                              /\ v \in Filtered \/ v \in Range(buf')
<1>0. /\ buf \in Seq(Values) /\ Len(buf) <= Capacity
      /\ Kind \in {"fixed", "dropping", "sliding"} /\ Capacity \in Nat /\ Len(buf) \in Nat
      /\ Kind = "sliding" => Capacity > 0
  <2>1. TypeOK BY DEF ChanInv
  <2>2. buf \in Seq(Values) /\ Len(buf) <= Capacity BY DEF ChanInv, TypeOK, HeldFits
  <2> QED BY <2>1, <2>2, SetupIs DEF Buffered
<1>1. CASE buf' = buf /\ (v \in Filtered \/ Kind = "dropping")
  BY <1>0, <1>1
<1>2. CASE buf' = Append(Tail(buf), v) /\ Kind = "sliding" /\ Len(buf) >= Capacity
  <2>1. buf # << >> BY <1>0, <1>2
  <2>2. Tail(buf) \in Seq(Values) /\ Len(Tail(buf)) = Len(buf) - 1 BY <1>0, <2>1, TailIs
  <2>3. \A y : y \in Range(Append(Tail(buf), v)) <=> y \in Range(Tail(buf)) \/ y = v
    BY <2>2, RangeAppend
  <2>4. \A y : y \in Range(buf) <=> y \in Range(Tail(buf)) \/ y = Head(buf)
    BY <1>0, <2>1, RangeTail
  <2>5. Append(Tail(buf), v) \in Seq(Values) /\ Len(Append(Tail(buf), v)) = Len(buf)
    BY <1>0, <2>2
  <2> QED BY <1>0, <1>2, <2>3, <2>4, <2>5
<1>3. CASE buf' = Append(buf, v) /\ Len(buf) < Capacity
  <2>1. \A y : y \in Range(Append(buf, v)) <=> y \in Range(buf) \/ y = v
    BY <1>0, RangeAppend
  <2> QED BY <1>0, <1>3, <2>1
<1>4. \/ buf' = buf /\ (v \in Filtered \/ Kind = "dropping")
      \/ buf' = Append(Tail(buf), v) /\ Kind = "sliding" /\ Len(buf) >= Capacity
      \/ buf' = Append(buf, v) /\ Len(buf) < Capacity
  BY <1>0 DEF Added, BufFull
<1> QED
  BY <1>1, <1>2, <1>3, <1>4

-----------------------------------------------------------------------------
(* Every effect keeps ChanInv. *)

LEMMA RefusesKeeps ==
  ASSUME ChanInv, NEW t \in Threads, NEW v \in Values, Refuses(t, v)
  PROVE  ChanInv'
<1>0. /\ verdict[v] \in {"unsent", "pending"}
      /\ \A i \in 1..Len(pendingPuts) : pendingPuts[i].by # t
  BY PutEndsFrom DEF Refuses
<1>1. TypeOK'
  BY DEF ChanInv, TypeOK, Refuses, PutEnds
<1>2. NothingToTake'
  BY DEF ChanInv, NothingToTake, Refuses, PutEnds, Buffered, Kind
<1>3. TakesPending'
  BY DEF ChanInv, TakesPending, Refuses, PutEnds
<1>4. PutsPending'
  <2>1. setup.putters \subseteq Threads BY SetupIs DEF ChanInv
  <2>2. /\ \A u \in Threads : u # t => pc'[u] = pc[u] /\ arg'[u] = arg[u]
        /\ UNCHANGED <<setup, strays, closed, pendingPuts, cell>>
    BY DEF ChanInv, TypeOK, Refuses, PutEnds
  <2> QED BY <1>0, <2>1, <2>2 DEF ChanInv, PutsPending
<1>5. CellsHeld'
  BY DEF ChanInv, CellsHeld, Refuses, PutEnds, Buffered, Kind
<1>6. PutsOpen'
  BY DEF ChanInv, TypeOK, PutsOpen, Refuses, PutEnds
<1>7. HeldAccepted'
  BY <1>0 DEF ChanInv, HeldAccepted, Refuses, PutEnds, Buffered, Kind
<1>8. HeldFits'
  BY DEF ChanInv, HeldFits, Refuses, PutEnds, Buffered, Kind, Capacity
<1>9. OneTakerSeen'
  BY DEF ChanInv, OneTakerSeen, Refuses, PutEnds
<1>10. OneTakerKeeps'
  BY DEF ChanInv, OneTakerKeeps, Refuses, PutEnds, Kind
<1>11. AcceptedSeen'
  BY <1>0 DEF ChanInv, TypeOK, AcceptedSeen, Refuses, PutEnds, Kind
<1> QED
  BY <1>1, <1>2, <1>3, <1>4, <1>5, <1>6, <1>7, <1>8, <1>9, <1>10, <1>11 DEF ChanInv

LEMMA ClosesKeeps ==
  ASSUME ChanInv, Closes
  PROVE  ChanInv'
<1>1. TypeOK'
  BY DEF ChanInv, TypeOK, Closes
<1>2. NothingToTake'
  BY DEF ChanInv, NothingToTake, Closes, Buffered, Kind
<1>3. TakesPending'
  BY DEF ChanInv, TakesPending, Closes
<1>4. PutsPending'
  BY DEF ChanInv, PutsPending, Closes
<1>5. CellsHeld'
  BY DEF ChanInv, CellsHeld, Closes, Buffered, Kind
<1>6. PutsOpen'
  BY DEF ChanInv, PutsOpen, Closes
<1>7. HeldAccepted'
  BY DEF ChanInv, HeldAccepted, Closes, Buffered, Kind
<1>8. HeldFits'
  BY DEF ChanInv, HeldFits, Closes, Buffered, Kind, Capacity
<1>9. OneTakerSeen'
  BY DEF ChanInv, OneTakerSeen, Closes
<1>10. OneTakerKeeps'
  BY DEF ChanInv, OneTakerKeeps, Closes, Kind
<1>11. AcceptedSeen'
  BY DEF ChanInv, AcceptedSeen, Closes, Kind
<1> QED
  BY <1>1, <1>2, <1>3, <1>4, <1>5, <1>6, <1>7, <1>8, <1>9, <1>10, <1>11 DEF ChanInv

LEMMA PutSleepsOnKeeps ==
  ASSUME ChanInv, NEW t \in Threads, PutSleepsOn(t)
  PROVE  ChanInv'
<1>1. TypeOK'
  BY DEF ChanInv, TypeOK, PutSleepsOn
<1>2. NothingToTake'
  BY DEF ChanInv, NothingToTake, PutSleepsOn, Buffered, Kind
<1>3. TakesPending'
  BY DEF ChanInv, TakesPending, PutSleepsOn
<1>4. PutsPending'
  BY DEF ChanInv, PutsPending, PutSleepsOn
<1>5. CellsHeld'
  BY DEF ChanInv, CellsHeld, PutSleepsOn, Buffered, Kind
<1>6. PutsOpen'
  BY DEF ChanInv, PutsOpen, PutSleepsOn
<1>7. HeldAccepted'
  BY DEF ChanInv, HeldAccepted, PutSleepsOn, Buffered, Kind
<1>8. HeldFits'
  BY DEF ChanInv, HeldFits, PutSleepsOn, Buffered, Kind, Capacity
<1>9. OneTakerSeen'
  BY DEF ChanInv, OneTakerSeen, PutSleepsOn
<1>10. OneTakerKeeps'
  BY DEF ChanInv, OneTakerKeeps, PutSleepsOn, Kind
<1>11. AcceptedSeen'
  BY DEF ChanInv, AcceptedSeen, PutSleepsOn, Kind
<1> QED
  BY <1>1, <1>2, <1>3, <1>4, <1>5, <1>6, <1>7, <1>8, <1>9, <1>10, <1>11 DEF ChanInv

LEMMA TakesFromBufferKeeps ==
  ASSUME ChanInv, TakesFromBuffer
  PROVE  ChanInv'
<1>0. buf \in Seq(Values) /\ buf # << >> /\ out \in Seq(Values)
  BY DEF ChanInv, TypeOK, TakesFromBuffer
<1>a. Head(buf) \in Values /\ Tail(buf) \in Seq(Values) /\ Len(Tail(buf)) = Len(buf) - 1
  BY <1>0
<1>b. \A y : y \in Range(buf) <=> y \in Range(buf') \/ y = Head(buf)
  BY <1>0, RangeTail DEF TakesFromBuffer
<1>c. \A y : y \in Range(out') <=> y \in Range(out) \/ y = Head(buf)
  BY <1>0, <1>a, RangeAppend DEF TakesFromBuffer
<1>1. TypeOK'
  BY DEF ChanInv, TypeOK, TakesFromBuffer
<1>2. NothingToTake'
  BY DEF ChanInv, NothingToTake, TakesFromBuffer, Buffered, Kind
<1>3. TakesPending'
  BY DEF ChanInv, TakesPending, TakesFromBuffer, Buffered
<1>4. PutsPending'
  BY DEF ChanInv, PutsPending, TakesFromBuffer
<1>5. CellsHeld'
  BY DEF ChanInv, CellsHeld, TakesFromBuffer
<1>6. PutsOpen'
  BY DEF ChanInv, PutsOpen, TakesFromBuffer
<1>7. HeldAccepted'
  BY <1>b, <1>c DEF ChanInv, HeldAccepted, TakesFromBuffer
<1>8. HeldFits'
  <2>1. Len(buf) <= Capacity /\ Len(buf) \in Nat /\ Capacity \in Nat
    <3>1. TypeOK /\ Len(buf) <= Capacity BY DEF ChanInv, HeldFits, TakesFromBuffer
    <3> QED BY <1>0, <3>1, SetupIs
  <2>2. Len(buf') = Len(buf) - 1 /\ Capacity' = Capacity
    BY <1>a DEF TakesFromBuffer, Capacity
  <2> QED BY <2>1, <2>2 DEF HeldFits
<1>9. OneTakerSeen'
  BY DEF ChanInv, OneTakerSeen, TakesFromBuffer
<1>10. OneTakerKeeps'
  BY <1>c DEF ChanInv, OneTakerKeeps, TakesFromBuffer
<1>11. AcceptedSeen'
  BY <1>b, <1>c DEF ChanInv, AcceptedSeen, TakesFromBuffer, Kind
<1> QED
  BY <1>1, <1>2, <1>3, <1>4, <1>5, <1>6, <1>7, <1>8, <1>9, <1>10, <1>11 DEF ChanInv

LEMMA TakesNothingKeeps ==
  ASSUME ChanInv, NEW t \in Threads, TakesNothing(t)
  PROVE  ChanInv'
<1>0. /\ LeaveTake(t) \in Seq(Threads \cup {Abandoned}) /\ Len(LeaveTake(t)) = Len(pendingTakes)
      /\ \A i \in 1..Len(pendingTakes) :
           LeaveTake(t)[i] = IF pendingTakes[i] = t THEN Abandoned ELSE pendingTakes[i]
  BY LeaveTakeIs DEF ChanInv, TakesNothing
<1>1. TypeOK'
  BY <1>0 DEF ChanInv, TypeOK, TakesNothing, TakeTurns
<1>2. NothingToTake'
  BY DEF ChanInv, NothingToTake, TakesNothing, LeaveTake, Buffered, Kind
<1>3. TakesPending'
  <2>1. /\ pc \in [Threads -> {"idle", "putting", "taking"}]
        /\ pendingTakes' = LeaveTake(t) /\ pc' = [pc EXCEPT ![t] = "idle"] /\ UNCHANGED <<setup, cell>>
    BY DEF ChanInv, TypeOK, TakesNothing
  <2>2. \A i \in 1..Len(pendingTakes) : pendingTakes[i] \in Threads \cup {Abandoned}
    BY ElementIs DEF ChanInv, TypeOK
  <2>3. TakesPending /\ Abandoned \notin Threads
    BY ChannelAssumption DEF ChanInv
  <2> QED BY <1>0, <2>1, <2>2, <2>3, SMTT(30) DEF TakesPending
<1>4. PutsPending'
  BY DEF ChanInv, PutsPending, TakesNothing, TakeTurns, LeaveTake
<1>5. CellsHeld'
  BY DEF ChanInv, CellsHeld, TakesNothing, TakeTurns, LeaveTake, Buffered, Kind
<1>6. PutsOpen'
  BY DEF ChanInv, PutsOpen, TakesNothing, LeaveTake
<1>7. HeldAccepted'
  BY DEF ChanInv, HeldAccepted, TakesNothing, LeaveTake, Buffered, Kind
<1>8. HeldFits'
  BY DEF ChanInv, HeldFits, TakesNothing, LeaveTake, Buffered, Kind, Capacity
<1>9. OneTakerSeen'
  BY DEF ChanInv, OneTakerSeen, TakesNothing, LeaveTake
<1>10. OneTakerKeeps'
  BY DEF ChanInv, OneTakerKeeps, TakesNothing, LeaveTake, Kind
<1>11. AcceptedSeen'
  BY DEF ChanInv, AcceptedSeen, TakesNothing, Kind
<1> QED
  BY <1>1, <1>2, <1>3, <1>4, <1>5, <1>6, <1>7, <1>8, <1>9, <1>10, <1>11 DEF ChanInv

LEMMA TakesFromCellKeeps ==
  ASSUME ChanInv, NEW t \in Threads, TakesFromCell(t)
  PROVE  ChanInv'
<1>1. TypeOK'
  BY DEF ChanInv, TypeOK, TakesFromCell
<1>2. NothingToTake'
  BY DEF ChanInv, NothingToTake, TakesFromCell, Buffered, Kind
<1>3. TakesPending'
  BY DEF ChanInv, TypeOK, TakesPending, TakesFromCell
<1>4. PutsPending'
  BY DEF ChanInv, PutsPending, TakesFromCell
<1>5. CellsHeld'
  BY DEF ChanInv, TypeOK, CellsHeld, TakesFromCell, Buffered, Kind
<1>6. PutsOpen'
  BY DEF ChanInv, PutsOpen, TakesFromCell
<1>7. HeldAccepted'
  BY DEF ChanInv, HeldAccepted, TakesFromCell, Buffered, Kind
<1>8. HeldFits'
  BY DEF ChanInv, HeldFits, TakesFromCell, Buffered, Kind, Capacity
<1>9. OneTakerSeen'
  BY DEF ChanInv, TypeOK, OneTakerSeen, TakesFromCell
<1>10. OneTakerKeeps'
  BY DEF ChanInv, OneTakerKeeps, TakesFromCell, Kind
<1>11. AcceptedSeen'
  BY DEF ChanInv, AcceptedSeen, TakesFromCell, Kind
<1> QED
  BY <1>1, <1>2, <1>3, <1>4, <1>5, <1>6, <1>7, <1>8, <1>9, <1>10, <1>11 DEF ChanInv

LEMMA BlocksOnFullKeeps ==
  ASSUME ChanInv, NEW t \in Threads, NEW v \in Values, BlocksOnFull(t, v)
  PROVE  ChanInv'
<1>1. TypeOK'
  BY DEF ChanInv, TypeOK, BlocksOnFull, PutBlocks
<1>2. NothingToTake'
  BY DEF ChanInv, NothingToTake, BlocksOnFull, PutBlocks, Buffered, Kind
<1>3. TakesPending'
  BY DEF ChanInv, TakesPending, BlocksOnFull, PutBlocks
<1>4. PutsPending'
  BY DEF ChanInv, PutsPending, BlocksOnFull, PutBlocks
<1>5. CellsHeld'
  BY DEF ChanInv, CellsHeld, BlocksOnFull, PutBlocks
<1>6. PutsOpen'
  BY DEF ChanInv, TypeOK, PutsOpen, BlocksOnFull, PutBlocks
<1>7. HeldAccepted'
  <2>1. verdict[v] \in {"unsent", "pending"}
    BY DEF ChanInv, PutsOpen, BlocksOnFull, PutBlocks
  <2> QED
    BY <2>1 DEF ChanInv, TypeOK, HeldAccepted, BlocksOnFull, PutBlocks, Buffered, Kind
<1>8. HeldFits'
  BY DEF ChanInv, HeldFits, BlocksOnFull, PutBlocks, Capacity
<1>9. OneTakerSeen'
  BY DEF ChanInv, OneTakerSeen, BlocksOnFull, PutBlocks
<1>10. OneTakerKeeps'
  BY DEF ChanInv, OneTakerKeeps, BlocksOnFull, PutBlocks, Kind
<1>11. AcceptedSeen'
  BY DEF ChanInv, TypeOK, AcceptedSeen, BlocksOnFull, PutBlocks, Kind
<1> QED
  BY <1>1, <1>2, <1>3, <1>4, <1>5, <1>6, <1>7, <1>8, <1>9, <1>10, <1>11 DEF ChanInv

LEMMA AddsKeeps ==
  ASSUME ChanInv, NEW t \in Threads, NEW v \in Values, Adds(t, v)
  PROVE  ChanInv'
<1>0. /\ t \in Threads /\ verdict[v] \in {"unsent", "pending"}
      /\ v \notin Range(out) /\ pc'[t] = "idle"
  <2>1. PutEnds(t, v, "true") /\ Buffered BY DEF Adds, AddToBuffer
  <2>2. pc'[t] = "idle" BY <2>1 DEF PutEnds, ChanInv, TypeOK
  <2> QED BY <2>1, <2>2, PutEndsFrom
<1>a. /\ buf' = Added(buf, v) /\ notEmpty' \subseteq notEmpty /\ pendingTakes = << >> /\ pendingPuts = << >>
      /\ UNCHANGED <<setup, strays, closed, pendingPuts, pendingTakes, notFull, cell, got, out>>
  <2>1. notEmpty' \in Woken(notEmpty, 1) BY DEF Adds, AddToBuffer
  <2>2. notEmpty' \subseteq notEmpty BY <2>1, WokenShrinks
  <2> QED BY <2>2 DEF Adds, AddToBuffer, PutEnds, ChanInv, NothingToTake
<1>b. /\ buf' \in Seq(Values) /\ Len(buf') <= Capacity
      /\ \A x \in Range(buf') : x \in Range(buf) \/ x = v
      /\ Kind = "fixed" => /\ \A x \in Range(buf) : x \in Range(buf')
                           /\ v \in Filtered \/ v \in Range(buf')
  <2>1. Buffered /\ ~BufFull BY DEF Adds, AddToBuffer
  <2> QED BY <1>a, <2>1, AddedIs
<1>c. /\ t \notin notFull /\ (pc[t] = "idle" \/ pc[t] = "putting")
      /\ pc' = [pc EXCEPT ![t] = "idle"]
      /\ arg' \in [Threads -> Values \cup {NoValue}]
      /\ \A u \in Threads : u # t => arg'[u] = arg[u]
      /\ verdict' = [verdict EXCEPT ![v] = "true"]
  BY DEF Adds, PutEnds, ChanInv, TypeOK
<1>1. TypeOK'
  BY <1>0, <1>a, <1>b, <1>c DEF ChanInv, TypeOK
<1>2. NothingToTake'
  BY DEF ChanInv, NothingToTake, Adds, PutEnds, AddToBuffer, Buffered, Kind
<1>3. TakesPending'
  BY DEF ChanInv, TakesPending, Adds, PutEnds, AddToBuffer
<1>4. PutsPending'
  BY <1>a DEF PutsPending
<1>5. CellsHeld'
  BY DEF ChanInv, CellsHeld, Adds, PutEnds, AddToBuffer
<1>6. PutsOpen'
  BY DEF ChanInv, TypeOK, PutsOpen, Adds, PutEnds, AddToBuffer
<1>7. HeldAccepted'
  BY <1>a, <1>b, <1>c DEF ChanInv, TypeOK, HeldAccepted, Buffered, Kind
<1>8. HeldFits'
  BY <1>a, <1>b DEF HeldFits, Capacity
<1>9. OneTakerSeen'
  <2>1. \A u \in Threads : pc[u] = "taking" => cell[u] # NoValue
    BY <1>a DEF ChanInv, TakesPending
  <2> QED BY <1>0, <1>a, <1>c, <2>1 DEF ChanInv, TypeOK, OneTakerSeen
<1>10. OneTakerKeeps'
  BY <1>a DEF ChanInv, OneTakerKeeps
<1>11. AcceptedSeen'
  <2>1. Kind # "unbuffered" BY DEF Adds, AddToBuffer, Buffered
  <2> QED BY <1>a, <1>b, <1>c, <2>1 DEF ChanInv, TypeOK, AcceptedSeen, Kind
<1> QED
  BY <1>1, <1>2, <1>3, <1>4, <1>5, <1>6, <1>7, <1>8, <1>9, <1>10, <1>11 DEF ChanInv

LEMMA HandsOverKeeps ==
  ASSUME ChanInv, NEW t \in Threads, NEW v \in Values, HandsOver(t, v)
  PROVE  ChanInv'
<1>0. /\ t \in Threads /\ v # NoValue /\ verdict[v] \in {"unsent", "pending"} /\ cell[t] = NoValue
      /\ \A i \in 1..Len(pendingPuts) : pendingPuts[i].by # t
      /\ \A i \in 1..Len(pendingTakes) : pendingTakes[i] # t
  BY PutEndsFrom DEF HandsOver
<1>a. /\ pendingTakes # << >> /\ pendingTakes' = Tail(pendingTakes)
      /\ out' = Append(out, v) /\ notEmpty' \subseteq notEmpty /\ buf = << >> /\ pendingPuts = << >>
      /\ UNCHANGED <<setup, strays, buf, closed, pendingPuts, notFull, got>>
  <2>1. notEmpty' \in Woken(notEmpty, 1) BY DEF HandsOver, HandOver
  <2>2. notEmpty' \subseteq notEmpty BY <2>1, WokenShrinks
  <2> QED BY <2>2 DEF HandsOver, HandOver, PutEnds, ChanInv, NothingToTake
<1>b. PICK w : /\ w = Head(pendingTakes) /\ w = pendingTakes[1] /\ 1 \in 1..Len(pendingTakes)
               /\ w \in Threads \cup {Abandoned}
               /\ w # Abandoned => /\ w \in Threads /\ pc[w] = "taking" /\ cell[w] = NoValue
                                   /\ \A i \in 1..Len(pendingTakes) : pendingTakes[i] = w => i = 1
  BY <1>a, FirstTake
<1>c. cell' = IF w = Abandoned THEN cell ELSE [cell EXCEPT ![w] = v]
  BY <1>b DEF HandsOver, HandOver, Resolved
<1>d. /\ t \notin notFull /\ (pc[t] = "idle" \/ pc[t] = "putting")
      /\ pc' = [pc EXCEPT ![t] = "idle"]
      /\ arg' \in [Threads -> Values \cup {NoValue}]
      /\ \A u \in Threads : u # t => arg'[u] = arg[u]
      /\ verdict' = [verdict EXCEPT ![v] = "true"]
  BY DEF HandsOver, PutEnds, ChanInv, TypeOK
<1>e. /\ pendingTakes' \in Seq(Threads \cup {Abandoned}) /\ Len(pendingTakes') = Len(pendingTakes) - 1
      /\ Len(pendingTakes) \in Nat \ {0}
      /\ \A i \in 1..Len(pendingTakes') : i + 1 \in 1..Len(pendingTakes) /\ pendingTakes'[i] = pendingTakes[i + 1]
  <2>1. pendingTakes \in Seq(Threads \cup {Abandoned}) BY DEF ChanInv, TypeOK
  <2> QED BY <1>a, <2>1, TailIs
<1>f. /\ pc \in [Threads -> {"idle", "putting", "taking"}]
      /\ cell \in [Threads -> Values \cup {NoValue}]
      /\ verdict \in [Values -> {"unsent", "pending", "true", "nil"}]
      /\ out \in Seq(Values)
  BY DEF ChanInv, TypeOK
<1>g. ASSUME NEW k \in Threads, setup.takers = {k}, strays[k] = 0
      PROVE  w = k /\ w # Abandoned
  <2>1. ~closed BY DEF HandsOver
  <2>2. w # Abandoned BY <1>b, <1>g, <2>1 DEF ChanInv, OneTakerSeen
  <2> QED BY <1>b, <1>g, <2>2 DEF ChanInv, TakesPending
<1>1. TypeOK'
  <2>1. cell' \in [Threads -> Values \cup {NoValue}] BY <1>b, <1>c, <1>f
  <2>2. out' \in Seq(Values) BY <1>a, <1>f
  <2> QED BY <1>0, <1>a, <1>d, <1>e, <2>1, <2>2 DEF ChanInv, TypeOK
<1>2. NothingToTake'
  BY <1>a DEF NothingToTake
<1>3. TakesPending'
  <2>1. ASSUME NEW i \in 1..Len(pendingTakes'), pendingTakes'[i] # Abandoned
        PROVE  /\ pc'[pendingTakes'[i]] = "taking" /\ cell'[pendingTakes'[i]] = NoValue
               /\ \A j \in 1..Len(pendingTakes') : pendingTakes'[j] = pendingTakes'[i] => j = i
    <3>1. PICK m \in 1..Len(pendingTakes) : m = i + 1 /\ pendingTakes'[i] = pendingTakes[m] BY <1>e
    <3>2. PICK u \in Threads : u = pendingTakes[m]
      BY <1>e, <2>1, <3>1
    <3>3. pc[u] = "taking" /\ cell[u] = NoValue /\ \A j \in 1..Len(pendingTakes) : pendingTakes[j] = u => j = m
      BY <2>1, <3>1, <3>2 DEF ChanInv, TakesPending
    <3>4. u # w /\ u # t BY <1>0, <1>b, <3>1, <3>2, <3>3
    <3>5. pc'[u] = "taking" /\ cell'[u] = NoValue BY <1>b, <1>c, <1>d, <1>f, <3>3, <3>4
    <3>6. \A j \in 1..Len(pendingTakes') : pendingTakes'[j] = u => j = i BY <1>e, <3>1, <3>3
    <3> QED BY <3>1, <3>2, <3>5, <3>6
  <2>2. ASSUME NEW u \in Threads, pc'[u] = "taking"
        PROVE  u \in setup'.takers /\ (cell'[u] = NoValue => \E i \in 1..Len(pendingTakes') : pendingTakes'[i] = u)
    <3>1. pc[u] = "taking" /\ u # t BY <1>d, <1>f, <2>2
    <3>2. u \in setup'.takers BY <1>a, <3>1 DEF ChanInv, TakesPending
    <3>3. ASSUME cell'[u] = NoValue PROVE \E i \in 1..Len(pendingTakes') : pendingTakes'[i] = u
      <4>1. u # w /\ cell[u] = NoValue BY <1>0, <1>b, <1>c, <1>f, <3>3, ChannelAssumption
      <4>2. PICK m \in 1..Len(pendingTakes) : pendingTakes[m] = u BY <3>1, <4>1 DEF ChanInv, TakesPending
      <4>3. m # 1 BY <1>b, <4>1, <4>2
      <4>4. m - 1 \in 1..Len(pendingTakes') /\ (m - 1) + 1 = m BY <1>e, <4>3
      <4> QED BY <1>e, <4>2, <4>4
    <3> QED BY <3>2, <3>3
  <2> QED BY <2>1, <2>2 DEF TakesPending
<1>4. PutsPending'
  BY <1>a DEF PutsPending
<1>5. CellsHeld'
  <2>1. ASSUME NEW u \in Threads, cell'[u] # NoValue
        PROVE  pc'[u] = "taking" \/ (~Buffered' /\ pc'[u] = "putting" /\ cell'[u] = arg'[u]
                                      /\ arg'[u] \in got' /\ arg'[u] \in Range(out'))
    <3>1. CASE u = w
      <4>1. pc[u] = "taking" BY <1>b, <3>1, ChannelAssumption
      <4>2. u # t BY <1>d, <4>1
      <4> QED BY <1>d, <1>f, <4>1, <4>2
    <3>2. CASE u # w
      <4>1. cell'[u] = cell[u] BY <1>b, <1>c, <1>f, <3>2
      <4>2. u # t BY <1>0, <2>1, <4>1
      <4>3. pc'[u] = pc[u] /\ arg'[u] = arg[u] BY <1>d, <1>f, <4>2
      <4>4. Range(out) \subseteq Range(out') BY <1>a, <1>f, RangeAppend
      <4> QED BY <1>a, <2>1, <4>1, <4>3, <4>4 DEF ChanInv, CellsHeld, Buffered, Kind
    <3> QED BY <3>1, <3>2
  <2> QED BY <2>1 DEF CellsHeld
<1>6. PutsOpen'
  BY DEF ChanInv, TypeOK, PutsOpen, HandsOver, PutEnds, HandOver, Resolved
<1>7. HeldAccepted'
  <2>1. \A y : y \in Range(out') <=> y \in Range(out) \/ y = v BY <1>a, <1>f, RangeAppend
  <2> QED BY <1>a, <1>d, <1>f, <2>1 DEF ChanInv, HeldAccepted, Buffered, Kind
<1>8. HeldFits'
  BY DEF ChanInv, HeldFits, HandsOver, PutEnds, HandOver, Resolved, Buffered, Kind, Capacity
<1>9. OneTakerSeen'
  <2>1. ASSUME NEW k \in Threads, setup'.takers = {k}, strays'[k] = 0, ~closed'
        PROVE  /\ \A i \in 1..Len(pendingTakes') : pendingTakes'[i] # Abandoned
               /\ cell'[k] # NoValue
    <3>1. setup.takers = {k} /\ strays[k] = 0 /\ ~closed BY <1>a, <2>1
    <3>2. w = k /\ w # Abandoned BY <1>g, <3>1
    <3>3. \A i \in 1..Len(pendingTakes) : pendingTakes[i] # Abandoned
      BY <3>1 DEF ChanInv, OneTakerSeen
    <3> QED BY <1>0, <1>c, <1>e, <1>f, <3>2, <3>3
  <2> QED BY <2>1 DEF OneTakerSeen
<1>10. OneTakerKeeps'
  <2>1. ASSUME NEW k \in Threads, setup'.takers = {k}, strays'[k] = 0, NEW x \in Values, x \in Range(out')
        PROVE  x \in got' \/ cell'[k] = x
    <3>1. setup.takers = {k} /\ strays[k] = 0 BY <1>a, <2>1
    <3>2. w = k /\ w # Abandoned BY <1>g, <3>1
    <3>3. x \in Range(out) \/ x = v BY <1>a, <1>f, <2>1, RangeAppend
    <3>4. CASE x = v BY <1>c, <1>f, <3>2, <3>4
    <3>5. CASE x \in Range(out)
      <4>1. x \in got \/ cell[k] = x BY <3>1, <3>5 DEF ChanInv, OneTakerKeeps
      <4>2. cell[k] # x BY <1>b, <3>2, ChannelAssumption
      <4> QED BY <1>a, <4>1, <4>2
    <3> QED BY <3>3, <3>4, <3>5
  <2> QED BY <2>1 DEF OneTakerKeeps
<1>11. AcceptedSeen'
  <2>1. \A y : y \in Range(out') <=> y \in Range(out) \/ y = v BY <1>a, <1>f, RangeAppend
  <2> QED BY <1>a, <1>d, <1>f, <2>1 DEF ChanInv, AcceptedSeen, Kind
<1> QED
  BY <1>1, <1>2, <1>3, <1>4, <1>5, <1>6, <1>7, <1>8, <1>9, <1>10, <1>11 DEF ChanInv

LEMMA RegistersKeeps ==
  ASSUME ChanInv, NEW t \in Threads, NEW v \in Values, Registers(t, v)
  PROVE  ChanInv'
<1>0. /\ t \in Threads /\ t \in setup.putters /\ pc[t] = "idle" /\ verdict[v] = "unsent"
      /\ ~Buffered /\ ~closed /\ pendingTakes = << >>
      /\ pendingPuts' = Append(pendingPuts, [by |-> t, val |-> v])
      /\ notFull' = notFull \cup {t}
      /\ pc' = [pc EXCEPT ![t] = "putting"]
      /\ arg' = [arg EXCEPT ![t] = v]
      /\ verdict' = [verdict EXCEPT ![v] = "pending"]
      /\ UNCHANGED <<setup, strays, buf, closed, pendingTakes, notEmpty, cell, got, out>>
  BY DEF Registers, PutBlocks
<1>a. /\ pc \in [Threads -> {"idle", "putting", "taking"}]
      /\ arg \in [Threads -> Values \cup {NoValue}]
      /\ cell \in [Threads -> Values \cup {NoValue}]
      /\ setup.putters \subseteq Threads
  BY SetupIs DEF ChanInv, TypeOK
<1>b. /\ pendingPuts' \in Seq([by : Threads \cup {Abandoned}, val : Values])
      /\ Len(pendingPuts') = Len(pendingPuts) + 1 /\ Len(pendingPuts) \in Nat
      /\ \A i \in 1..Len(pendingPuts) : pendingPuts'[i] = pendingPuts[i]
      /\ pendingPuts'[Len(pendingPuts) + 1].by = t /\ pendingPuts'[Len(pendingPuts) + 1].val = v
  <2>0. [by |-> t, val |-> v] \in [by : Threads \cup {Abandoned}, val : Values]
    OBVIOUS
  <2>1. PICK r : r = [by |-> t, val |-> v]
    OBVIOUS
  <2>2. PICK R : /\ R = [by : Threads \cup {Abandoned}, val : Values]
                 /\ pendingPuts \in Seq(R) /\ r \in R
    BY <2>0, <2>1 DEF ChanInv, TypeOK
  <2>3. pendingPuts' = Append(pendingPuts, r) BY <1>0, <2>1
  <2>4. /\ pendingPuts' \in Seq(R) /\ Len(pendingPuts') = Len(pendingPuts) + 1 /\ Len(pendingPuts) \in Nat
        /\ \A i \in 1..Len(pendingPuts) : pendingPuts'[i] = pendingPuts[i]
        /\ pendingPuts'[Len(pendingPuts) + 1] = r
    BY <2>2, <2>3
  <2>5. r.by = t /\ r.val = v BY <2>1
  <2> QED BY <2>2, <2>4, <2>5
<1>1. TypeOK'
  BY <1>0, <1>b DEF ChanInv, TypeOK
<1>2. NothingToTake'
  BY DEF ChanInv, NothingToTake, Registers, PutBlocks, Buffered, Kind
<1>3. TakesPending'
  BY DEF ChanInv, TakesPending, Registers, PutBlocks
<1>4. PutsPending'
  <2>1. \A i \in 1..Len(pendingPuts) :
          /\ pendingPuts[i].by # Abandoned /\ pendingPuts[i].by \in Threads
          /\ pendingPuts[i].by \in setup.putters
          /\ pc[pendingPuts[i].by] = "putting" /\ cell[pendingPuts[i].by] = NoValue
          /\ arg[pendingPuts[i].by] = pendingPuts[i].val
          /\ \A j \in 1..Len(pendingPuts) : pendingPuts[j].by = pendingPuts[i].by => j = i
    BY <1>0, <1>a DEF ChanInv, PutsPending
  <2>2. \A i \in 1..Len(pendingPuts) : pendingPuts[i].by # t
    BY <1>0, <2>1
  <2>3. cell[t] = NoValue BY <1>0 DEF ChanInv, CellsHeld
  <2>4. ASSUME NEW i \in 1..Len(pendingPuts')
        PROVE  /\ pendingPuts'[i].by # Abandoned /\ pendingPuts'[i].by \in setup'.putters
               /\ pc'[pendingPuts'[i].by] = "putting" /\ cell'[pendingPuts'[i].by] = NoValue
               /\ arg'[pendingPuts'[i].by] = pendingPuts'[i].val
               /\ \A j \in 1..Len(pendingPuts') : pendingPuts'[j].by = pendingPuts'[i].by => j = i
    <3>1. CASE i \in 1..Len(pendingPuts)
      <4>1. PICK u \in Threads : u = pendingPuts[i].by BY <2>1, <3>1
      <4>2. u # t BY <2>2, <3>1, <4>1
      <4>3. pc'[u] = pc[u] /\ arg'[u] = arg[u] BY <1>0, <1>a, <4>2
      <4>4. pendingPuts'[i] = pendingPuts[i] BY <1>b, <3>1
      <4>5. ASSUME NEW j \in 1..Len(pendingPuts'), pendingPuts'[j].by = u PROVE j = i
        <5>1. j \in 1..Len(pendingPuts) BY <1>b, <4>2, <4>5
        <5> QED BY <1>b, <2>1, <3>1, <4>1, <4>5, <5>1
      <4>6. u # Abandoned /\ u \in setup.putters /\ pc[u] = "putting" /\ cell[u] = NoValue /\ arg[u] = pendingPuts[i].val
        BY <2>1, <3>1, <4>1
      <4> QED BY <1>0, <4>1, <4>3, <4>4, <4>5, <4>6
    <3>2. CASE i = Len(pendingPuts) + 1
      <4>1. pendingPuts'[i].by = t /\ pendingPuts'[i].val = v BY <1>b, <3>2
      <4>2. ASSUME NEW j \in 1..Len(pendingPuts'), pendingPuts'[j].by = t PROVE j = i
        <5>1. j \notin 1..Len(pendingPuts) BY <1>b, <2>2, <4>2
        <5> QED BY <1>b, <3>2, <5>1
      <4>3. pc'[t] = "putting" /\ arg'[t] = v /\ cell'[t] = NoValue BY <1>0, <1>a, <2>3
      <4> QED BY <1>0, <4>1, <4>2, <4>3, ChannelAssumption
    <3> QED BY <1>b, <3>1, <3>2
  <2> QED BY <2>4 DEF PutsPending
<1>5. CellsHeld'
  BY DEF ChanInv, CellsHeld, Registers, PutBlocks, Buffered, Kind
<1>6. PutsOpen'
  BY DEF ChanInv, TypeOK, PutsOpen, Registers, PutBlocks
<1>7. HeldAccepted'
  BY DEF ChanInv, HeldAccepted, Registers, PutBlocks, Buffered, Kind
<1>8. HeldFits'
  BY DEF ChanInv, HeldFits, Registers, PutBlocks, Buffered, Kind
<1>9. OneTakerSeen'
  BY DEF ChanInv, OneTakerSeen, Registers, PutBlocks
<1>10. OneTakerKeeps'
  BY DEF ChanInv, OneTakerKeeps, Registers, PutBlocks, Buffered
<1>11. AcceptedSeen'
  BY DEF ChanInv, TypeOK, AcceptedSeen, Registers, PutBlocks, Kind
<1> QED
  BY <1>1, <1>2, <1>3, <1>4, <1>5, <1>6, <1>7, <1>8, <1>9, <1>10, <1>11 DEF ChanInv

LEMMA PutResumesKeeps ==
  ASSUME ChanInv, NEW t \in Threads, PutResumes(t)
  PROVE  ChanInv'
<1>0. /\ LeavePut(t) \in Seq([by : Threads \cup {Abandoned}, val : Values])
      /\ Len(LeavePut(t)) = Len(pendingPuts)
      /\ \A i \in 1..Len(pendingPuts) :
           /\ LeavePut(t)[i].by = IF pendingPuts[i].by = t THEN Abandoned ELSE pendingPuts[i].by
           /\ LeavePut(t)[i].val = pendingPuts[i].val
  BY LeavePutIs DEF ChanInv, PutResumes
<1>a. arg[t] \in Values /\ verdict[arg[t]] = "pending"
  BY DEF ChanInv, PutsOpen, PutResumes
<1>1. TypeOK'
  BY <1>0, <1>a DEF ChanInv, TypeOK, PutResumes
<1>2. NothingToTake'
  BY DEF ChanInv, NothingToTake, PutResumes, LeavePut, Buffered, Kind
<1>3. TakesPending'
  BY DEF ChanInv, TakesPending, PutResumes, LeavePut
<1>4. PutsPending'
  BY DEF ChanInv, PutsPending, PutResumes, LeavePut
<1>5. CellsHeld'
  BY DEF ChanInv, TypeOK, CellsHeld, PutResumes, LeavePut, Buffered, Kind
<1>6. PutsOpen'
  BY DEF ChanInv, TypeOK, PutsOpen, PutResumes, LeavePut
<1>7. HeldAccepted'
  BY DEF ChanInv, HeldAccepted, PutResumes, LeavePut, Buffered, Kind
<1>8. HeldFits'
  BY DEF ChanInv, HeldFits, PutResumes, LeavePut, Buffered, Kind
<1>9. OneTakerSeen'
  BY DEF ChanInv, OneTakerSeen, PutResumes, LeavePut
<1>10. OneTakerKeeps'
  <2>1. ASSUME NEW k \in Threads, setup.takers = {k}, strays[k] = 0, NEW x \in Values, x \in Range(out)
        PROVE  x \in got \/ cell'[k] = x
    <3>1. x \in got \/ cell[k] = x BY <2>1 DEF ChanInv, OneTakerKeeps
    <3>2. CASE cell[k] = x /\ k = t
      <4>1. cell[t] # NoValue BY <3>2, ChannelAssumption
      <4> QED BY <3>2, <4>1 DEF PutResumes, ChanInv, CellsHeld
    <3>3. CASE cell[k] = x /\ k # t BY <3>3 DEF PutResumes, ChanInv, TypeOK
    <3> QED BY <3>1, <3>2, <3>3
  <2> QED BY <2>1 DEF OneTakerKeeps, PutResumes
<1>11. AcceptedSeen'
  <2>1. ASSUME NEW x \in Values, verdict'[x] = "true", x # arg[t] PROVE verdict[x] = "true"
    BY <1>a, <2>1 DEF PutResumes, ChanInv, TypeOK
  <2>2. ASSUME verdict'[arg[t]] = "true" PROVE arg[t] \in Range(out)
    <3>1. ~closed BY <1>a, <2>2 DEF PutResumes, ChanInv, TypeOK
    <3>2. cell[t] # NoValue /\ pc[t] = "putting" BY <3>1 DEF PutResumes
    <3> QED BY <3>2 DEF PutResumes, ChanInv, CellsHeld
  <2>3. UNCHANGED <<setup, buf, out>> BY DEF PutResumes
  <2> QED BY <2>1, <2>2, <2>3 DEF ChanInv, AcceptedSeen, Kind
<1> QED
  BY <1>1, <1>2, <1>3, <1>4, <1>5, <1>6, <1>7, <1>8, <1>9, <1>10, <1>11 DEF ChanInv

LEMMA TakesFromPutKeeps ==
  ASSUME ChanInv, TakesFromPut
  PROVE  ChanInv'
<1>0. PICK w, x : /\ w = Head(pendingPuts).by /\ x = Head(pendingPuts).val /\ x \in Values
                  /\ w # Abandoned => /\ w \in Threads /\ pc[w] = "putting" /\ cell[w] = NoValue /\ arg[w] = x
                                      /\ \A i \in 1..Len(pendingPuts) : pendingPuts[i].by = w => i = 1
  BY FirstPut DEF TakesFromPut
<1>a. /\ cell' = IF w = Abandoned THEN cell ELSE [cell EXCEPT ![w] = x]
      /\ got' = got \cup {x} /\ out' = Append(out, x)
      /\ pendingPuts' = Tail(pendingPuts) /\ pendingPuts # << >> /\ pendingTakes = << >>
      /\ notFull' \subseteq notFull /\ ~Buffered
      /\ UNCHANGED <<setup, strays, buf, closed, pendingTakes, notEmpty, pc, arg, verdict>>
  BY <1>0 DEF TakesFromPut, Resolved
<1>b. /\ pendingPuts' \in Seq([by : Threads \cup {Abandoned}, val : Values])
      /\ Len(pendingPuts') = Len(pendingPuts) - 1 /\ Len(pendingPuts) \in Nat \ {0}
      /\ \A i \in 1..Len(pendingPuts') : i + 1 \in 1..Len(pendingPuts) /\ pendingPuts'[i] = pendingPuts[i + 1]
  <2>1. pendingPuts \in Seq([by : Threads \cup {Abandoned}, val : Values]) BY DEF ChanInv, TypeOK
  <2> QED BY <1>a, <2>1, TailIs
<1>c. /\ pc \in [Threads -> {"idle", "putting", "taking"}]
      /\ cell \in [Threads -> Values \cup {NoValue}]
      /\ setup.putters \subseteq Threads /\ out \in Seq(Values)
  BY SetupIs DEF ChanInv, TypeOK
<1>d. /\ cell' \in [Threads -> Values \cup {NoValue}]
      /\ \A u \in Threads : u # w => cell'[u] = cell[u]
  BY <1>0, <1>a, <1>c
<1>f. \A y : y \in Range(out') <=> y \in Range(out) \/ y = x
  BY <1>0, <1>a, <1>c, RangeAppend
<1>e. \A u \in Threads : pc[u] = "taking" => cell'[u] = cell[u]
  <2>1. ASSUME NEW u \in Threads, pc[u] = "taking" PROVE u # w
    BY <1>0, <2>1, ChannelAssumption
  <2> QED BY <1>d, <2>1
<1>1. TypeOK'
  <2>1. out' \in Seq(Values) BY <1>0, <1>a, <1>c
  <2> QED BY <1>0, <1>a, <1>b, <1>d, <2>1 DEF ChanInv, TypeOK
<1>2. NothingToTake'
  BY <1>a DEF ChanInv, NothingToTake, Buffered, Kind
<1>3. TakesPending'
  BY <1>a, <1>e DEF ChanInv, TakesPending
<1>4. PutsPending'
  <2>1. ASSUME NEW i \in 1..Len(pendingPuts')
        PROVE  /\ ~closed' => pendingPuts'[i].by # Abandoned
               /\ pendingPuts'[i].by # Abandoned =>
                    /\ pendingPuts'[i].by \in setup'.putters
                    /\ pc'[pendingPuts'[i].by] = "putting" /\ cell'[pendingPuts'[i].by] = NoValue
                    /\ arg'[pendingPuts'[i].by] = pendingPuts'[i].val
                    /\ \A j \in 1..Len(pendingPuts') : pendingPuts'[j].by = pendingPuts'[i].by => j = i
    <3>1. PICK m \in 1..Len(pendingPuts) : m = i + 1 /\ pendingPuts'[i] = pendingPuts[m] BY <1>b
    <3>2. ~closed => pendingPuts[m].by # Abandoned BY DEF ChanInv, PutsPending
    <3>3. ASSUME pendingPuts[m].by # Abandoned
          PROVE  /\ pendingPuts[m].by \in setup.putters
                 /\ pc[pendingPuts[m].by] = "putting" /\ cell'[pendingPuts[m].by] = NoValue
                 /\ arg[pendingPuts[m].by] = pendingPuts[m].val
                 /\ \A j \in 1..Len(pendingPuts') : pendingPuts'[j].by = pendingPuts[m].by => j = i
      <4>1. /\ pendingPuts[m].by \in setup.putters
            /\ pc[pendingPuts[m].by] = "putting" /\ cell[pendingPuts[m].by] = NoValue
            /\ arg[pendingPuts[m].by] = pendingPuts[m].val
            /\ \A j \in 1..Len(pendingPuts) : pendingPuts[j].by = pendingPuts[m].by => j = m
        BY <3>3 DEF ChanInv, PutsPending
      <4>2. pendingPuts[m].by # w BY <1>0, <1>b, <3>1, <3>3
      <4>3. cell'[pendingPuts[m].by] = NoValue BY <1>c, <1>d, <4>1, <4>2
      <4>4. \A j \in 1..Len(pendingPuts') : pendingPuts'[j].by = pendingPuts[m].by => j = i
        BY <1>b, <3>1, <4>1
      <4> QED BY <4>1, <4>3, <4>4
    <3> QED BY <1>a, <3>1, <3>2, <3>3
  <2> QED BY <2>1 DEF PutsPending
<1>5. CellsHeld'
  <2>1. ASSUME NEW u \in Threads, cell'[u] # NoValue
        PROVE  pc[u] = "taking" \/ (~Buffered /\ pc[u] = "putting" /\ cell'[u] = arg[u]
                                     /\ arg[u] \in got' /\ arg[u] \in Range(out'))
    <3>1. CASE u = w
      <4>1. w # Abandoned BY <3>1, ChannelAssumption
      <4> QED BY <1>0, <1>a, <1>c, <1>f, <3>1, <4>1
    <3>2. CASE u # w BY <1>a, <1>d, <1>f, <2>1, <3>2 DEF ChanInv, CellsHeld
    <3> QED BY <3>1, <3>2
  <2> QED BY <1>a, <2>1 DEF CellsHeld, Buffered, Kind
<1>6. PutsOpen'
  BY <1>a DEF ChanInv, PutsOpen
<1>7. HeldAccepted'
  BY <1>a DEF HeldAccepted, Buffered, Kind
<1>8. HeldFits'
  BY <1>a DEF HeldFits, Buffered, Kind
<1>9. OneTakerSeen'
  BY <1>a, <1>e DEF ChanInv, OneTakerSeen
<1>10. OneTakerKeeps'
  <2>1. ASSUME NEW k \in Threads, NEW y \in Values, cell[k] = y PROVE cell'[k] = y
    <3>1. k # w BY <1>0, <2>1, ChannelAssumption
    <3> QED BY <1>d, <2>1, <3>1
  <2> QED BY <1>a, <1>f, <2>1 DEF ChanInv, OneTakerKeeps
<1>11. AcceptedSeen'
  BY <1>a, <1>f DEF ChanInv, AcceptedSeen, Kind
<1> QED
  BY <1>1, <1>2, <1>3, <1>4, <1>5, <1>6, <1>7, <1>8, <1>9, <1>10, <1>11 DEF ChanInv

LEMMA TakeBlocksKeeps ==
  ASSUME ChanInv, NEW t \in Threads, TakeBlocks(t)
  PROVE  ChanInv'
<1>0. /\ LeaveTake(t) \in Seq(Threads \cup {Abandoned}) /\ Len(LeaveTake(t)) = Len(pendingTakes)
      /\ Len(pendingTakes) \in Nat
      /\ \A i \in 1..Len(pendingTakes) :
           LeaveTake(t)[i] = IF pendingTakes[i] = t THEN Abandoned ELSE pendingTakes[i]
  BY LeaveTakeIs DEF ChanInv
<1>a. /\ pendingTakes' \in Seq(Threads \cup {Abandoned}) /\ Len(pendingTakes') = Len(pendingTakes) + 1
      /\ \A i \in 1..Len(pendingTakes) :
           pendingTakes'[i] = IF pendingTakes[i] = t THEN Abandoned ELSE pendingTakes[i]
      /\ pendingTakes'[Len(pendingTakes) + 1] = t
  BY <1>0 DEF TakeBlocks
<1>b. /\ ~closed /\ buf = << >> /\ pendingPuts = << >>
      /\ notEmpty' = notEmpty \cup {t} /\ pc' = [pc EXCEPT ![t] = "taking"]
      /\ UNCHANGED <<setup, strays, buf, closed, pendingPuts, notFull, arg, cell, verdict, got, out>>
      /\ pc \in [Threads -> {"idle", "putting", "taking"}]
  BY DEF TakeBlocks, ChanInv, TypeOK
<1>c. t \in setup.takers /\ cell[t] = NoValue /\ (pc[t] = "idle" \/ (pc[t] = "taking" /\ t \notin notEmpty))
  BY DEF TakeBlocks, TakeTurns, ChanInv, TakesPending, CellsHeld
<1>d. \A i \in 1..Len(pendingTakes) : pendingTakes[i] # Abandoned =>
        /\ pendingTakes[i] \in Threads /\ pc[pendingTakes[i]] = "taking" /\ cell[pendingTakes[i]] = NoValue
        /\ \A j \in 1..Len(pendingTakes) : pendingTakes[j] = pendingTakes[i] => j = i
  <2>1. \A i \in 1..Len(pendingTakes) : pendingTakes[i] \in Threads \cup {Abandoned}
    BY ElementIs DEF ChanInv, TypeOK
  <2> QED BY <2>1 DEF ChanInv, TakesPending
<1>1. TypeOK'
  BY <1>a, <1>b, <1>c DEF ChanInv, TypeOK
<1>2. NothingToTake'
  BY DEF ChanInv, NothingToTake, TakeBlocks, LeaveTake
<1>3. TakesPending'
  <2>1. ASSUME NEW i \in 1..Len(pendingTakes'), pendingTakes'[i] # Abandoned
        PROVE  /\ pc'[pendingTakes'[i]] = "taking" /\ cell'[pendingTakes'[i]] = NoValue
               /\ \A j \in 1..Len(pendingTakes') : pendingTakes'[j] = pendingTakes'[i] => j = i
    <3>1. CASE i \in 1..Len(pendingTakes)
      <4>1. pendingTakes'[i] = pendingTakes[i] /\ pendingTakes[i] # t BY <1>a, <2>1, <3>1
      <4>2. PICK u \in Threads : u = pendingTakes[i] BY <1>d, <2>1, <3>1, <4>1
      <4>3. /\ pc[u] = "taking" /\ cell[u] = NoValue
            /\ \A j \in 1..Len(pendingTakes) : pendingTakes[j] = u => j = i
        BY <1>d, <2>1, <3>1, <4>1, <4>2
      <4>4. u # Abandoned BY ChannelAssumption
      <4>5. \A j \in 1..Len(pendingTakes') : pendingTakes'[j] = u => j = i
        BY <1>0, <1>a, <4>1, <4>2, <4>3, <4>4
      <4> QED BY <1>b, <4>1, <4>2, <4>3, <4>5
    <3>2. CASE i = Len(pendingTakes) + 1
      <4>1. \A j \in 1..Len(pendingTakes) : pendingTakes'[j] # t BY <1>a, ChannelAssumption
      <4> QED BY <1>0, <1>a, <1>b, <1>c, <3>2, <4>1
    <3> QED BY <1>0, <1>a, <3>1, <3>2
  <2>2. ASSUME NEW u \in Threads, pc'[u] = "taking"
        PROVE  u \in setup'.takers /\ (cell'[u] = NoValue => \E i \in 1..Len(pendingTakes') : pendingTakes'[i] = u)
    <3>1. CASE u = t BY <1>0, <1>a, <1>b, <1>c, <3>1
    <3>2. CASE u # t
      <4>1. pc[u] = "taking" BY <1>b, <2>2, <3>2
      <4>2. u \in setup.takers /\ (cell[u] = NoValue => \E i \in 1..Len(pendingTakes) : pendingTakes[i] = u)
        BY <4>1 DEF ChanInv, TakesPending
      <4>3. \A i \in 1..Len(pendingTakes) : pendingTakes[i] = u => pendingTakes'[i] = u /\ i \in 1..Len(pendingTakes')
        BY <1>0, <1>a, <3>2
      <4> QED BY <1>b, <4>2, <4>3
    <3> QED BY <3>1, <3>2
  <2> QED BY <2>1, <2>2 DEF TakesPending
<1>4. PutsPending'
  BY DEF ChanInv, PutsPending, TakeBlocks, LeaveTake
<1>5. CellsHeld'
  BY DEF ChanInv, CellsHeld, TakeBlocks, LeaveTake, Buffered, Kind
<1>6. PutsOpen'
  BY DEF ChanInv, PutsOpen, TakeBlocks, LeaveTake
<1>7. HeldAccepted'
  BY DEF ChanInv, HeldAccepted, TakeBlocks, LeaveTake, Buffered, Kind
<1>8. HeldFits'
  BY DEF ChanInv, HeldFits, TakeBlocks, LeaveTake, Buffered, Kind, Capacity
<1>9. OneTakerSeen'
  <2>1. ASSUME NEW k \in Threads, setup.takers = {k}, strays[k] = 0
        PROVE  /\ \A i \in 1..Len(pendingTakes') : pendingTakes'[i] # Abandoned
               /\ k \in notEmpty'
    <3>1. k = t BY <1>c, <2>1
    <3>2. /\ \A i \in 1..Len(pendingTakes) : pendingTakes[i] # Abandoned
          /\ pc[k] = "taking" /\ cell[k] = NoValue => k \in notEmpty
      BY <1>b, <2>1 DEF ChanInv, OneTakerSeen
    <3>3. pc[t] = "idle" BY <1>c, <3>1, <3>2
    <3>4. \A i \in 1..Len(pendingTakes) : pendingTakes[i] # t BY <1>d, <3>2, <3>3
    <3>5. \A i \in 1..Len(pendingTakes) : pendingTakes'[i] # Abandoned BY <1>a, <3>2, <3>4
    <3>6. \A i \in 1..Len(pendingTakes') : i \in 1..Len(pendingTakes) \/ i = Len(pendingTakes) + 1
      BY <1>0, <1>a
    <3> QED BY <1>a, <1>b, <3>1, <3>5, <3>6, ChannelAssumption
  <2> QED BY <1>b, <2>1 DEF OneTakerSeen
<1>10. OneTakerKeeps'
  BY DEF ChanInv, OneTakerKeeps, TakeBlocks, LeaveTake, Kind
<1>11. AcceptedSeen'
  BY DEF ChanInv, AcceptedSeen, TakeBlocks, Kind
<1> QED
  BY <1>1, <1>2, <1>3, <1>4, <1>5, <1>6, <1>7, <1>8, <1>9, <1>10, <1>11 DEF ChanInv

LEMMA StrayKeeps ==
  ASSUME ChanInv, NEW t \in Threads, Stray(t)
  PROVE  ChanInv'
<1>0. /\ strays \in [Threads -> Nat] /\ strays' = [strays EXCEPT ![t] = strays[t] + 1]
      /\ notEmpty' = notEmpty \ {t} /\ notFull' = notFull \ {t}
      /\ UNCHANGED <<setup, buf, closed, pendingPuts, pendingTakes, pc, arg, cell, verdict, got, out>>
  BY DEF Stray, ChanInv, TypeOK
<1>a. /\ strays' \in [Threads -> Nat]
      /\ \A u \in Threads : strays'[u] = 0 => u # t /\ strays[u] = 0
  BY <1>0
<1>1. TypeOK'
  BY <1>0, <1>a DEF ChanInv, TypeOK
<1>2. NothingToTake'
  BY <1>0 DEF ChanInv, NothingToTake, Buffered, Kind
<1>3. TakesPending'
  BY <1>0 DEF ChanInv, TakesPending
<1>4. PutsPending'
  BY <1>0 DEF ChanInv, PutsPending
<1>5. CellsHeld'
  BY <1>0 DEF ChanInv, CellsHeld, Buffered, Kind
<1>6. PutsOpen'
  BY <1>0 DEF ChanInv, PutsOpen
<1>7. HeldAccepted'
  BY <1>0 DEF ChanInv, HeldAccepted, Buffered, Kind
<1>8. HeldFits'
  BY <1>0 DEF ChanInv, HeldFits, Buffered, Kind, Capacity
<1>9. OneTakerSeen'
  BY <1>0, <1>a DEF ChanInv, OneTakerSeen
<1>10. OneTakerKeeps'
  BY <1>0, <1>a DEF ChanInv, OneTakerKeeps
<1>11. AcceptedSeen'
  BY <1>0 DEF ChanInv, AcceptedSeen, Kind
<1> QED
  BY <1>1, <1>2, <1>3, <1>4, <1>5, <1>6, <1>7, <1>8, <1>9, <1>10, <1>11 DEF ChanInv

-----------------------------------------------------------------------------
(* ChanInv is an invariant. *)

LEMMA ChanInvInit == Init => ChanInv
<1> SUFFICES ASSUME Init PROVE ChanInv
  OBVIOUS
<1>0. /\ setup \in Setups /\ buf = << >> /\ closed = FALSE /\ pendingPuts = << >> /\ pendingTakes = << >>
      /\ notEmpty = {} /\ notFull = {} /\ got = {} /\ out = << >>
      /\ pc = [t \in Threads |-> "idle"] /\ cell = [t \in Threads |-> NoValue]
      /\ arg = [t \in Threads |-> NoValue] /\ verdict = [v \in Values |-> "unsent"]
      /\ strays = [t \in Threads |-> 0]
  BY DEF Init
<1>1. TypeOK
  <2>1. \A S : << >> \in Seq(S) OBVIOUS
  <2>2. /\ buf \in Seq(Values) /\ out \in Seq(Values) /\ pendingTakes \in Seq(Threads \cup {Abandoned})
        /\ pendingPuts \in Seq([by : Threads \cup {Abandoned}, val : Values])
    BY <1>0, <2>1
  <2> QED BY <1>0, <2>2 DEF TypeOK
<1>2. NothingToTake /\ TakesPending /\ PutsPending
  BY <1>0 DEF NothingToTake, TakesPending, PutsPending
<1>3. CellsHeld /\ PutsOpen /\ OneTakerSeen /\ OneTakerKeeps
  BY <1>0 DEF CellsHeld, PutsOpen, OneTakerSeen, OneTakerKeeps, Range
<1>4. HeldAccepted /\ AcceptedSeen
  BY <1>0 DEF HeldAccepted, AcceptedSeen, Range
<1>5. HeldFits
  BY <1>0, <1>1, SetupIs DEF HeldFits
<1> QED
  BY <1>1, <1>2, <1>3, <1>4, <1>5 DEF ChanInv

LEMMA EffectKeeps == ChanInv /\ Effect => ChanInv'
<1> SUFFICES ASSUME ChanInv, Effect PROVE ChanInv'
  OBVIOUS
<1>1. CASE \E t \in Threads, v \in Values : Refuses(t, v) \/ HandsOver(t, v) \/ Adds(t, v)
                                             \/ BlocksOnFull(t, v) \/ Registers(t, v)
  BY <1>1, RefusesKeeps, HandsOverKeeps, AddsKeeps, BlocksOnFullKeeps, RegistersKeeps
<1>2. CASE \E t \in Threads : PutResumes(t) \/ PutSleepsOn(t) \/ TakesNothing(t)
                              \/ TakeBlocks(t) \/ TakesFromCell(t) \/ Stray(t)
  BY <1>2, PutResumesKeeps, PutSleepsOnKeeps, TakesNothingKeeps, TakeBlocksKeeps, TakesFromCellKeeps, StrayKeeps
<1>3. CASE TakesFromBuffer \/ TakesFromPut \/ Closes
  BY <1>3, TakesFromBufferKeeps, TakesFromPutKeeps, ClosesKeeps
<1> QED
  BY <1>1, <1>2, <1>3 DEF Effect

LEMMA ChanInvStep == ChanInv /\ [Next]_vars => ChanInv'
<1>1. ASSUME ChanInv, Next PROVE ChanInv'
  BY <1>1, EffectsCover, EffectKeeps
<1>2. ASSUME ChanInv, UNCHANGED vars PROVE ChanInv'
  <2>1. TypeOK' /\ NothingToTake' /\ TakesPending' /\ PutsPending'
    BY <1>2 DEF vars, ChanInv, TypeOK, NothingToTake, TakesPending, PutsPending, Buffered, Kind
  <2>2. CellsHeld' /\ PutsOpen' /\ HeldAccepted' /\ HeldFits'
    BY <1>2 DEF vars, ChanInv, CellsHeld, PutsOpen, HeldAccepted, HeldFits, Buffered, Kind, Capacity
  <2>3. OneTakerSeen' /\ OneTakerKeeps' /\ AcceptedSeen'
    BY <1>2 DEF vars, ChanInv, OneTakerSeen, OneTakerKeeps, AcceptedSeen, Kind
  <2> QED BY <2>1, <2>2, <2>3 DEF ChanInv
<1> QED
  BY <1>1, <1>2

LEMMA ChanInvAlways == Spec => []ChanInv
BY ChanInvInit, ChanInvStep, PTL DEF Spec

-----------------------------------------------------------------------------
(* The theorems. *)

(* For any number of putters, takers, pollers and values, any capacity and  *)
(* any stray wake-ups: unless its buffer may discard, a value whose put     *)
(* answered true was filtered, is in the buffer or has left the channel.    *)
(* What leaves a channel arrives as long as it has one taker, which only    *)
(* notifications have woken: the "accepted" of >!!'s docstring.             *)
THEOREM AcceptedNeverLost == Spec => []AcceptedNotLost
<1>1. ChanInv => AcceptedNotLost
  <2> SUFFICES ASSUME ChanInv PROVE AcceptedNotLost
    OBVIOUS
  <2>1. TypeOK BY DEF ChanInv
  <2>2. Kind \in {"unbuffered", "fixed"} => Accepted
    BY DEF ChanInv, AcceptedSeen, Accepted
  <2>3. ASSUME TakerUndisturbed PROVE Received
    <3>1. PICK k \in Threads : setup.takers = {k} /\ strays[k] = 0
      BY <2>3 DEF TakerUndisturbed
    <3>2. out \in Seq(Values) BY <2>1 DEF TypeOK
    <3>3. \A v \in Range(out) : v \in Values BY <3>2, RangeIs, ElementIs
    <3>4. \A v \in Range(out) : v \in got \/ cell[k] = v
      BY <3>1, <3>3 DEF ChanInv, OneTakerKeeps
    <3> QED BY <3>1, <3>4 DEF Received
  <2> QED BY <2>1, <2>2, <2>3 DEF AcceptedNotLost
<1> QED
  BY <1>1, ChanInvAlways, PTL

(* On a channel with a buffer, a value whose put answered nil (the channel  *)
(* was closed, or offer! found no room) is never taken.                     *)
THEOREM RefusedStaysOut == Spec => []RefusedNeverTaken
<1>1. ChanInv => RefusedNeverTaken
  BY DEF ChanInv, HeldAccepted, RefusedNeverTaken
<1> QED
  BY <1>1, ChanInvAlways, PTL

-----------------------------------------------------------------------------
(* The channel implements FifoChannel. *)

Cells == [by : Threads \cup {Abandoned}, val : Values]

(* The values held: those in the buffer, then those of the pending puts. *)
Held(b, p) == b \o [i \in DOMAIN p |-> p[i].val]

LEMMA SameSequence ==
  ASSUME NEW S, NEW s \in Seq(S), NEW r \in Seq(S), Len(s) = Len(r), \A i \in 1..Len(s) : s[i] = r[i]
  PROVE  s = r
OBVIOUS

LEMMA HeldInBuffer ==
  ASSUME NEW b \in Seq(Values)
  PROVE  Held(b, << >>) = b
<1>1. PICK p : p = [i \in DOMAIN << >> |-> (<< >>)[i].val]
  OBVIOUS
<1>2. p = << >>
  BY <1>1
<1>3. b \o << >> = b
  OBVIOUS
<1> QED
  BY <1>1, <1>2, <1>3 DEF Held

LEMMA HeldByPuts ==
  ASSUME NEW p \in Seq(Cells)
  PROVE  /\ Held(<< >>, p) \in Seq(Values) /\ Len(Held(<< >>, p)) = Len(p) /\ Len(p) \in Nat
         /\ \A i \in 1..Len(p) : Held(<< >>, p)[i] = p[i].val
<1>1. DOMAIN p = 1..Len(p) /\ Len(p) \in Nat
  OBVIOUS
<1>2. \A i \in 1..Len(p) : p[i] \in Cells
  BY ElementIs
<1>3. PICK r : r = [i \in 1..Len(p) |-> p[i].val]
  OBVIOUS
<1>4. r \in [1..Len(p) -> Values] /\ \A i \in 1..Len(p) : r[i] = p[i].val
  BY <1>2, <1>3 DEF Cells
<1>5. r \in Seq(Values) /\ Len(r) = Len(p)
  BY <1>1, <1>4, FunctionIsSequence
<1>6. << >> \o r = r
  BY <1>5
<1> QED
  BY <1>1, <1>3, <1>4, <1>5, <1>6 DEF Held

(* A put that registers finds room: those that are pending are other        *)
(* putters, each once.                                                      *)
LEMMA RegisterFits ==
  ASSUME ChanInv, IsFiniteSet(Threads), NEW t \in Threads, NEW v \in Values, Registers(t, v)
  PROVE  Len(pendingPuts) < Cardinality(setup.putters)
<1>0. setup.putters \subseteq Threads /\ t \in setup.putters /\ pc[t] = "idle" /\ ~closed
  BY SetupIs DEF ChanInv, Registers, PutBlocks
<1>1. IsFiniteSet(setup.putters)
  BY <1>0, FS_Subset
<1>2. /\ IsFiniteSet(setup.putters \ {t})
      /\ Cardinality(setup.putters \ {t}) = Cardinality(setup.putters) - 1
      /\ Cardinality(setup.putters) \in Nat
  BY <1>0, <1>1, FS_RemoveElement, FS_CardinalityType
<1>3. \A i \in 1..Len(pendingPuts) :
        /\ pendingPuts[i].by \in setup.putters \ {t}
        /\ \A j \in 1..Len(pendingPuts) : pendingPuts[j].by = pendingPuts[i].by => j = i
  BY <1>0 DEF ChanInv, PutsPending
<1>4. PICK f : f = [i \in 1..Len(pendingPuts) |-> pendingPuts[i].by]
  OBVIOUS
<1>5. f \in Injection(1..Len(pendingPuts), setup.putters \ {t})
  BY <1>3, <1>4 DEF Injection, IsInjective
<1>6. Len(pendingPuts) \in Nat
  BY DEF ChanInv, TypeOK
<1>7. Cardinality(1..Len(pendingPuts)) = Len(pendingPuts)
  <2>1. PICK n \in Nat : n = Len(pendingPuts) BY <1>6
  <2>2. 1 \in Int /\ n \in Int OBVIOUS
  <2>3. Cardinality(1..n) = IF 1 > n THEN 0 ELSE n - 1 + 1 BY ONLY <2>2, FS_Interval
  <2>4. Cardinality(1..n) = n BY <2>3
  <2> QED BY <2>1, <2>4
<1>8. Cardinality(1..Len(pendingPuts)) <= Cardinality(setup.putters \ {t})
  BY <1>2, <1>5, FS_Injection
<1> QED
  BY <1>2, <1>6, <1>7, <1>8

FifoVars == <<Held(buf, pendingPuts), out, closed, Room, Kind = "sliding">>

(* A step that leaves the values where they are. *)
Still == UNCHANGED <<setup, buf, closed, pendingPuts, out>>

LEMMA StillIsStutter == Still => UNCHANGED FifoVars
BY DEF Still, FifoVars, Room, Buffered, Kind, Capacity, Held

LEMMA ProgramFixed == UNCHANGED setup => UNCHANGED <<Room, Kind = "sliding">>
BY DEF Room, Buffered, Kind, Capacity

(* What the abstract channel holds, before and after. *)
LEMMA HeldIs ==
  ASSUME ChanInv
  PROVE  /\ buf \in Seq(Values) /\ out \in Seq(Values) /\ pendingPuts \in Seq(Cells)
         /\ Buffered => pendingPuts = << >> /\ Held(buf, pendingPuts) = buf
         /\ ~Buffered => buf = << >>
<1>1. buf \in Seq(Values) /\ out \in Seq(Values) /\ pendingPuts \in Seq(Cells)
  BY DEF ChanInv, TypeOK, Cells
<1>2. Buffered => pendingPuts = << >>
  BY DEF ChanInv, NothingToTake
<1>3. Buffered => Held(buf, pendingPuts) = buf
  BY <1>1, <1>2, HeldInBuffer
<1> QED
  BY <1>1, <1>2, <1>3 DEF ChanInv, NothingToTake

LEMMA HandOverPasses ==
  ASSUME ChanInv, NEW t \in Threads, NEW v \in Values, HandsOver(t, v)
  PROVE  Fifo!Next
<1>1. ~closed /\ pendingTakes # << >> /\ out' = Append(out, v) /\ UNCHANGED <<setup, buf, pendingPuts, closed>>
  BY DEF HandsOver, HandOver, PutEnds
<1>2. buf = << >> /\ pendingPuts = << >>
  BY <1>1 DEF ChanInv, NothingToTake
<1>3. Held(buf, pendingPuts) = << >>
  BY <1>2, HeldIs, HeldInBuffer
<1>4. UNCHANGED Held(buf, pendingPuts)
  BY <1>1 DEF Held
<1>5. Fifo!Pass(v)
  BY <1>1, <1>3, <1>4 DEF Fifo!Pass, Held
<1> QED
  BY <1>1, <1>5, ProgramFixed DEF Fifo!Next

LEMMA AddEnters ==
  ASSUME ChanInv, NEW t \in Threads, NEW v \in Values, Adds(t, v)
  PROVE  Fifo!Next \/ UNCHANGED FifoVars
<1>0. /\ Buffered /\ ~BufFull /\ ~closed /\ buf' = Added(buf, v)
      /\ UNCHANGED <<setup, closed, pendingPuts, out>>
  BY DEF Adds, AddToBuffer, PutEnds
<1>1. /\ buf \in Seq(Values) /\ pendingPuts = << >> /\ pendingPuts' = << >>
      /\ Held(buf, pendingPuts) = buf
      /\ Len(buf) \in Nat /\ Len(buf) <= Capacity /\ Capacity \in Nat
      /\ Kind \in {"fixed", "dropping", "sliding"} /\ Room = Capacity
  <2>1. TypeOK /\ Len(buf) <= Capacity BY <1>0 DEF ChanInv, HeldFits
  <2> QED BY <1>0, <2>1, HeldIs, SetupIs DEF Buffered, Room
<1>2. buf' \in Seq(Values)
  BY <1>0, AddedIs
<1>3. Held(buf', pendingPuts') = buf'
  BY <1>1, <1>2, HeldInBuffer
<1>4. CASE buf' = buf
  BY <1>0, <1>4, StillIsStutter DEF Still
<1>5. CASE buf' = Append(buf, v) /\ Len(buf) < Capacity
  <2>1. Fifo!Enter(v)
    BY <1>0, <1>1, <1>3, <1>5 DEF Fifo!Enter, Held
  <2> QED BY <1>0, <2>1, ProgramFixed DEF Fifo!Next
<1>6. CASE buf' = Append(Tail(buf), v) /\ Kind = "sliding" /\ Len(buf) = Capacity
  <2>1. Fifo!PushOut(v)
    BY <1>0, <1>1, <1>3, <1>6 DEF Fifo!PushOut, Held
  <2> QED BY <1>0, <2>1, ProgramFixed DEF Fifo!Next
<1>7. \/ buf' = buf
      \/ buf' = Append(buf, v) /\ Len(buf) < Capacity
      \/ buf' = Append(Tail(buf), v) /\ Kind = "sliding" /\ Len(buf) = Capacity
  BY <1>0, <1>1 DEF Added, BufFull
<1> QED
  BY <1>4, <1>5, <1>6, <1>7

LEMMA RegisterEnters ==
  ASSUME ChanInv, IsFiniteSet(Threads), NEW t \in Threads, NEW v \in Values, Registers(t, v)
  PROVE  Fifo!Next
<1>0. /\ ~Buffered /\ ~closed /\ pendingPuts' = Append(pendingPuts, [by |-> t, val |-> v])
      /\ UNCHANGED <<setup, buf, closed, out>>
  BY DEF Registers, PutBlocks
<1>1. buf = << >> /\ buf' = << >> /\ pendingPuts \in Seq(Cells) /\ Room = Cardinality(setup.putters)
  BY <1>0, HeldIs DEF Room
<1>2. PICK r \in Cells : r = [by |-> t, val |-> v] /\ r.val = v
  <2>1. [by |-> t, val |-> v] \in Cells BY DEF Cells
  <2>2. [by |-> t, val |-> v].val = v OBVIOUS
  <2> QED BY <2>1, <2>2
<1>3. /\ pendingPuts' \in Seq(Cells) /\ Len(pendingPuts') = Len(pendingPuts) + 1
      /\ \A i \in 1..Len(pendingPuts) : pendingPuts'[i] = pendingPuts[i]
      /\ pendingPuts'[Len(pendingPuts) + 1] = r
  BY <1>0, <1>1, <1>2, AppendIs
<1>4. PICK q0 : q0 = Held(<< >>, pendingPuts)
  OBVIOUS
<1>5. PICK q1 : q1 = Held(<< >>, pendingPuts')
  OBVIOUS
<1>6. /\ q0 \in Seq(Values) /\ Len(q0) = Len(pendingPuts) /\ Len(pendingPuts) \in Nat
      /\ \A i \in 1..Len(pendingPuts) : q0[i] = pendingPuts[i].val
  BY <1>1, <1>4, HeldByPuts
<1>7. /\ q1 \in Seq(Values) /\ Len(q1) = Len(pendingPuts')
      /\ \A i \in 1..Len(pendingPuts') : q1[i] = pendingPuts'[i].val
  BY <1>3, <1>5, HeldByPuts
<1>8. q1 = Append(q0, v)
  <2>1. \A i \in 1..Len(q0) : q1[i] = q0[i] BY <1>3, <1>6, <1>7
  <2>2. q1[Len(q0) + 1] = v BY <1>2, <1>3, <1>6, <1>7
  <2>3. Len(q1) = Len(q0) + 1 BY <1>3, <1>6, <1>7
  <2> QED BY <1>6, <1>7, <2>1, <2>2, <2>3
<1>9. Len(q0) < Room
  BY <1>1, <1>6, RegisterFits
<1>10. Held(buf, pendingPuts) = q0 /\ Held(buf', pendingPuts') = q1
  BY <1>1, <1>4, <1>5
<1>11. Fifo!Enter(v)
  BY <1>0, <1>8, <1>9, <1>10 DEF Fifo!Enter, Held
<1> QED
  BY <1>0, <1>11, ProgramFixed DEF Fifo!Next

LEMMA BufferLeaves ==
  ASSUME ChanInv, TakesFromBuffer
  PROVE  Fifo!Next
<1>0. /\ Buffered /\ buf # << >> /\ out' = Append(out, Head(buf)) /\ buf' = Tail(buf)
      /\ UNCHANGED <<setup, closed, pendingPuts>>
  BY DEF TakesFromBuffer
<1>1. buf \in Seq(Values) /\ pendingPuts = << >> /\ pendingPuts' = << >> /\ Held(buf, pendingPuts) = buf
  BY <1>0, HeldIs
<1>2. Tail(buf) \in Seq(Values)
  BY <1>0, <1>1
<1>3. Held(buf', pendingPuts') = Tail(buf)
  BY <1>0, <1>1, <1>2, HeldInBuffer
<1>4. Fifo!Leave
  BY <1>0, <1>1, <1>3 DEF Fifo!Leave, Held
<1> QED
  BY <1>0, <1>4, ProgramFixed DEF Fifo!Next

LEMMA PutLeaves ==
  ASSUME ChanInv, TakesFromPut
  PROVE  Fifo!Next
<1>0. /\ ~Buffered /\ pendingPuts # << >> /\ out' = Append(out, Head(pendingPuts).val)
      /\ pendingPuts' = Tail(pendingPuts) /\ UNCHANGED <<setup, buf, closed>>
  BY DEF TakesFromPut
<1>1. buf = << >> /\ buf' = << >> /\ pendingPuts \in Seq(Cells)
  BY <1>0, HeldIs
<1>2. /\ pendingPuts' \in Seq(Cells) /\ Len(pendingPuts) \in Nat \ {0}
      /\ Len(pendingPuts') = Len(pendingPuts) - 1
      /\ \A i \in 1..Len(pendingPuts') : i + 1 \in 1..Len(pendingPuts) /\ pendingPuts'[i] = pendingPuts[i + 1]
      /\ Head(pendingPuts) = pendingPuts[1]
  BY <1>0, <1>1, TailIs
<1>3. PICK q0 : q0 = Held(<< >>, pendingPuts)
  OBVIOUS
<1>4. PICK q1 : q1 = Held(<< >>, pendingPuts')
  OBVIOUS
<1>5. /\ q0 \in Seq(Values) /\ Len(q0) = Len(pendingPuts)
      /\ \A i \in 1..Len(pendingPuts) : q0[i] = pendingPuts[i].val
  BY <1>1, <1>3, HeldByPuts
<1>6. /\ q1 \in Seq(Values) /\ Len(q1) = Len(pendingPuts')
      /\ \A i \in 1..Len(pendingPuts') : q1[i] = pendingPuts'[i].val
  BY <1>2, <1>4, HeldByPuts
<1>7. q0 # << >> /\ Head(q0) = Head(pendingPuts).val
  BY <1>2, <1>5
<1>8. q1 = Tail(q0)
  <2>1. /\ Tail(q0) \in Seq(Values) /\ Len(Tail(q0)) = Len(q0) - 1
        /\ \A i \in 1..Len(Tail(q0)) : i + 1 \in 1..Len(q0) /\ Tail(q0)[i] = q0[i + 1]
    BY <1>5, <1>7, TailIs
  <2>2. \A i \in 1..Len(q1) : q1[i] = Tail(q0)[i] BY <1>2, <1>5, <1>6, <2>1
  <2>3. Len(q1) = Len(Tail(q0)) BY <1>2, <1>5, <1>6, <2>1
  <2> QED BY <1>6, <2>1, <2>2, <2>3, SameSequence
<1>9. Held(buf, pendingPuts) = q0 /\ Held(buf', pendingPuts') = q1
  BY <1>1, <1>3, <1>4
<1>10. Fifo!Leave
  BY <1>0, <1>7, <1>8, <1>9 DEF Fifo!Leave, Held
<1> QED
  BY <1>0, <1>10, ProgramFixed DEF Fifo!Next

(* A put that turns its back on its entry leaves the value there. *)
LEMMA ResumeIsStutter ==
  ASSUME ChanInv, NEW t \in Threads, PutResumes(t)
  PROVE  UNCHANGED FifoVars
<1>0. ~Buffered /\ pendingPuts' = LeavePut(t) /\ UNCHANGED <<setup, buf, closed, out>>
  BY DEF PutResumes
<1>1. buf = << >> /\ buf' = << >> /\ pendingPuts \in Seq(Cells)
  BY <1>0, HeldIs
<1>2. /\ pendingPuts' \in Seq(Cells) /\ Len(pendingPuts') = Len(pendingPuts)
      /\ \A i \in 1..Len(pendingPuts) : pendingPuts'[i].val = pendingPuts[i].val
  BY <1>0, LeavePutIs DEF ChanInv, Cells
<1>3. PICK q0 : q0 = Held(<< >>, pendingPuts)
  OBVIOUS
<1>4. PICK q1 : q1 = Held(<< >>, pendingPuts')
  OBVIOUS
<1>5. /\ q0 \in Seq(Values) /\ Len(q0) = Len(pendingPuts)
      /\ \A i \in 1..Len(pendingPuts) : q0[i] = pendingPuts[i].val
  BY <1>1, <1>3, HeldByPuts
<1>6. /\ q1 \in Seq(Values) /\ Len(q1) = Len(pendingPuts')
      /\ \A i \in 1..Len(pendingPuts') : q1[i] = pendingPuts'[i].val
  BY <1>2, <1>4, HeldByPuts
<1>7. \A i \in 1..Len(q1) : q1[i] = q0[i]
  BY <1>2, <1>5, <1>6
<1>8. q1 = q0
  BY <1>2, <1>5, <1>6, <1>7, SameSequence
<1>9. UNCHANGED Held(buf, pendingPuts)
  BY <1>1, <1>3, <1>4, <1>8
<1> QED
  BY <1>0, <1>9, ProgramFixed DEF FifoVars

LEMMA FifoStep == ASSUME IsFiniteSet(Threads) PROVE ChanInv /\ [Next]_vars => [Fifo!Next]_FifoVars
<1>1. ASSUME ChanInv, Next PROVE Fifo!Next \/ UNCHANGED FifoVars
  <2>1. Effect BY <1>1, EffectsCover
  <2>2. CASE \E t \in Threads, v \in Values : HandsOver(t, v)
    BY <1>1, <2>2, HandOverPasses
  <2>3. CASE \E t \in Threads, v \in Values : Adds(t, v)
    BY <1>1, <2>3, AddEnters
  <2>4. CASE \E t \in Threads, v \in Values : Registers(t, v)
    BY <1>1, <2>4, RegisterEnters
  <2>5. CASE TakesFromBuffer \/ TakesFromPut
    BY <1>1, <2>5, BufferLeaves, PutLeaves
  <2>6. CASE \E t \in Threads : PutResumes(t)
    BY <1>1, <2>6, ResumeIsStutter
  <2>7. CASE Closes
    <3>1. closed' = TRUE /\ UNCHANGED <<setup, buf, pendingPuts, out>> BY <2>7 DEF Closes
    <3>2. Fifo!Close BY <3>1 DEF Fifo!Close
    <3> QED BY <3>1, <3>2, ProgramFixed DEF Fifo!Next
  <2>8. CASE \/ \E t \in Threads, v \in Values : Refuses(t, v) \/ BlocksOnFull(t, v)
             \/ \E t \in Threads : PutSleepsOn(t) \/ TakesNothing(t) \/ TakeBlocks(t) \/ TakesFromCell(t)
                                  \/ Stray(t)
    <3>1. Still
      BY <2>8 DEF Still, Refuses, PutEnds, BlocksOnFull, PutBlocks, PutSleepsOn, TakesNothing,
                  TakeBlocks, TakesFromCell, Stray
    <3> QED BY <3>1, StillIsStutter
  <2> QED
    BY <2>1, <2>2, <2>3, <2>4, <2>5, <2>6, <2>7, <2>8 DEF Effect
<1>2. ASSUME UNCHANGED vars PROVE UNCHANGED FifoVars
  BY <1>2, StillIsStutter DEF vars, Still
<1> QED
  BY <1>1, <1>2

(* Values leave a channel in the order in which they entered it, no more    *)
(* are held than there is room for, and none enters after close!, on every  *)
(* kind of buffer and for any number of putters, takers and pollers.        *)
THEOREM ChannelIsFifo == ASSUME IsFiniteSet(Threads) PROVE Spec => FifoOrder
<1>1. Init => Fifo!Init
  <2> SUFFICES ASSUME Init PROVE Fifo!Init
    OBVIOUS
  <2>1. buf = << >> /\ pendingPuts = << >> /\ out = << >> /\ closed = FALSE /\ TypeOK
    BY ChanInvInit DEF Init, ChanInv
  <2>2. Held(buf, pendingPuts) = << >>
    <3>1. << >> \in Seq(Values) OBVIOUS
    <3> QED BY <2>1, <3>1, HeldInBuffer
  <2>3. Room \in Nat
    <3>1. Capacity \in Nat /\ setup.putters \subseteq Threads BY <2>1, SetupIs
    <3>2. Cardinality(setup.putters) \in Nat BY <3>1, FS_Subset, FS_CardinalityType
    <3> QED BY <3>1, <3>2 DEF Room
  <2> QED BY <2>1, <2>2, <2>3 DEF Fifo!Init, Held
<1>2. [][Fifo!Next]_FifoVars /\ Fifo!Init => FifoOrder
  BY DEF FifoOrder, Fifo!Spec, FifoVars, Held
<1> QED
  BY <1>1, <1>2, FifoStep, ChanInvAlways, PTL DEF Spec
=============================================================================
