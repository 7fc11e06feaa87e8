--------------------------- MODULE DeferredProofs ---------------------------
(***************************************************************************)
(* Promises and futures for any number of threads and values.  The key is  *)
(* that a state other than pending is never left: whoever moves the object *)
(* out of pending decides what every deref returns from then on.           *)
(***************************************************************************)
EXTENDS Deferred, TLAPS, FiniteSetTheorems

\* Which of the operations an object can have met.
KindInv == /\ kind = "future" => \A d \in Deliverers : answer[d] = "none"
           /\ kind = "promise" => cancelled = {} /\ worker = "none"

\* The worker still has something to publish only while nobody but a canceller decided.
WorkerInv == worker \in {"fn", "cleanup"} => state \in {"pending", "cancelled"}

\* What a deref has returned is what the object holds now.
OutcomeInv ==
  \A r \in Readers : outcome[r] # "none" =>
    /\ state # "pending"
    /\ outcome[r] = IF state = "done" THEN value ELSE state

\* The deliver that returned p is the only one, and its value is the promise's.
WinnerInv ==
  \A d \in Deliverers : answer[d] = "p" =>
    /\ state = "done" /\ value = offered[d]
    /\ \A e \in Deliverers \ {d} : answer[e] # "p"

\* A future-cancel that returned T is the only one, and the future is cancelled.
CancelInv == cancelled # {} => state = "cancelled" /\ \E c \in Cancellers : cancelled = {c}

\* A value is there once the object is done.
ValueInv == state = "done" => value \in Values

Inv == TypeOK /\ KindInv /\ WorkerInv /\ OutcomeInv /\ WinnerInv /\ CancelInv /\ ValueInv

\* A new promise or future is pending, and nothing was returned.
LEMMA InitInv == Init => Inv
<1> SUFFICES ASSUME Init PROVE Inv
  OBVIOUS
<1>1. TypeOK
  BY DEF Init, TypeOK, Final
<1>2. KindInv /\ WorkerInv
  BY DEF Init, KindInv, WorkerInv
<1>3. OutcomeInv /\ WinnerInv /\ CancelInv /\ ValueInv
  BY DEF Init, OutcomeInv, WinnerInv, CancelInv, ValueInv
<1>4. QED
  BY <1>1, <1>2, <1>3 DEF Inv

\* A notification wakes sleepers, and sends nobody to sleep.
LEMMA NotifiedSubset == ASSUME NEW S \in Notified PROVE S \subseteq asleep
  BY DEF Notified

\* Every step keeps the invariant.
LEMMA StepInv == ASSUME Inv, [Next]_vars PROVE Inv'
<1>0. TypeOK /\ KindInv /\ WorkerInv /\ OutcomeInv /\ WinnerInv /\ CancelInv /\ ValueInv
  BY DEF Inv
<1>1. CASE UNCHANGED vars
  <2>1. TypeOK'
    BY <1>0, <1>1 DEF vars, future, history, TypeOK
  <2>2. QED
    BY <1>0, <1>1, <2>1 DEF vars, future, history, Inv, KindInv, WorkerInv, OutcomeInv, WinnerInv, CancelInv, ValueInv
<1>2. ASSUME NEW d \in Deliverers, NEW v \in Values, Deliver(d, v) PROVE Inv'
  <2>1. /\ kind = "promise" /\ answer[d] = "none" /\ cancelled = {} /\ worker = "none"
        /\ UNCHANGED <<kind, worker, result, halted, pc, outcome, cancelled>>
        /\ offered' = [offered EXCEPT ![d] = v]
    BY <1>0, <1>2 DEF Deliver, future, KindInv
  <2>2. CASE state = "done"
    <3>1. answer' = [answer EXCEPT ![d] = "nil"] /\ UNCHANGED <<state, value, asleep>>
      BY <1>2, <2>2 DEF Deliver
    <3>2. TypeOK'
      BY <1>0, <2>1, <3>1 DEF TypeOK
    <3>3. WinnerInv'
      BY <1>0, <2>1, <3>1 DEF TypeOK, WinnerInv
    <3>4. QED
      BY <1>0, <2>1, <3>1, <3>2, <3>3 DEF Inv, KindInv, WorkerInv, OutcomeInv, CancelInv, ValueInv
  <2>3. CASE state = "pending"
    <3>1. /\ answer' = [answer EXCEPT ![d] = "p"] /\ value' = v /\ state' = "done"
          /\ asleep' \in Notified
      BY <1>2, <2>3 DEF Deliver
    <3>2. TypeOK'
      BY <1>0, <2>1, <3>1, NotifiedSubset DEF TypeOK, Final
    <3>3. WinnerInv'
      BY <1>0, <2>1, <2>3, <3>1 DEF TypeOK, WinnerInv
    <3>4. OutcomeInv'
      BY <1>0, <2>1, <2>3, <3>1 DEF OutcomeInv
    <3>5. QED
      BY <1>0, <2>1, <3>1, <3>2, <3>3, <3>4 DEF Inv, KindInv, WorkerInv, CancelInv, ValueInv
  <2>4. QED
    BY <1>2, <2>2, <2>3 DEF Deliver
<1>3. CASE CallFn
  <2>1. /\ worker = "fn" /\ worker' = "cleanup" /\ result' \in Values \cup {"error"}
        /\ UNCHANGED <<kind, state, value, halted, asleep, pc, outcome, answer, offered, cancelled>>
    BY <1>3 DEF CallFn, history
  <2>2. TypeOK'
    BY <1>0, <2>1 DEF TypeOK
  <2>3. QED
    BY <1>0, <2>1, <2>2 DEF Inv, KindInv, WorkerInv, OutcomeInv, WinnerInv, CancelInv, ValueInv
<1>4. CASE Publish
  <2>1. /\ worker = "cleanup" /\ worker' = "exited" /\ asleep' \in Notified
        /\ state \in {"pending", "cancelled"} /\ kind # "promise"
        /\ UNCHANGED <<kind, result, halted, pc, outcome, answer, offered, cancelled>>
    BY <1>0, <1>4 DEF Publish, history, WorkerInv, KindInv
  <2>2. CASE state = "cancelled"
    <3>1. UNCHANGED <<state, value>>
      BY <1>4, <2>2 DEF Publish
    <3>2. TypeOK'
      BY <1>0, <2>1, <3>1, NotifiedSubset DEF TypeOK
    <3>3. QED
      BY <1>0, <2>1, <3>1, <3>2 DEF Inv, KindInv, WorkerInv, OutcomeInv, WinnerInv, CancelInv, ValueInv
  <2>3. CASE state = "pending"
    <3>1. value' = result /\ state' = (IF result \in Values THEN "done" ELSE "failed")
      BY <1>4, <2>3 DEF Publish
    <3>2. TypeOK'
      BY <1>0, <2>1, <3>1, NotifiedSubset DEF TypeOK, Final
    <3>3. WinnerInv' /\ CancelInv' /\ OutcomeInv'
      BY <1>0, <2>1, <2>3, <3>1 DEF WinnerInv, CancelInv, OutcomeInv
    <3>4. QED
      BY <1>0, <2>1, <3>1, <3>2, <3>3 DEF Inv, KindInv, WorkerInv, ValueInv
  <2>4. QED
    BY <2>1, <2>2, <2>3
<1>5. CASE Unwind
  <2>1. /\ worker \in {"fn", "cleanup"} /\ worker' \in {"cleanup", "exited"} /\ halted' = FALSE
        /\ UNCHANGED <<kind, state, value, result, asleep, pc, outcome, answer, offered, cancelled>>
    BY <1>5 DEF Unwind, history
  <2>2. TypeOK'
    BY <1>0, <2>1 DEF TypeOK
  <2>3. QED
    BY <1>0, <2>1, <2>2 DEF Inv, KindInv, WorkerInv, OutcomeInv, WinnerInv, CancelInv, ValueInv
<1>6. ASSUME NEW r \in Readers, r \notin asleep, DerefRound(r) PROVE Inv'
  <2>1. UNCHANGED <<kind, state, value, worker, result, halted, answer, offered, cancelled>>
    BY <1>6 DEF DerefRound, future
  <2>2. CASE state = "pending"
    <3>1. /\ pc' = [pc EXCEPT ![r] = "waiting"] /\ asleep' = asleep \cup {r}
          /\ UNCHANGED outcome
      BY <1>6, <2>2 DEF DerefRound
    <3>2. TypeOK'
      BY <1>0, <2>1, <3>1 DEF TypeOK
    <3>3. QED
      BY <1>0, <2>1, <3>1, <3>2 DEF Inv, KindInv, WorkerInv, OutcomeInv, WinnerInv, CancelInv, ValueInv
  <2>3. CASE state # "pending"
    <3>1. /\ pc' = [pc EXCEPT ![r] = "idle"] /\ UNCHANGED asleep
          /\ outcome' = [outcome EXCEPT ![r] = IF state = "done" THEN value ELSE state]
      BY <1>6, <2>3 DEF DerefRound
    <3>2. TypeOK'
      BY <1>0, <1>6, <2>1, <2>3, <3>1 DEF TypeOK, ValueInv, Final
    <3>3. OutcomeInv'
      BY <1>0, <2>1, <2>3, <3>1 DEF TypeOK, OutcomeInv
    <3>4. QED
      BY <1>0, <2>1, <3>1, <3>2, <3>3 DEF Inv, KindInv, WorkerInv, WinnerInv, CancelInv, ValueInv
  <2>4. QED
    BY <2>2, <2>3
<1>7. ASSUME NEW c \in Cancellers, FutureCancel(c) PROVE Inv'
  <2>1. /\ kind = "future" /\ state = "pending" /\ state' = "cancelled" /\ asleep' \in Notified
        /\ halted' \in BOOLEAN /\ cancelled' = cancelled \cup {c}
        /\ UNCHANGED <<kind, value, worker, result, pc, outcome, answer, offered>>
    BY <1>7 DEF FutureCancel
  <2>2. cancelled' = {c}
    BY <1>0, <2>1 DEF CancelInv
  <2>3. TypeOK'
    BY <1>0, <2>1, <2>2, NotifiedSubset DEF TypeOK, Final
  <2>4. OutcomeInv' /\ WinnerInv'
    BY <1>0, <2>1 DEF OutcomeInv, WinnerInv
  <2>5. QED
    BY <1>0, <2>1, <2>2, <2>3, <2>4 DEF Inv, KindInv, WorkerInv, CancelInv, ValueInv
<1>8. ASSUME NEW r \in Readers, pc[r] = "idle" PROVE r \notin asleep
  BY <1>0, <1>8 DEF TypeOK
<1>9. QED
  BY <1>1, <1>2, <1>3, <1>4, <1>5, <1>6, <1>7, <1>8 DEF Next, Work, Deref, DerefWakes

\* The invariant holds in every reachable state.
LEMMA Invariance == Spec => []Inv
  BY InitInv, StepInv, PTL DEF Spec

\* The slots, the worker and the readers keep their types.
THEOREM TypeCorrect == Spec => []TypeOK
<1>1. Inv => TypeOK
  BY DEF Inv
<1>2. QED
  BY <1>1, Invariance, PTL

\* However delivers race, one of them wins, and no deref returns another one's value.
THEOREM OneWinner == Spec => []WinnersValue
<1>1. Inv => WinnersValue
  BY DEF Inv, WinnerInv, OutcomeInv, WinnersValue
<1>2. QED
  BY <1>1, Invariance, PTL

\* Once future-cancel has returned T, no deref returns a result, whatever the worker does.
THEOREM CancelWins == Spec => []CancelIsFinal
<1>1. ASSUME Inv, cancelled # {} PROVE CancelIsFinal
  <2>1. PICK c \in Cancellers : cancelled = {c} /\ state = "cancelled"
    BY <1>1 DEF Inv, CancelInv
  <2>2. Cardinality(cancelled) = 1
    BY <2>1, FS_Singleton
  <2>3. QED
    BY <1>1, <2>1, <2>2 DEF Inv, OutcomeInv, CancelIsFinal
<1>2. Inv => CancelIsFinal
  BY <1>1 DEF CancelIsFinal
<1>3. QED
  BY <1>2, Invariance, PTL
=============================================================================
