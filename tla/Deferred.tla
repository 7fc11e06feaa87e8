------------------------------ MODULE Deferred ------------------------------
(***************************************************************************)
(* A promise or a future of mutable-functions.lisp: deliver; the worker    *)
(* thread that future-call starts, and future-cancel, which halts it;      *)
(* deref of both.  All run under the object's lock, except that a deref    *)
(* releases it while it sleeps on the condition variable, and that the     *)
(* worker's function runs without it.  condition-notify wakes one sleeper. *)
(*                                                                         *)
(* halt destroys the native thread: its stack is unwound from wherever it  *)
(* is.  Unwinding out of the function runs the worker's cleanup form, as a *)
(* return does; a worker already in the cleanup form, waiting for the lock *)
(* that future-cancel holds, is unwound out of it.                         *)
(***************************************************************************)
EXTENDS Naturals, FiniteSets, FiniteSetsExt

CONSTANTS Readers, Deliverers, Cancellers,   \* threads
          Values, NoValue

Final == {"done", "failed", "cancelled"}

ASSUME DeferredAssumption == NoValue \notin Values /\ Values \cap (Final \cup {"none"}) = {}

VARIABLES kind,                  \* "promise" or "future"
          state, value,          \* the slots; delivered-p of a promise is state "done"
          worker,                \* where the worker of a future is
          result,                \* its local variables result and success
          halted,                \* destroy-thread has been called on it
          asleep,                \* the readers asleep on the condition variable
          pc,                    \* a reader is "idle" or "waiting"
          outcome,               \* what each reader's last deref ended with: history
          answer, offered,       \* what each deliver returned, and came with: history
          cancelled              \* the cancellers that future-cancel told T: history

future == <<worker, result, halted>>
history == <<outcome, answer, offered, cancelled>>
vars == <<kind, state, value, future, asleep, pc, history>>

Init == /\ kind \in {"promise", "future"}
        /\ state = "pending" /\ value = NoValue
        /\ worker = (IF kind = "future" THEN "fn" ELSE "none")
        /\ result = NoValue /\ halted = FALSE
        /\ asleep = {} /\ pc = [r \in Readers |-> "idle"]
        /\ outcome = [r \in Readers |-> "none"]
        /\ answer = [d \in Deliverers |-> "none"]
        /\ offered = [d \in Deliverers |-> NoValue]
        /\ cancelled = {}

\* What may be left of the sleepers after one condition-notify.
Notified == {asleep \ W : W \in kSubset(IF asleep = {} THEN 0 ELSE 1, asleep)}

-----------------------------------------------------------------------------
(* A promise. *)

\* Mutant: the second deliver of a promise overwrites the first.
DeliverAgain(d, v) ==
  /\ kind = "promise" /\ answer[d] = "none"
  /\ offered' = [offered EXCEPT ![d] = v]
  /\ value' = v /\ state' = "done"
  /\ asleep' \in Notified
  /\ answer' = [answer EXCEPT ![d] = "p"]
  /\ UNCHANGED <<kind, future, pc, outcome, cancelled>>

\* Each deliverer delivers once, so that its answer stands for the call.
Deliver(d, v) ==
  /\ kind = "promise" /\ answer[d] = "none"
  /\ offered' = [offered EXCEPT ![d] = v]
  /\ \/ /\ state = "done"
        /\ answer' = [answer EXCEPT ![d] = "nil"]
        /\ UNCHANGED <<state, value, asleep>>
     \/ /\ state = "pending"
        /\ value' = v /\ state' = "done"
        /\ asleep' \in Notified
        /\ answer' = [answer EXCEPT ![d] = "p"]
  /\ UNCHANGED <<kind, future, pc, outcome, cancelled>>

-----------------------------------------------------------------------------
(* The worker of a future. *)

\* The function returns a result or signals an error (handler-case), perhaps after a
\* halt that has not reached it yet.
CallFn == /\ worker = "fn"
          /\ result' \in Values \cup {"error"}
          /\ worker' = "cleanup"
          /\ UNCHANGED <<kind, state, value, halted, asleep, pc, history>>

\* Mutant: the cleanup form does not look whether the future was cancelled.
PublishAlways ==
  /\ worker = "cleanup"
  /\ state' = (IF result \in Values THEN "done" ELSE "failed")
  /\ value' = result
  /\ asleep' \in Notified
  /\ worker' = "exited"
  /\ UNCHANGED <<kind, result, halted, pc, history>>

\* Mutant: the worker does not notify when it ends.
PublishSilently ==
  /\ worker = "cleanup"
  /\ state' = (IF state = "cancelled" THEN state ELSE IF result \in Values THEN "done" ELSE "failed")
  /\ value' = (IF state = "cancelled" THEN value ELSE result)
  /\ worker' = "exited"
  /\ UNCHANGED <<kind, asleep, result, halted, pc, history>>

\* The cleanup form, under the future's lock.
Publish ==
  /\ worker = "cleanup"
  /\ IF state = "cancelled"
       THEN UNCHANGED <<state, value>>
       ELSE /\ state' = (IF result \in Values THEN "done" ELSE "failed")
            /\ value' = result
  /\ asleep' \in Notified
  /\ worker' = "exited"
  /\ UNCHANGED <<kind, result, halted, pc, history>>

\* A halted worker: out of the function into the cleanup form, or out of that.
Unwind ==
  /\ halted /\ worker \in {"fn", "cleanup"}
  /\ worker' = (IF worker = "fn" THEN "cleanup" ELSE "exited")
  /\ halted' = FALSE
  /\ UNCHANGED <<kind, state, value, result, asleep, pc, history>>

Work == CallFn \/ Publish \/ Unwind

-----------------------------------------------------------------------------
(* deref and future-cancel. *)

\* The loop of deref, from its top to its return or its next sleep.
DerefRound(r) ==
  /\ IF state = "pending"
       THEN /\ pc' = [pc EXCEPT ![r] = "waiting"]
            /\ asleep' = asleep \cup {r}
            /\ UNCHANGED outcome
       ELSE /\ pc' = [pc EXCEPT ![r] = "idle"]
            /\ outcome' = [outcome EXCEPT ![r] = IF state = "done" THEN value ELSE state]
            /\ UNCHANGED asleep
  /\ UNCHANGED <<kind, state, value, future, answer, offered, cancelled>>

Deref(r) == pc[r] = "idle" /\ DerefRound(r)

DerefWakes(r) == pc[r] = "waiting" /\ r \notin asleep /\ DerefRound(r)

\* future-cancel of a future that is not pending returns nil and changes nothing.
FutureCancel(c) ==
  /\ kind = "future" /\ state = "pending"
  /\ state' = "cancelled"
  /\ halted' = (worker # "exited")
  /\ asleep' \in Notified
  /\ cancelled' = cancelled \cup {c}
  /\ UNCHANGED <<kind, value, worker, result, pc, outcome, answer, offered>>

Next == \/ \E d \in Deliverers, v \in Values : Deliver(d, v)
        \/ Work
        \/ \E r \in Readers : Deref(r) \/ DerefWakes(r)
        \/ \E c \in Cancellers : FutureCancel(c)

\* A worker's function ends, and threads that are awake run on; nobody need deliver.
Spec == /\ Init /\ [][Next]_vars
        /\ WF_vars(Work) /\ \A r \in Readers : WF_vars(DerefWakes(r))

-----------------------------------------------------------------------------

\* Types of the slots, the worker and the readers; who sleeps is in deref.
TypeOK == /\ kind \in {"promise", "future"} /\ state \in {"pending"} \cup Final
          /\ value \in Values \cup {NoValue, "error"}
          /\ worker \in {"none", "fn", "cleanup", "exited"}
          /\ result \in Values \cup {NoValue, "error"}
          /\ halted \in BOOLEAN
          /\ asleep \subseteq {r \in Readers : pc[r] = "waiting"}
          /\ pc \in [Readers -> {"idle", "waiting"}]
          /\ outcome \in [Readers -> Values \cup {"none", "failed", "cancelled"}]
          /\ answer \in [Deliverers -> {"none", "p", "nil"}]
          /\ offered \in [Deliverers -> Values \cup {NoValue}]
          /\ cancelled \subseteq Cancellers

\* One deliver wins, and every deref returns the value that it, and no other
\* deliver, came with.
WinnersValue ==
  \A d \in Deliverers : answer[d] = "p" =>
    /\ \A e \in Deliverers \ {d} : answer[e] # "p"
    /\ \A r \in Readers : outcome[r] \in {"none", offered[d]}

\* Once future-cancel has returned T, every deref signals the cancellation, also when
\* the worker had its result ready and was waiting for the lock; and T is returned
\* to one canceller only.
CancelIsFinal == cancelled # {} => /\ \A r \in Readers : outcome[r] \in {"none", "cancelled"}
                                   /\ Cardinality(cancelled) = 1

\* A deref returns, once a promise is delivered, or when the worker of a future ends or
\* is cancelled, whichever comes first.  One thread is notified, so this is promised to
\* a reader that is alone; of several, one returns.
DerefReturns ==
  \A r \in Readers :
    LET due == pc[r] = "waiting" /\ (kind = "future" \/ state = "done")
    IN  /\ due ~> (pc[r] = "idle" \/ \E q \in Readers \ {r} : pc[q] = "waiting" \/ outcome[q] # "none")
        /\ due ~> \E q \in Readers : outcome[q] # "none"
=============================================================================
