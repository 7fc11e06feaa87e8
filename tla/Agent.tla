------------------------------- MODULE Agent -------------------------------
(***************************************************************************)
(* One agent of src/src/mutable.lisp, with its worker threads and the      *)
(* threads blocked in await.                                               *)
(*                                                                         *)
(* A with-lock-held form is one step (agent-lock excludes the others); the *)
(* call of an action runs outside the lock, between two steps.  Actions    *)
(* are numbered in the order of their sends, and the value of the agent is *)
(* the sequence of the actions it results from since it was last reset.    *)
(***************************************************************************)
EXTENDS Integers, Sequences, FiniteSets

CONSTANTS Workers,        \* threads that may run %agent-worker
          Awaiters,       \* threads that call await, once each
          Timed,          \* the awaiters that give a :timeout
          Modes,          \* the error modes the program uses
          MaySignal,      \* may actions, validators or watches signal errors?
          MaxSends,       \* sends of the program
          MaxRestarts,    \* calls of restart-agent
          NIL

ASSUME AgentAssumption == /\ Timed \subseteq Awaiters
                          /\ Modes \subseteq {"fail", "continue"}
                          /\ MaySignal \in BOOLEAN
                          /\ MaxSends \in Nat /\ MaxRestarts \in Nat

VARIABLES
  value, queue, active, idle, errorVal, mode,   \* the slots of <agent>
  wpc, act, arg,    \* each worker: where it is, its action, the value it read
  apc,              \* each awaiter: where it is in await, or what it returned
  sent,             \* history: number of actions sent
  executed,         \* history: the actions called, in order
  discarded,        \* history: the actions restart-agent has cleared
  restarts,         \* history: number of restarts
  fresh,            \* history: the agent was not restarted since the worker read it
  goal,             \* history: the actions pending when await was called
  stalled           \* history: the awaiters answered while an error held up the queue

slots == <<value, queue, active, idle, errorVal, mode>>
workerVars == <<wpc, act, arg, fresh>>
awaitVars == <<apc, goal, stalled>>
logVars == <<sent, executed, discarded, restarts>>
vars == <<slots, workerVars, awaitVars, logVars>>

Actions == 1..MaxSends
Elems(s) == {s[i] : i \in 1..Len(s)}

Init ==
  /\ value = <<>> /\ queue = <<>> /\ active = FALSE /\ idle = TRUE /\ errorVal = FALSE
  /\ mode \in Modes
  /\ wpc = [w \in Workers |-> "none"]
  /\ act = [w \in Workers |-> NIL]
  /\ arg = [w \in Workers |-> <<>>]
  /\ fresh = [w \in Workers |-> FALSE]
  /\ apc = [a \in Awaiters |-> "out"]
  /\ goal = [a \in Awaiters |-> {}]
  /\ stalled = {}
  /\ sent = 0 /\ executed = <<>> /\ discarded = {} /\ restarts = 0

Failed == mode = "fail" /\ errorVal

-----------------------------------------------------------------------------
(* Mutant: a thread is started whether or not one is active. *)
EnsureRunningUnguarded ==
  /\ active' = TRUE /\ idle' = FALSE
  /\ \E w \in Workers : /\ wpc[w] = "none"
                        /\ wpc' = [wpc EXCEPT ![w] = "dequeue"]

(* %ensure-agent-running, with the lock held: a thread in %agent-worker,    *)
(* unless one is active.                                                    *)
EnsureRunning ==
  \/ /\ active
     /\ UNCHANGED <<active, idle, wpc>>
  \/ /\ ~active
     /\ active' = TRUE /\ idle' = FALSE
     /\ \E w \in Workers : /\ wpc[w] = "none"
                           /\ wpc' = [wpc EXCEPT ![w] = "dequeue"]

(* Mutant: the action is pushed on the front of the list. *)
SendFront ==
  /\ sent < MaxSends
  /\ ~Failed
  /\ sent' = sent + 1
  /\ queue' = <<sent + 1>> \o queue
  /\ EnsureRunning
  /\ UNCHANGED <<value, errorVal, mode, act, arg, fresh, awaitVars, executed, discarded, restarts>>

(* send and send-off; a failed agent signals an error instead. *)
Send ==
  /\ sent < MaxSends
  /\ ~Failed
  /\ sent' = sent + 1
  /\ queue' = Append(queue, sent + 1)
  /\ EnsureRunning
  /\ UNCHANGED <<value, errorVal, mode, act, arg, fresh, awaitVars, executed, discarded, restarts>>

RestartAgent(clear) ==
  /\ restarts < MaxRestarts
  /\ restarts' = restarts + 1
  /\ errorVal' = FALSE
  /\ value' = <<>>
  /\ queue' = IF clear THEN <<>> ELSE queue
  /\ discarded' = IF clear THEN discarded \cup Elems(queue) ELSE discarded
  /\ IF queue' # <<>> THEN EnsureRunning ELSE UNCHANGED <<active, idle, wpc>>
  /\ fresh' = [w \in Workers |-> FALSE]
  /\ UNCHANGED <<mode, act, arg, awaitVars, sent, executed>>

SetErrorMode(m) ==
  /\ mode' = m
  /\ UNCHANGED <<value, queue, active, idle, errorVal, workerVars, awaitVars, logVars>>

-----------------------------------------------------------------------------
(* %agent-worker. *)

(* condition-notify on idle-cv: one sleeping awaiter, if there is one. *)
NotifyIdle ==
  LET sleepers == {a \in Awaiters : apc[a] = "asleep"}
  IN  IF sleepers = {} THEN UNCHANGED apc
      ELSE \E a \in sleepers : apc' = [apc EXCEPT ![a] = "awake"]

(* Mutant: the worker leaves without condition-notify. *)
GoIdleSilently(w) ==
  /\ wpc[w] = "dequeue"
  /\ Failed \/ queue = <<>>
  /\ idle' = TRUE /\ active' = FALSE
  /\ wpc' = [wpc EXCEPT ![w] = "none"]
  /\ UNCHANGED <<value, queue, errorVal, mode, act, arg, fresh, awaitVars, logVars>>

GoIdle(w) ==
  /\ wpc[w] = "dequeue"
  /\ Failed \/ queue = <<>>
  /\ idle' = TRUE /\ active' = FALSE
  /\ NotifyIdle
  /\ wpc' = [wpc EXCEPT ![w] = "none"]
  /\ UNCHANGED <<value, queue, errorVal, mode, act, arg, fresh, goal, stalled, logVars>>

(* Mutants: the worker gives up active-p, or sets idle-p, as it takes the   *)
(* last action.                                                             *)
DequeueInactive(w) ==
  /\ wpc[w] = "dequeue"
  /\ ~Failed /\ queue # <<>>
  /\ act' = [act EXCEPT ![w] = Head(queue)]
  /\ queue' = Tail(queue)
  /\ active' = (Tail(queue) # <<>>)
  /\ wpc' = [wpc EXCEPT ![w] = "call"]
  /\ UNCHANGED <<value, idle, errorVal, mode, arg, fresh, awaitVars, logVars>>
DequeueIdle(w) ==
  /\ wpc[w] = "dequeue"
  /\ ~Failed /\ queue # <<>>
  /\ act' = [act EXCEPT ![w] = Head(queue)]
  /\ queue' = Tail(queue)
  /\ idle' = (Tail(queue) = <<>>)
  /\ wpc' = [wpc EXCEPT ![w] = "call"]
  /\ UNCHANGED <<value, active, errorVal, mode, arg, fresh, awaitVars, logVars>>

Dequeue(w) ==
  /\ wpc[w] = "dequeue"
  /\ ~Failed /\ queue # <<>>
  /\ act' = [act EXCEPT ![w] = Head(queue)]
  /\ queue' = Tail(queue)
  /\ wpc' = [wpc EXCEPT ![w] = "call"]
  /\ UNCHANGED <<value, active, idle, errorVal, mode, arg, fresh, awaitVars, logVars>>

(* The action is called, outside the lock, with the value of that moment;   *)
(* it, or the validator on its result, may signal an error.                 *)
CallAction(w) ==
  /\ wpc[w] = "call"
  /\ arg' = [arg EXCEPT ![w] = value]
  /\ fresh' = [fresh EXCEPT ![w] = TRUE]
  /\ executed' = Append(executed, act[w])
  /\ \E next \in (IF MaySignal THEN {"store", "catch"} ELSE {"store"}) :
        wpc' = [wpc EXCEPT ![w] = next]
  /\ UNCHANGED <<slots, act, awaitVars, sent, discarded, restarts>>

(* The value is set and the watches run under the lock; an error of a watch *)
(* unwinds to the handler, with the value already set.                      *)
StoreValue(w) ==
  /\ wpc[w] = "store"
  /\ value' = Append(arg[w], act[w])
  /\ \E next \in (IF MaySignal THEN {"dequeue", "catch"} ELSE {"dequeue"}) :
        wpc' = [wpc EXCEPT ![w] = next]
  /\ act' = [act EXCEPT ![w] = NIL]
  /\ arg' = [arg EXCEPT ![w] = <<>>]
  /\ fresh' = [fresh EXCEPT ![w] = FALSE]
  /\ UNCHANGED <<queue, active, idle, errorVal, mode, awaitVars, logVars>>

(* The handler: the error is cached; an error of the error handler ignored. *)
CatchError(w) ==
  /\ wpc[w] = "catch"
  /\ errorVal' = TRUE
  /\ wpc' = [wpc EXCEPT ![w] = "dequeue"]
  /\ act' = [act EXCEPT ![w] = NIL]
  /\ arg' = [arg EXCEPT ![w] = <<>>]
  /\ fresh' = [fresh EXCEPT ![w] = FALSE]
  /\ UNCHANGED <<value, queue, active, idle, mode, awaitVars, logVars>>

Work(w) == GoIdle(w) \/ Dequeue(w) \/ CallAction(w) \/ StoreValue(w) \/ CatchError(w)

-----------------------------------------------------------------------------
(* await. *)

Pending == Elems(queue) \cup {act[w] : w \in {u \in Workers : wpc[u] \in {"call", "store"}}}

(* An error has stopped the worker with actions left in the queue. *)
Stalled == idle /\ errorVal /\ queue # <<>>

(* await returns T when idle-p is true. *)
AwaitAnswers(a, otherwise) ==
  /\ apc' = [apc EXCEPT ![a] = IF idle THEN "true" ELSE otherwise]
  /\ stalled' = IF Stalled THEN stalled \cup {a} ELSE stalled

Await(a) ==
  /\ apc[a] = "out"
  /\ goal' = [goal EXCEPT ![a] = Pending]
  /\ AwaitAnswers(a, "asleep")
  /\ UNCHANGED <<slots, workerVars, logVars>>

(* A notified awaiter has the lock again; with a timeout it does not wait   *)
(* a second time.                                                           *)
AwaitWakes(a) ==
  /\ apc[a] = "awake"
  /\ AwaitAnswers(a, IF a \in Timed THEN "nil" ELSE "asleep")
  /\ UNCHANGED <<slots, workerVars, goal, logVars>>

AwaitTimesOut(a) ==
  /\ apc[a] = "asleep"
  /\ a \in Timed
  /\ AwaitAnswers(a, "nil")
  /\ UNCHANGED <<slots, workerVars, goal, logVars>>

(* The program has no more work for the agent. *)
Finished == /\ \A w \in Workers : wpc[w] = "none"
            /\ \A a \in Awaiters : apc[a] \in {"true", "nil"}
            /\ UNCHANGED vars

Next == \/ Send
        \/ \E clear \in BOOLEAN : RestartAgent(clear)
        \/ \E m \in Modes : SetErrorMode(m)
        \/ \E w \in Workers : Work(w)
        \/ \E a \in Awaiters : Await(a) \/ AwaitWakes(a) \/ AwaitTimesOut(a)
        \/ Finished

Spec == Init /\ [][Next]_vars

(* Running threads keep running, a notified or timed out thread returns     *)
(* from condition-wait; whether anybody sends or restarts is open.          *)
FairSpec == /\ Spec
            /\ \A w \in Workers : WF_vars(Work(w))
            /\ \A a \in Awaiters : WF_vars(AwaitWakes(a)) /\ WF_vars(AwaitTimesOut(a))

-----------------------------------------------------------------------------
(* Properties. *)

(* Types of the slots and of the threads around them; part of OneWorker. *)
TypeOK ==
  /\ value \in Seq(Nat) /\ queue \in Seq(Nat) /\ executed \in Seq(Nat)
  /\ active \in BOOLEAN /\ idle \in BOOLEAN /\ errorVal \in BOOLEAN /\ mode \in Modes
  /\ wpc \in [Workers -> {"none", "dequeue", "call", "store", "catch"}]
  /\ act \in [Workers -> Nat \cup {NIL}] /\ arg \in [Workers -> Seq(Nat)]
  /\ fresh \in [Workers -> BOOLEAN]
  /\ apc \in [Awaiters -> {"out", "asleep", "awake", "true", "nil"}]
  /\ goal \in [Awaiters -> SUBSET Nat] /\ stalled \subseteq Awaiters
  /\ sent \in Nat /\ restarts \in Nat /\ discarded \subseteq Nat

(* "executed serially per-agent": there is never a second worker, however   *)
(* sends, restarts and the exit of a worker interleave; active-p says       *)
(* whether there is one, and only an error leaves actions without one.      *)
OneWorker == /\ TypeOK
             /\ \A u, w \in Workers : wpc[u] # "none" /\ wpc[w] # "none" => u = w
             /\ active <=> \E w \in Workers : wpc[w] # "none"
             /\ idle <=> ~active
             /\ idle /\ queue # <<>> => errorVal

(* Actions are called in the order of their sends, each at most once, and   *)
(* none vanishes: it is queued, running, done or discarded by a restart.    *)
Increasing(s) == \A i, j \in 1..Len(s) : i < j => s[i] < s[j]
Running == {act[w] : w \in {u \in Workers : wpc[u] = "call"}}

InOrderOnce ==
  /\ Increasing(executed) /\ Increasing(queue)
  /\ \A i \in Elems(executed), j \in Elems(queue) \cup Running : i < j
  /\ 1..sent = Elems(executed) \cup Running \cup Elems(queue) \cup discarded
  /\ discarded \cap (Elems(executed) \cup Running \cup Elems(queue)) = {}

(* An action's result is stored on top of the very value it was given,      *)
(* unless restart-agent came in between: no update is lost.                 *)
NoLostUpdate == \A w \in Workers : wpc[w] = "store" /\ fresh[w] => arg[w] = value

(* "Block until all currently pending actions ... have completed": when     *)
(* await returns T, what was pending at the call is done or discarded,      *)
(* unless an error in :fail mode had stopped the worker (idle-p is true     *)
(* then as well).                                                           *)
AwaitMeansDone == \A a \in Awaiters : apc[a] = "true" /\ a \notin stalled =>
                    goal[a] \subseteq Elems(executed) \cup discarded

(* await "blocks until all currently pending actions ... have completed"    *)
(* (mutable.lisp:703-705), but going idle notifies one sleeping thread: of  *)
(* several callers the others sleep on beside an idle agent, for ever when  *)
(* nothing is sent any more.  LeftAsleep is exactly that state, with the    *)
(* other caller that was chosen, and all that AwaitReturns exempts: a lone  *)
(* caller returns, and when several wait one of them does.                  *)
Blocked(a) == apc[a] \in {"asleep", "awake"}
Returned(a) == apc[a] \in {"true", "nil"}
LeftAsleep(a) == /\ idle /\ apc[a] = "asleep"
                 /\ \E b \in Awaiters \ {a} : apc[b] # "out"

AwaitReturns ==
  \A a \in Awaiters :
    /\ Blocked(a) ~> (Returned(a) \/ LeftAsleep(a))
    /\ Blocked(a) ~> \E b \in Awaiters : Returned(b)

(* An agent with a worker empties its queue or fails.                       *)
WorkerDrains == active ~> (queue = <<>> \/ Failed)

(* An agent with a worker empties its queue or fails, and an await returns  *)
(* unless the one notification went to another sleeper: a second caller may *)
(* wait for ever, against the docstring of await.                           *)
NobodyStuck == AwaitReturns /\ WorkerDrains
=============================================================================
