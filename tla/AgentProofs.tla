---------------------------- MODULE AgentProofs ----------------------------
(***************************************************************************)
(* Agents for any number of workers, awaiters, sends and restarts.  All of *)
(* the argument rests on active-p: it is set and cleared under the lock    *)
(* together with the birth and the end of the one worker, so what a worker *)
(* does outside of the lock meets no second worker.                        *)
(***************************************************************************)
EXTENDS Agent, SequenceTheorems, TLAPS

-----------------------------------------------------------------------------
(* Sequences of numbers. *)

\* Where an element of a sequence comes from, for the two ways the queue changes.
LEMMA ElemsAppend ==
  ASSUME NEW S, NEW s \in Seq(S), NEW x \in S
  PROVE  Elems(Append(s, x)) = Elems(s) \cup {x}
BY AppendProperties DEF Elems

LEMMA ElemsTail ==
  ASSUME NEW S, NEW s \in Seq(S), s # <<>>
  PROVE  Elems(s) = {Head(s)} \cup Elems(Tail(s))
<1>1. /\ Len(s) \in Nat \ {0} /\ Head(s) = s[1] /\ Len(Tail(s)) = Len(s) - 1
      /\ \A i \in 1..Len(Tail(s)) : Tail(s)[i] = s[i + 1]
  BY HeadTailProperties, EmptySeq
<1>2. \A i \in 1..Len(s) : i = 1 \/ (i - 1 \in 1..Len(Tail(s)) /\ s[i] = Tail(s)[i - 1])
  BY <1>1
<1>3. Elems(s) \subseteq {Head(s)} \cup Elems(Tail(s))
  BY <1>1, <1>2 DEF Elems
<1>4. {Head(s)} \cup Elems(Tail(s)) \subseteq Elems(s)
  BY <1>1 DEF Elems
<1>5. QED
  BY <1>3, <1>4

LEMMA ElemsType ==
  ASSUME NEW S, NEW s \in Seq(S)
  PROVE  Elems(s) \subseteq S
BY ElementOfSeq DEF Elems

LEMMA ElemsEmpty == Elems(<<>>) = {}
BY DEF Elems

\* A sequence stays increasing when something greater than all of it is appended.
LEMMA IncreasingAppend ==
  ASSUME NEW s \in Seq(Nat), NEW x \in Nat, Increasing(s), \A y \in Elems(s) : y < x
  PROVE  Increasing(Append(s, x))
<1>1. /\ Len(Append(s, x)) = Len(s) + 1 /\ Append(s, x)[Len(s) + 1] = x
      /\ \A i \in 1..Len(s) : Append(s, x)[i] = s[i]
      /\ Len(s) \in Nat
  BY AppendProperties, LenProperties
<1>2. SUFFICES ASSUME NEW i \in 1..Len(s) + 1, NEW j \in 1..Len(s) + 1, i < j
               PROVE  Append(s, x)[i] < Append(s, x)[j]
  BY <1>1 DEF Increasing
<1>3. i \in 1..Len(s) /\ s[i] \in Elems(s)
  BY <1>1, <1>2 DEF Elems
<1>4. CASE j = Len(s) + 1
  BY <1>1, <1>3, <1>4
<1>5. CASE j # Len(s) + 1
  BY <1>1, <1>2, <1>3, <1>5 DEF Increasing
<1>6. QED
  BY <1>4, <1>5

\* The first of an increasing sequence is below the rest, which is increasing.
LEMMA IncreasingTail ==
  ASSUME NEW s \in Seq(Nat), s # <<>>, Increasing(s)
  PROVE  Increasing(Tail(s)) /\ \A y \in Elems(Tail(s)) : Head(s) < y
<1>1. /\ Len(s) \in Nat \ {0} /\ Head(s) = s[1] /\ Len(Tail(s)) = Len(s) - 1
      /\ \A i \in 1..Len(Tail(s)) : Tail(s)[i] = s[i + 1]
  BY HeadTailProperties, EmptySeq
<1>2. Increasing(Tail(s))
  BY <1>1 DEF Increasing
<1>3. \A i \in 1..Len(Tail(s)) : Head(s) < Tail(s)[i]
  BY <1>1 DEF Increasing
<1>4. QED
  BY <1>2, <1>3 DEF Elems

-----------------------------------------------------------------------------
(* One worker. *)

\* A worker that is about to call an action or to store its result has one.
ActInv == \A w \in Workers : wpc[w] \in {"call", "store"} => act[w] \in Nat

\* active-p counts the workers, idle-p is its opposite.
Single == /\ \A u, w \in Workers : wpc[u] # "none" /\ wpc[w] # "none" => u = w
          /\ active <=> \E w \in Workers : wpc[w] # "none"
          /\ idle <=> ~active

\* Only an error keeps actions in the queue of an idle agent.
QueueServed == idle /\ queue # <<>> => errorVal

WorkerInv == TypeOK /\ ActInv /\ Single /\ QueueServed

\* What OneWorker says, in the parts that the proof goes by.
LEMMA WorkerInvSuffices == WorkerInv => OneWorker
BY DEF WorkerInv, OneWorker, Single, QueueServed

LEMMA InitWorkerInv == Init => WorkerInv
<1> SUFFICES ASSUME Init PROVE WorkerInv
  OBVIOUS
<1>1. TypeOK
  BY EmptySeq DEF Init, TypeOK
<1>2. ActInv /\ QueueServed
  BY DEF Init, ActInv, QueueServed
<1>3. Single
  BY DEF Init, Single
<1>4. QED
  BY <1>1, <1>2, <1>3 DEF WorkerInv

\* %ensure-agent-running leaves one worker, whoever calls it.
LEMMA EnsureRunningOneWorker ==
  ASSUME WorkerInv, EnsureRunning
  PROVE  /\ Single' /\ active' = TRUE /\ idle' = FALSE
         /\ wpc' \in [Workers -> {"none", "dequeue", "call", "store", "catch"}]
         /\ \A w \in Workers : wpc'[w] = wpc[w] \/ (wpc[w] = "none" /\ wpc'[w] = "dequeue")
<1>1. CASE active /\ UNCHANGED <<active, idle, wpc>>
  BY <1>1 DEF WorkerInv, TypeOK, Single
<1>2. ASSUME ~active, active' = TRUE, idle' = FALSE,
             NEW w \in Workers, wpc[w] = "none", wpc' = [wpc EXCEPT ![w] = "dequeue"]
      PROVE  /\ Single'
             /\ wpc' \in [Workers -> {"none", "dequeue", "call", "store", "catch"}]
             /\ \A u \in Workers : wpc'[u] = wpc[u] \/ (wpc[u] = "none" /\ wpc'[u] = "dequeue")
  BY <1>2 DEF WorkerInv, TypeOK, Single
<1>3. QED
  BY <1>1, <1>2 DEF EnsureRunning

LEMMA SendWorkerInv == ASSUME WorkerInv, Send PROVE WorkerInv'
<1>1. /\ EnsureRunning /\ queue' = Append(queue, sent + 1) /\ sent' = sent + 1
      /\ UNCHANGED <<value, errorVal, mode, act, arg, fresh, apc, goal, stalled,
                     executed, discarded, restarts>>
  BY DEF Send, awaitVars
<1>2. /\ Single' /\ active' = TRUE /\ idle' = FALSE
      /\ wpc' \in [Workers -> {"none", "dequeue", "call", "store", "catch"}]
      /\ \A w \in Workers : wpc'[w] = wpc[w] \/ (wpc[w] = "none" /\ wpc'[w] = "dequeue")
  BY <1>1, EnsureRunningOneWorker
<1>3. sent' \in Nat /\ queue' \in Seq(Nat)
  BY <1>1, AppendProperties DEF WorkerInv, TypeOK
<1>4. TypeOK'
  BY <1>1, <1>2, <1>3 DEF WorkerInv, TypeOK
<1>5. ActInv' /\ QueueServed'
  BY <1>1, <1>2 DEF WorkerInv, ActInv, QueueServed
<1>6. QED
  BY <1>2, <1>4, <1>5 DEF WorkerInv

LEMMA RestartWorkerInv ==
  ASSUME WorkerInv, NEW clear \in BOOLEAN, RestartAgent(clear) PROVE WorkerInv'
<1>1. /\ errorVal' = FALSE /\ value' = <<>> /\ restarts' = restarts + 1
      /\ queue' = IF clear THEN <<>> ELSE queue
      /\ discarded' = IF clear THEN discarded \cup Elems(queue) ELSE discarded
      /\ fresh' = [w \in Workers |-> FALSE]
      /\ UNCHANGED <<mode, act, arg, apc, goal, stalled, sent, executed>>
  BY DEF RestartAgent, awaitVars
<1>2. /\ Single'
      /\ active' \in BOOLEAN /\ idle' \in BOOLEAN
      /\ wpc' \in [Workers -> {"none", "dequeue", "call", "store", "catch"}]
      /\ \A w \in Workers : wpc'[w] = wpc[w] \/ (wpc[w] = "none" /\ wpc'[w] = "dequeue")
      /\ queue' # <<>> => idle' = FALSE
  <2>1. CASE queue' # <<>>
    BY <2>1, EnsureRunningOneWorker DEF RestartAgent
  <2>2. CASE queue' = <<>>
    <3>1. UNCHANGED <<active, idle, wpc>>
      BY <2>2 DEF RestartAgent
    <3>2. QED
      BY <2>2, <3>1 DEF WorkerInv, TypeOK, Single
  <2>3. QED
    BY <2>1, <2>2
<1>3. queue' \in Seq(Nat) /\ discarded' \subseteq Nat /\ value' \in Seq(Nat) /\ restarts' \in Nat
  <2>1. queue \in Seq(Nat) /\ discarded \subseteq Nat /\ restarts \in Nat /\ <<>> \in Seq(Nat)
    BY EmptySeq DEF WorkerInv, TypeOK
  <2>2. Elems(queue) \subseteq Nat
    BY <2>1, ElemsType
  <2>3. queue' \in Seq(Nat)
    BY <1>1, <2>1, Zenon
  <2>4. discarded' \subseteq Nat
    BY <1>1, <2>1, <2>2, Zenon
  <2>5. value' \in Seq(Nat)
    BY <1>1, <2>1, Zenon
  <2>6. restarts' \in Nat
    BY <1>1, <2>1
  <2>7. QED
    BY <2>3, <2>4, <2>5, <2>6
<1>4. TypeOK'
  BY <1>1, <1>2, <1>3 DEF WorkerInv, TypeOK
<1>5. ActInv'
  BY <1>1, <1>2 DEF WorkerInv, ActInv
<1>6. QueueServed'
  BY <1>2 DEF QueueServed
<1>7. QED
  BY <1>2, <1>4, <1>5, <1>6 DEF WorkerInv

\* The steps of a worker leave it the only one: it was, and it starts no other.
LEMMA WorkSingle ==
  ASSUME WorkerInv, NEW w \in Workers, NEW l \in {"dequeue", "call", "store", "catch"},
         wpc[w] # "none", wpc' = [wpc EXCEPT ![w] = l], UNCHANGED <<active, idle>>
  PROVE  /\ Single'
         /\ wpc' \in [Workers -> {"none", "dequeue", "call", "store", "catch"}]
         /\ wpc'[w] = l /\ \A u \in Workers \ {w} : wpc[u] = "none" /\ wpc'[u] = "none"
<1>1. /\ wpc'[w] = l /\ \A u \in Workers \ {w} : wpc[u] = "none" /\ wpc'[u] = "none"
      /\ wpc' \in [Workers -> {"none", "dequeue", "call", "store", "catch"}]
  BY DEF WorkerInv, TypeOK, Single
<1>2. active' <=> \E u \in Workers : wpc'[u] # "none"
  BY <1>1 DEF WorkerInv, Single
<1>3. QED
  BY <1>1, <1>2 DEF WorkerInv, Single

LEMMA GoIdleWorkerInv == ASSUME WorkerInv, NEW w \in Workers, GoIdle(w) PROVE WorkerInv'
<1>1. /\ wpc[w] = "dequeue" /\ idle' = TRUE /\ active' = FALSE
      /\ wpc' = [wpc EXCEPT ![w] = "none"]
      /\ UNCHANGED <<value, queue, errorVal, mode, act, arg, fresh, goal, stalled,
                     sent, executed, discarded, restarts>>
  BY DEF GoIdle, logVars
<1>2. apc' \in [Awaiters -> {"out", "asleep", "awake", "true", "nil"}]
  BY DEF GoIdle, NotifyIdle, WorkerInv, TypeOK
<1>3. /\ \A u \in Workers : wpc'[u] = "none"
      /\ wpc' \in [Workers -> {"none", "dequeue", "call", "store", "catch"}]
  BY <1>1 DEF WorkerInv, TypeOK, Single
<1>4. TypeOK'
  BY <1>1, <1>2, <1>3 DEF WorkerInv, TypeOK
<1>5. ActInv' /\ Single'
  BY <1>1, <1>3 DEF ActInv, Single
<1>6. QueueServed'
  BY <1>1 DEF GoIdle, Failed, QueueServed
<1>7. QED
  BY <1>4, <1>5, <1>6 DEF WorkerInv

LEMMA DequeueWorkerInv == ASSUME WorkerInv, NEW w \in Workers, Dequeue(w) PROVE WorkerInv'
<1>1. /\ wpc[w] = "dequeue" /\ queue # <<>>
      /\ act' = [act EXCEPT ![w] = Head(queue)] /\ queue' = Tail(queue)
      /\ wpc' = [wpc EXCEPT ![w] = "call"]
      /\ UNCHANGED <<value, active, idle, errorVal, mode, arg, fresh, apc, goal, stalled,
                     sent, executed, discarded, restarts>>
  BY DEF Dequeue, awaitVars, logVars
<1>2. /\ Single' /\ wpc' \in [Workers -> {"none", "dequeue", "call", "store", "catch"}]
      /\ wpc'[w] = "call" /\ \A u \in Workers \ {w} : wpc[u] = "none" /\ wpc'[u] = "none"
  BY <1>1, WorkSingle
<1>3. Head(queue) \in Nat /\ Tail(queue) \in Seq(Nat)
  BY <1>1, HeadTailProperties DEF WorkerInv, TypeOK
<1>4. TypeOK'
  BY <1>1, <1>2, <1>3 DEF WorkerInv, TypeOK
<1>5. ActInv'
  BY <1>1, <1>2, <1>3 DEF WorkerInv, TypeOK, ActInv
<1>6. QueueServed'
  BY <1>1 DEF WorkerInv, QueueServed
<1>7. QED
  BY <1>2, <1>4, <1>5, <1>6 DEF WorkerInv

LEMMA CallWorkerInv == ASSUME WorkerInv, NEW w \in Workers, CallAction(w) PROVE WorkerInv'
<1>1. PICK l \in {"store", "catch"} : wpc' = [wpc EXCEPT ![w] = l]
  BY DEF CallAction
<1>2. /\ wpc[w] = "call" /\ arg' = [arg EXCEPT ![w] = value] /\ fresh' = [fresh EXCEPT ![w] = TRUE]
      /\ executed' = Append(executed, act[w])
      /\ UNCHANGED <<value, queue, active, idle, errorVal, mode, act, apc, goal, stalled,
                     sent, discarded, restarts>>
  BY DEF CallAction, slots, awaitVars
<1>3. /\ Single' /\ wpc' \in [Workers -> {"none", "dequeue", "call", "store", "catch"}]
      /\ wpc'[w] = l /\ \A u \in Workers \ {w} : wpc[u] = "none" /\ wpc'[u] = "none"
  BY <1>1, <1>2, WorkSingle
<1>4. executed' \in Seq(Nat)
  BY <1>2, AppendProperties DEF WorkerInv, TypeOK, ActInv
<1>5. TypeOK'
  BY <1>2, <1>3, <1>4 DEF WorkerInv, TypeOK
<1>6. ActInv'
  BY <1>2, <1>3 DEF WorkerInv, ActInv
<1>7. QueueServed'
  BY <1>2 DEF WorkerInv, QueueServed
<1>8. QED
  BY <1>3, <1>5, <1>6, <1>7 DEF WorkerInv

LEMMA StoreWorkerInv == ASSUME WorkerInv, NEW w \in Workers, StoreValue(w) PROVE WorkerInv'
<1>1. PICK l \in {"dequeue", "catch"} : wpc' = [wpc EXCEPT ![w] = l]
  BY DEF StoreValue
<1>2. /\ wpc[w] = "store" /\ value' = Append(arg[w], act[w])
      /\ act' = [act EXCEPT ![w] = NIL] /\ arg' = [arg EXCEPT ![w] = <<>>]
      /\ fresh' = [fresh EXCEPT ![w] = FALSE]
      /\ UNCHANGED <<queue, active, idle, errorVal, mode, apc, goal, stalled,
                     sent, executed, discarded, restarts>>
  BY DEF StoreValue, awaitVars, logVars
<1>3. /\ Single' /\ wpc' \in [Workers -> {"none", "dequeue", "call", "store", "catch"}]
      /\ wpc'[w] = l /\ \A u \in Workers \ {w} : wpc[u] = "none" /\ wpc'[u] = "none"
  BY <1>1, <1>2, WorkSingle
<1>4. value' \in Seq(Nat) /\ <<>> \in Seq(Nat)
  BY <1>2, AppendProperties, EmptySeq DEF WorkerInv, TypeOK, ActInv
<1>5. TypeOK'
  BY <1>2, <1>3, <1>4 DEF WorkerInv, TypeOK
<1>6. ActInv'
  BY <1>3 DEF ActInv
<1>7. QueueServed'
  BY <1>2 DEF WorkerInv, QueueServed
<1>8. QED
  BY <1>3, <1>5, <1>6, <1>7 DEF WorkerInv

LEMMA CatchWorkerInv == ASSUME WorkerInv, NEW w \in Workers, CatchError(w) PROVE WorkerInv'
<1>1. /\ wpc[w] = "catch" /\ errorVal' = TRUE /\ wpc' = [wpc EXCEPT ![w] = "dequeue"]
      /\ act' = [act EXCEPT ![w] = NIL] /\ arg' = [arg EXCEPT ![w] = <<>>]
      /\ fresh' = [fresh EXCEPT ![w] = FALSE]
      /\ UNCHANGED <<value, queue, active, idle, mode, apc, goal, stalled,
                     sent, executed, discarded, restarts>>
  BY DEF CatchError, awaitVars, logVars
<1>2. /\ Single' /\ wpc' \in [Workers -> {"none", "dequeue", "call", "store", "catch"}]
      /\ wpc'[w] = "dequeue" /\ \A u \in Workers \ {w} : wpc[u] = "none" /\ wpc'[u] = "none"
  BY <1>1, WorkSingle
<1>3. TypeOK'
  BY <1>1, <1>2, EmptySeq DEF WorkerInv, TypeOK
<1>4. ActInv' /\ QueueServed'
  BY <1>1, <1>2 DEF ActInv, QueueServed
<1>5. QED
  BY <1>2, <1>3, <1>4 DEF WorkerInv

\* What the steps of the awaiters have in common.
AwaitStep(a) == /\ apc[a] \in {"out", "awake", "asleep"}
                /\ \E otherwise \in {"asleep", "nil"} : AwaitAnswers(a, otherwise)
                /\ \/ UNCHANGED goal
                   \/ apc[a] = "out" /\ goal' = [goal EXCEPT ![a] = Pending]
                /\ UNCHANGED <<slots, workerVars, logVars>>

LEMMA AwaitSteps ==
  ASSUME NEW a \in Awaiters, Await(a) \/ AwaitWakes(a) \/ AwaitTimesOut(a)
  PROVE  AwaitStep(a)
BY DEF Await, AwaitWakes, AwaitTimesOut, AwaitStep

\* What an awaiter waits for are actions.
LEMMA PendingType == WorkerInv => Pending \subseteq Nat
BY ElemsType DEF WorkerInv, TypeOK, ActInv, Pending

LEMMA AwaitWorkerInv == ASSUME WorkerInv, NEW a \in Awaiters, AwaitStep(a) PROVE WorkerInv'
<1>1. UNCHANGED <<value, queue, active, idle, errorVal, mode, wpc, act, arg, fresh,
                  sent, executed, discarded, restarts>>
  BY DEF AwaitStep, slots, workerVars, logVars
<1>2. /\ apc' \in [Awaiters -> {"out", "asleep", "awake", "true", "nil"}]
      /\ stalled' \subseteq Awaiters
  BY DEF AwaitStep, AwaitAnswers, WorkerInv, TypeOK
<1>3. goal' \in [Awaiters -> SUBSET Nat]
  BY PendingType DEF AwaitStep, WorkerInv, TypeOK
<1>4. TypeOK'
  BY <1>1, <1>2, <1>3 DEF WorkerInv, TypeOK
<1>5. ActInv' /\ Single' /\ QueueServed'
  BY <1>1 DEF WorkerInv, ActInv, Single, QueueServed
<1>6. QED
  BY <1>4, <1>5 DEF WorkerInv

LEMMA StutterWorkerInv == WorkerInv /\ UNCHANGED vars => WorkerInv'
BY DEF vars, slots, workerVars, awaitVars, logVars, WorkerInv, TypeOK, ActInv, Single, QueueServed

LEMMA ModeWorkerInv == ASSUME WorkerInv, NEW m \in Modes, SetErrorMode(m) PROVE WorkerInv'
<1>1. /\ mode' = m
      /\ UNCHANGED <<value, queue, active, idle, errorVal, wpc, act, arg, fresh, apc, goal, stalled,
                     sent, executed, discarded, restarts>>
  BY DEF SetErrorMode, workerVars, awaitVars, logVars
<1>2. TypeOK'
  BY <1>1 DEF WorkerInv, TypeOK
<1>3. QED
  BY <1>1, <1>2 DEF WorkerInv, ActInv, Single, QueueServed

\* The steps of an agent, as the proofs go through them.
LEMMA Steps ==
  ASSUME [Next]_vars
  PROVE  \/ Send
         \/ \E clear \in BOOLEAN : RestartAgent(clear)
         \/ \E m \in Modes : SetErrorMode(m)
         \/ \E w \in Workers : GoIdle(w) \/ Dequeue(w) \/ CallAction(w) \/ StoreValue(w) \/ CatchError(w)
         \/ \E a \in Awaiters : AwaitStep(a)
         \/ UNCHANGED vars
BY AwaitSteps DEF Next, Work, Finished

LEMMA StepWorkerInv == ASSUME WorkerInv, [Next]_vars PROVE WorkerInv'
BY Steps, SendWorkerInv, RestartWorkerInv, ModeWorkerInv, GoIdleWorkerInv, DequeueWorkerInv,
   CallWorkerInv, StoreWorkerInv, CatchWorkerInv, AwaitWorkerInv, StutterWorkerInv

LEMMA WorkerInvHolds == Spec => []WorkerInv
BY InitWorkerInv, StepWorkerInv, PTL DEF Spec

\* However sends, restarts, errors and the exit of a worker interleave, an agent has at
\* most one worker, and one whenever active-p says so (%ensure-agent-running, %agent-worker).
THEOREM WorkersAreSerial == Spec => []OneWorker
BY WorkerInvHolds, WorkerInvSuffices, PTL

-----------------------------------------------------------------------------
(* No update is lost. *)

LEMMA StepNoLostUpdate == ASSUME WorkerInv, NoLostUpdate, [Next]_vars PROVE NoLostUpdate'
<1>1. CASE Send
  BY <1>1, EnsureRunningOneWorker DEF Send, NoLostUpdate
<1>2. ASSUME NEW clear \in BOOLEAN, RestartAgent(clear) PROVE NoLostUpdate'
  BY <1>2 DEF RestartAgent, NoLostUpdate
<1>3. ASSUME NEW m \in Modes, SetErrorMode(m) PROVE NoLostUpdate'
  BY <1>3 DEF SetErrorMode, workerVars, NoLostUpdate
<1>4. ASSUME NEW w \in Workers, GoIdle(w) PROVE NoLostUpdate'
  BY <1>4 DEF GoIdle, WorkerInv, TypeOK, NoLostUpdate
<1>5. ASSUME NEW w \in Workers, Dequeue(w) PROVE NoLostUpdate'
  BY <1>5 DEF Dequeue, WorkerInv, TypeOK, NoLostUpdate
<1>6. ASSUME NEW w \in Workers, CallAction(w) PROVE NoLostUpdate'
  <2>1. \A u \in Workers \ {w} : wpc[u] = "none"
    BY <1>6 DEF CallAction, WorkerInv, Single
  <2>2. QED
    BY <1>6, <2>1 DEF CallAction, slots, WorkerInv, TypeOK, NoLostUpdate
<1>7. ASSUME NEW w \in Workers, StoreValue(w) PROVE NoLostUpdate'
  <2>1. \A u \in Workers \ {w} : wpc[u] = "none"
    BY <1>7 DEF StoreValue, WorkerInv, Single
  <2>2. QED
    BY <1>7, <2>1 DEF StoreValue, WorkerInv, TypeOK, NoLostUpdate
<1>8. ASSUME NEW w \in Workers, CatchError(w) PROVE NoLostUpdate'
  BY <1>8 DEF CatchError, WorkerInv, TypeOK, NoLostUpdate
<1>9. ASSUME NEW a \in Awaiters, AwaitStep(a) PROVE NoLostUpdate'
  BY <1>9 DEF AwaitStep, slots, workerVars, NoLostUpdate
<1>10. CASE UNCHANGED vars
  BY <1>10 DEF vars, slots, workerVars, NoLostUpdate
<1>11. QED
  BY <1>1, <1>2, <1>3, <1>4, <1>5, <1>6, <1>7, <1>8, <1>9, <1>10, Steps

\* An action's result is stored over the value it was called with, unless restart-agent
\* came in between, although %agent-worker calls the action without the lock.
THEOREM UpdatesKept == Spec => []NoLostUpdate
<1>1. Init => NoLostUpdate
  BY DEF Init, NoLostUpdate
<1>2. QED
  BY <1>1, WorkerInvHolds, StepNoLostUpdate, PTL DEF Spec

-----------------------------------------------------------------------------
(* Order. *)

\* What a worker has taken from the queue comes before what is left there, and what it
\* has called is on record.
TakenInv == \A w \in Workers :
              /\ wpc[w] = "call" => \A j \in Elems(queue) : act[w] < j
              /\ wpc[w] = "store" => act[w] \in Elems(executed)

OrderInv == InOrderOnce /\ TakenInv

\* The only worker is the only one that can be calling.
LEMMA RunningOf ==
  ASSUME WorkerInv, NEW w \in Workers, wpc[w] # "none"
  PROVE  /\ Running = IF wpc[w] = "call" THEN {act[w]} ELSE {}
         /\ \A u \in Workers \ {w} : wpc[u] = "none"
<1>1. \A u \in Workers \ {w} : wpc[u] = "none"
  BY DEF WorkerInv, Single
<1>2. QED
  BY <1>1 DEF Running

\* Nobody runs an action that neither started nor stopped to.
LEMMA RunningSame ==
  ASSUME UNCHANGED act, \A w \in Workers : wpc'[w] = "call" <=> wpc[w] = "call"
  PROVE  Running' = Running
BY DEF Running

LEMMA SendOrder == ASSUME WorkerInv, OrderInv, Send PROVE OrderInv'
<1>1. /\ EnsureRunning /\ queue' = Append(queue, sent + 1) /\ sent' = sent + 1
      /\ UNCHANGED <<act, executed, discarded>>
  BY DEF Send
<1>2. /\ \A w \in Workers : wpc'[w] = "call" <=> wpc[w] = "call"
      /\ \A w \in Workers : wpc'[w] = "store" <=> wpc[w] = "store"
  BY <1>1, EnsureRunningOneWorker
<1>3. Running' = Running
  BY <1>1, <1>2, RunningSame
<1>4. /\ queue \in Seq(Nat) /\ sent \in Nat /\ executed \in Seq(Nat)
      /\ Elems(executed) \subseteq Nat /\ Elems(queue) \subseteq Nat
  BY ElemsType DEF WorkerInv, TypeOK
<1>5. Elems(queue') = Elems(queue) \cup {sent + 1}
  BY <1>1, <1>4, ElemsAppend
<1>6. \A i \in Elems(executed) \cup Running \cup Elems(queue) \cup discarded : i \in 1..sent
  BY DEF OrderInv, InOrderOnce
<1>7. Increasing(queue')
  BY <1>1, <1>4, <1>6, IncreasingAppend DEF OrderInv, InOrderOnce
<1>8. \A i \in Elems(executed)', j \in Elems(queue)' \cup Running' : i < j
  BY <1>1, <1>3, <1>4, <1>5, <1>6 DEF OrderInv, InOrderOnce
<1>9. 1..sent' = Elems(executed)' \cup Running' \cup Elems(queue)' \cup discarded'
  <2>1. 1..sent' = 1..sent \cup {sent + 1}
    BY <1>1, <1>4
  <2>2. QED
    BY <1>1, <1>3, <1>5, <2>1 DEF OrderInv, InOrderOnce
<1>10. discarded' \cap (Elems(executed)' \cup Running' \cup Elems(queue)') = {}
  BY <1>1, <1>3, <1>4, <1>5, <1>6 DEF OrderInv, InOrderOnce
<1>11. TakenInv'
  <2>1. \A w \in Workers : wpc[w] = "call" => act[w] \in Running
    BY DEF Running
  <2>2. QED
    BY <1>1, <1>2, <1>4, <1>5, <1>6, <2>1 DEF OrderInv, TakenInv
<1>12. Increasing(executed)'
  BY <1>1 DEF OrderInv, InOrderOnce
<1>13. QED
  BY <1>1, <1>7, <1>8, <1>9, <1>10, <1>11, <1>12 DEF OrderInv, InOrderOnce

LEMMA RestartOrder ==
  ASSUME WorkerInv, OrderInv, NEW clear \in BOOLEAN, RestartAgent(clear) PROVE OrderInv'
<1>1. /\ queue' = IF clear THEN <<>> ELSE queue
      /\ discarded' = IF clear THEN discarded \cup Elems(queue) ELSE discarded
      /\ UNCHANGED <<act, sent, executed>>
  BY DEF RestartAgent
<1>2. /\ \A w \in Workers : wpc'[w] = "call" <=> wpc[w] = "call"
      /\ \A w \in Workers : wpc'[w] = "store" <=> wpc[w] = "store"
  BY EnsureRunningOneWorker DEF RestartAgent
<1>3. Running' = Running
  BY <1>1, <1>2, RunningSame
<1>4. CASE ~clear
  <2>1. UNCHANGED <<queue, discarded>>
    BY <1>1, <1>4
  <2>2. QED
    BY <1>1, <1>2, <1>3, <2>1 DEF OrderInv, InOrderOnce, TakenInv, Elems, Increasing
<1>5. CASE clear
  <2>1. /\ Elems(queue') = {} /\ Increasing(queue') /\ discarded' = discarded \cup Elems(queue)
    BY <1>1, <1>5, ElemsEmpty DEF Increasing
  <2>2. Elems(executed) \cap Elems(queue) = {} /\ Running \cap Elems(queue) = {}
    <3>1. /\ \A i \in Elems(queue) \cup Elems(executed) : i \in Nat
          /\ \A w \in Workers : wpc[w] = "call" => act[w] \in Nat
      BY ElemsType DEF WorkerInv, TypeOK, ActInv
    <3>2. QED
      BY <3>1 DEF OrderInv, InOrderOnce, TakenInv, Running
  <2>3. TakenInv'
    BY <1>1, <1>2, <2>1 DEF OrderInv, TakenInv
  <2>4. 1..sent = Elems(executed) \cup Running \cup Elems(queue') \cup discarded'
    BY <2>1 DEF OrderInv, InOrderOnce
  <2>5. discarded' \cap (Elems(executed) \cup Running \cup Elems(queue')) = {}
    BY <2>1, <2>2 DEF OrderInv, InOrderOnce
  <2>6. QED
    BY <1>1, <1>3, <2>1, <2>3, <2>4, <2>5 DEF OrderInv, InOrderOnce
<1>6. QED
  BY <1>4, <1>5

LEMMA DequeueOrder == ASSUME WorkerInv, OrderInv, NEW w \in Workers, Dequeue(w) PROVE OrderInv'
<1>1. /\ wpc[w] = "dequeue" /\ queue # <<>> /\ queue' = Tail(queue)
      /\ act' = [act EXCEPT ![w] = Head(queue)] /\ wpc' = [wpc EXCEPT ![w] = "call"]
      /\ UNCHANGED <<sent, executed, discarded>>
  BY DEF Dequeue, logVars
<1>2. Running = {} /\ \A u \in Workers \ {w} : wpc[u] = "none"
  BY <1>1, RunningOf
<1>3. /\ wpc'[w] = "call" /\ act'[w] = Head(queue)
      /\ \A u \in Workers \ {w} : wpc'[u] = "none"
      /\ queue \in Seq(Nat) /\ Elems(executed) \subseteq Nat
  BY <1>1, <1>2, ElemsType DEF WorkerInv, TypeOK
<1>4. Running' = {Head(queue)}
  BY <1>3 DEF Running
<1>5. /\ Elems(queue) = {Head(queue)} \cup Elems(queue')
      /\ Increasing(queue') /\ \A j \in Elems(queue') : Head(queue) < j
  BY <1>1, <1>3, ElemsTail, IncreasingTail DEF OrderInv, InOrderOnce
<1>6. TakenInv'
  BY <1>3, <1>5 DEF TakenInv
<1>7. InOrderOnce'
  BY <1>1, <1>2, <1>4, <1>5 DEF OrderInv, InOrderOnce
<1>8. QED
  BY <1>6, <1>7 DEF OrderInv

LEMMA CallOrder == ASSUME WorkerInv, OrderInv, NEW w \in Workers, CallAction(w) PROVE OrderInv'
<1>1. PICK l \in {"store", "catch"} : wpc' = [wpc EXCEPT ![w] = l]
  BY DEF CallAction
<1>2. /\ wpc[w] = "call" /\ executed' = Append(executed, act[w])
      /\ UNCHANGED <<queue, act, sent, discarded>>
  BY DEF CallAction, slots
<1>3. Running = {act[w]} /\ \A u \in Workers \ {w} : wpc[u] = "none"
  BY <1>2, RunningOf
<1>4. /\ wpc'[w] = l /\ \A u \in Workers \ {w} : wpc'[u] = "none"
      /\ executed \in Seq(Nat) /\ act[w] \in Nat
  BY <1>1, <1>2, <1>3 DEF WorkerInv, TypeOK, ActInv
<1>5. Running' = {}
  BY <1>4 DEF Running
<1>6. Elems(executed') = Elems(executed) \cup {act[w]}
  BY <1>2, <1>4, ElemsAppend
<1>7. Increasing(executed')
  BY <1>2, <1>3, <1>4, IncreasingAppend DEF OrderInv, InOrderOnce
<1>8. TakenInv'
  BY <1>2, <1>4, <1>6 DEF TakenInv
<1>9. \A j \in Elems(queue) : act[w] < j
  BY <1>2 DEF OrderInv, TakenInv
<1>10. /\ Increasing(queue)' /\ Elems(queue)' = Elems(queue)
       /\ \A i \in Elems(executed'), j \in Elems(queue) : i < j
  BY <1>2, <1>6, <1>9 DEF OrderInv, InOrderOnce, Increasing, Elems
<1>11. /\ 1..sent = Elems(executed') \cup Elems(queue) \cup discarded
       /\ discarded \cap (Elems(executed') \cup Elems(queue)) = {}
  BY <1>3, <1>6 DEF OrderInv, InOrderOnce
<1>12. QED
  BY <1>2, <1>5, <1>7, <1>8, <1>10, <1>11 DEF OrderInv, InOrderOnce

\* Steps that neither take an action from the queue nor call one.
LEMMA OtherOrder ==
  ASSUME OrderInv, UNCHANGED <<queue, sent, executed, discarded>>,
         \A w \in Workers : /\ wpc'[w] \in {"call", "store"} => wpc'[w] = wpc[w] /\ act'[w] = act[w]
                            /\ wpc[w] = "call" => wpc'[w] = "call"
  PROVE  OrderInv'
<1>1. Running' = Running
  BY DEF Running
<1>2. QED
  BY <1>1 DEF OrderInv, InOrderOnce, TakenInv, Elems, Increasing

LEMMA StepOrder == ASSUME WorkerInv, OrderInv, [Next]_vars PROVE OrderInv'
<1>1. ASSUME NEW m \in Modes, SetErrorMode(m) PROVE OrderInv'
  BY <1>1, OtherOrder DEF SetErrorMode, workerVars, logVars
<1>2. ASSUME NEW w \in Workers, GoIdle(w) \/ StoreValue(w) \/ CatchError(w) PROVE OrderInv'
  <2>1. /\ wpc[w] # "call" /\ UNCHANGED <<queue, sent, executed, discarded>>
        /\ \E l \in {"none", "dequeue", "catch"} : wpc' = [wpc EXCEPT ![w] = l]
        /\ \A u \in Workers \ {w} : act'[u] = act[u]
    BY <1>2 DEF GoIdle, StoreValue, CatchError, logVars, WorkerInv, TypeOK
  <2>2. QED
    BY <2>1, OtherOrder DEF WorkerInv, TypeOK
<1>3. ASSUME NEW a \in Awaiters, AwaitStep(a) PROVE OrderInv'
  BY <1>3, OtherOrder DEF AwaitStep, slots, workerVars, logVars
<1>4. CASE UNCHANGED vars
  BY <1>4, OtherOrder DEF vars, slots, workerVars, logVars
<1>5. QED
  BY <1>1, <1>2, <1>3, <1>4, Steps, SendOrder, RestartOrder, DequeueOrder, CallOrder

LEMMA OrderInvHolds == Spec => []OrderInv
<1>1. Init => OrderInv
  <2> SUFFICES ASSUME Init PROVE OrderInv
    OBVIOUS
  <2>1. /\ Elems(executed) = {} /\ Elems(queue) = {} /\ Running = {} /\ discarded = {} /\ sent = 0
        /\ Increasing(executed) /\ Increasing(queue)
    BY ElemsEmpty DEF Init, Running, Increasing
  <2>2. QED
    BY <2>1 DEF Init, OrderInv, InOrderOnce, TakenInv
<1>2. QED
  BY <1>1, WorkerInvHolds, StepOrder, PTL DEF Spec

\* Actions are called in the order of their sends, each at most once; none disappears from
\* the queue unless restart-agent clears it.
THEOREM ActionsInOrder == Spec => []InOrderOnce
<1>1. OrderInv => InOrderOnce
  BY DEF OrderInv
<1>2. QED
  BY <1>1, OrderInvHolds, PTL

-----------------------------------------------------------------------------
(* await. *)

\* What an awaiter waits for has been sent.
GoalInv == \A a \in Awaiters : goal[a] \subseteq 1..sent

AwaitInv == GoalInv /\ AwaitMeansDone

\* What was pending is somewhere; when the agent is idle and not stalled, it is behind it.
LEMMA IdleMeansDone ==
  ASSUME WorkerInv, OrderInv, idle, ~Stalled
  PROVE  1..sent = Elems(executed) \cup discarded
<1>1. \A w \in Workers : wpc[w] = "none"
  BY DEF WorkerInv, Single
<1>2. Running = {}
  BY <1>1 DEF Running
<1>3. queue = <<>>
  BY DEF WorkerInv, QueueServed, Stalled
<1>4. QED
  BY <1>2, <1>3, ElemsEmpty DEF OrderInv, InOrderOnce

LEMMA PendingSent == WorkerInv /\ OrderInv => Pending \subseteq 1..sent
<1> SUFFICES ASSUME WorkerInv, OrderInv, NEW i \in Pending PROVE i \in 1..sent
  OBVIOUS
<1>1. CASE i \in Elems(queue)
  BY <1>1 DEF OrderInv, InOrderOnce
<1>2. ASSUME NEW w \in Workers, wpc[w] = "call", i = act[w] PROVE i \in 1..sent
  BY <1>2 DEF OrderInv, InOrderOnce, Running
<1>3. ASSUME NEW w \in Workers, wpc[w] = "store", i = act[w] PROVE i \in 1..sent
  BY <1>3 DEF OrderInv, InOrderOnce, TakenInv
<1>4. QED
  BY <1>1, <1>2, <1>3 DEF Pending

\* Numbers of actions only grow, and what is done or discarded stays so.
LEMMA LogsGrow ==
  ASSUME WorkerInv, [Next]_vars
  PROVE  /\ 1..sent \subseteq 1..sent'
         /\ Elems(executed) \subseteq Elems(executed') /\ discarded \subseteq discarded'
<1>0. sent \in Nat /\ executed \in Seq(Nat)
  BY DEF WorkerInv, TypeOK
<1>1. CASE Send
  BY <1>0, <1>1 DEF Send
<1>2. ASSUME NEW clear \in BOOLEAN, RestartAgent(clear)
      PROVE  UNCHANGED <<sent, executed>> /\ discarded \subseteq discarded'
  BY <1>2 DEF RestartAgent
<1>3. ASSUME NEW w \in Workers, CallAction(w)
      PROVE  UNCHANGED <<sent, discarded>> /\ Elems(executed) \subseteq Elems(executed')
  <2>1. act[w] \in Nat /\ executed' = Append(executed, act[w]) /\ UNCHANGED <<sent, discarded>>
    BY <1>3 DEF CallAction, WorkerInv, ActInv
  <2>2. QED
    BY <1>0, <2>1, ElemsAppend
<1>4. CASE UNCHANGED <<sent, executed, discarded>>
  BY <1>4
<1>5. \/ Send \/ (\E clear \in BOOLEAN : RestartAgent(clear)) \/ (\E w \in Workers : CallAction(w))
      \/ UNCHANGED <<sent, executed, discarded>>
  BY Steps DEF SetErrorMode, GoIdle, Dequeue, StoreValue, CatchError, AwaitStep, vars, logVars
<1>6. QED
  BY <1>1, <1>2, <1>3, <1>4, <1>5

LEMMA StepAwaitInv == ASSUME WorkerInv, OrderInv, AwaitInv, [Next]_vars PROVE AwaitInv'
<1>1. /\ 1..sent \subseteq 1..sent'
      /\ Elems(executed) \subseteq Elems(executed') /\ discarded \subseteq discarded'
  BY LogsGrow
<1>2. ASSUME NEW a \in Awaiters, AwaitStep(a) PROVE AwaitInv'
  <2>1. /\ UNCHANGED <<idle, queue, errorVal, sent, executed, discarded>>
        /\ \A b \in Awaiters \ {a} : apc'[b] = apc[b] /\ goal'[b] = goal[b]
        /\ \A b \in Awaiters \ {a} : b \in stalled' => b \in stalled
        /\ stalled \subseteq stalled'
    BY <1>2 DEF AwaitStep, AwaitAnswers, slots, logVars, WorkerInv, TypeOK
  <2>2. goal'[a] \subseteq 1..sent
    BY <1>2, PendingSent DEF AwaitStep, AwaitInv, GoalInv, WorkerInv, TypeOK
  <2>3. GoalInv'
    BY <2>1, <2>2 DEF AwaitInv, GoalInv
  <2>4. ASSUME apc'[a] = "true", a \notin stalled'
        PROVE  goal'[a] \subseteq Elems(executed) \cup discarded
    <3>1. idle /\ ~Stalled
      BY <1>2, <2>4 DEF AwaitStep, AwaitAnswers, WorkerInv, TypeOK
    <3>2. QED
      BY <2>2, <3>1, IdleMeansDone
  <2>5. AwaitMeansDone'
    BY <2>1, <2>4 DEF AwaitInv, AwaitMeansDone
  <2>6. QED
    BY <2>3, <2>5 DEF AwaitInv
<1>3. ASSUME NEW w \in Workers, GoIdle(w) PROVE AwaitInv'
  <2>1. /\ UNCHANGED <<goal, stalled>>
        /\ \A b \in Awaiters : apc'[b] = "true" => apc[b] = "true"
    BY <1>3 DEF GoIdle, NotifyIdle, WorkerInv, TypeOK
  <2>2. QED
    BY <1>1, <2>1 DEF AwaitInv, GoalInv, AwaitMeansDone
<1>4. CASE UNCHANGED awaitVars
  BY <1>1, <1>4 DEF awaitVars, AwaitInv, GoalInv, AwaitMeansDone
<1>5. \/ UNCHANGED awaitVars \/ (\E w \in Workers : GoIdle(w)) \/ (\E a \in Awaiters : AwaitStep(a))
  BY Steps DEF Send, RestartAgent, SetErrorMode, Dequeue, CallAction, StoreValue, CatchError, vars
<1>6. QED
  BY <1>2, <1>3, <1>4, <1>5

\* When await has returned T, everything that was pending when it was called has been
\* called or discarded, unless an error in :fail mode had stopped the worker.
THEOREM AwaitIsTrue == Spec => []AwaitMeansDone
<1>1. Init => AwaitInv
  BY DEF Init, AwaitInv, GoalInv, AwaitMeansDone
<1>2. AwaitInv => AwaitMeansDone
  BY DEF AwaitInv
<1>3. QED
  BY <1>1, <1>2, WorkerInvHolds, OrderInvHolds, StepAwaitInv, PTL DEF Spec
=============================================================================
