------------------------------ MODULE WorkPool ------------------------------
(***************************************************************************)
(* The work-stealing thread pool of src/src/mutable.lisp: workers with a   *)
(* deque each, threads that submit work items and wait for them, the idle  *)
(* condition variable.  A deque is the sequence that Deque.tla implements. *)
(* A with-lock-held form is one step.  The pool has been initialised;      *)
(* nothing in the program sets *thread-pool-shutdown*.                     *)
(*                                                                         *)
(* A client submits its items and then waits for each of them, as the      *)
(* functions of parallel.lisp and fold do.  An item may fork another and   *)
(* wait for it, as fold-recursive of reducers.lisp does.                   *)
(***************************************************************************)
EXTENDS Integers, Sequences, FiniteSets

CONSTANTS N,          \* *thread-pool-size*
          Clients,    \* threads outside the pool
          Roots,      \* Roots[c]: the items c submits, in order
          Items,      \* all work items
          Fork,       \* Fork[i]: the item that running i submits and awaits, or NIL
          NIL

Workers == 0..(N - 1)
Threads == Workers \cup Clients

ASSUME PoolAssumption == /\ N \in Nat \ {0}
                         /\ Clients \cap Workers = {}
                         /\ Roots \in [Clients -> Seq(Items)]
                         /\ Fork \in [Items -> Items \cup {NIL}]
                         /\ NIL \notin Items

\* submit-work makes the item it pushes: two submits never push the same one.
ASSUME FreshItems ==
  /\ \A c, d \in Clients : \A j \in 1..Len(Roots[c]), k \in 1..Len(Roots[d]) :
       Roots[c][j] = Roots[d][k] => c = d /\ j = k
  /\ \A i, j \in Items : Fork[i] # NIL /\ Fork[i] = Fork[j] => i = j
  /\ \A i \in Items, c \in Clients : \A k \in 1..Len(Roots[c]) : Fork[i] # Roots[c][k]

VARIABLES
  deque,         \* *worker-deques*: each from its head to its tail
  counter,       \* *submit-counter*
  pc,            \* where every thread is
  work,          \* the item a worker runs
  start, turn,   \* the rotation of a worker that tries to steal
  sub, idx,      \* the item a thread is submitting, and to which deque
  want,          \* the item a thread waits for
  next,          \* the position of a client in its list
  done,          \* items with the done flag set in their result-box
  runs           \* history: how often each item was called

vars == <<deque, counter, pc, work, start, turn, sub, idx, want, next, done, runs>>

Init ==
  /\ deque = [w \in Workers |-> <<>>]
  /\ counter = 0
  /\ pc = [t \in Threads |-> IF t \in Workers THEN "own" ELSE "client"]
  /\ work = [w \in Workers |-> NIL]
  /\ start = [w \in Workers |-> 0]
  /\ turn = [w \in Workers |-> 0]
  /\ sub = [t \in Threads |-> NIL]
  /\ idx = [t \in Threads |-> 0]
  /\ want = [t \in Threads |-> NIL]
  /\ next = [c \in Clients |-> 1]
  /\ done = {}
  /\ runs = [i \in Items |-> 0]

Goto(t, l) == pc' = [pc EXCEPT ![t] = l]

-----------------------------------------------------------------------------
(* %worker-thread-loop. *)

(* 1. The tail of the own deque; else 2. a rotation from a random start. *)
PopOwn(w) ==
  /\ pc[w] = "own"
  /\ \/ /\ deque[w] # <<>>
        /\ work' = [work EXCEPT ![w] = deque[w][Len(deque[w])]]
        /\ deque' = [deque EXCEPT ![w] = SubSeq(@, 1, Len(@) - 1)]
        /\ Goto(w, "run")
        /\ UNCHANGED <<start, turn>>
     \/ /\ deque[w] = <<>>
        /\ \E s \in Workers : start' = [start EXCEPT ![w] = s]
        /\ turn' = [turn EXCEPT ![w] = 0]
        /\ Goto(w, "steal")
        /\ UNCHANGED <<work, deque>>
  /\ UNCHANGED <<counter, sub, idx, want, next, done, runs>>

(* Mutants: only one turn, the victim keeps the item. *)
TryStealOnce(w) ==
  /\ pc[w] = "steal"
  /\ turn[w] < N
  /\ LET v == (start[w] + turn[w]) % N
     IN  IF v # w /\ deque[v] # <<>>
         THEN /\ work' = [work EXCEPT ![w] = Head(deque[v])]
              /\ deque' = [deque EXCEPT ![v] = Tail(@)]
              /\ Goto(w, "run")
              /\ UNCHANGED turn
         ELSE /\ turn' = [turn EXCEPT ![w] = N]
              /\ UNCHANGED <<work, deque, pc>>
  /\ UNCHANGED <<counter, start, sub, idx, want, next, done, runs>>
TryStealCopies(w) ==
  /\ pc[w] = "steal"
  /\ turn[w] < N
  /\ LET v == (start[w] + turn[w]) % N
     IN  IF v # w /\ deque[v] # <<>>
         THEN /\ work' = [work EXCEPT ![w] = Head(deque[v])]
              /\ Goto(w, "run")
              /\ UNCHANGED turn
         ELSE /\ turn' = [turn EXCEPT ![w] = @ + 1]
              /\ UNCHANGED <<work, pc>>
  /\ UNCHANGED <<deque, counter, start, sub, idx, want, next, done, runs>>

(* One turn of the rotation: the head of a victim's deque. *)
TrySteal(w) ==
  /\ pc[w] = "steal"
  /\ turn[w] < N
  /\ LET v == (start[w] + turn[w]) % N
     IN  IF v # w /\ deque[v] # <<>>
         THEN /\ work' = [work EXCEPT ![w] = Head(deque[v])]
              /\ deque' = [deque EXCEPT ![v] = Tail(@)]
              /\ Goto(w, "run")
              /\ UNCHANGED turn
         ELSE /\ turn' = [turn EXCEPT ![w] = @ + 1]
              /\ UNCHANGED <<work, deque, pc>>
  /\ UNCHANGED <<counter, start, sub, idx, want, next, done, runs>>

(* 3. condition-wait on *idle-cv*; a notified worker begins again at 1. *)
Sleep(w) ==
  /\ pc[w] = "steal"
  /\ turn[w] = N
  /\ Goto(w, "asleep")
  /\ start' = [start EXCEPT ![w] = 0]
  /\ turn' = [turn EXCEPT ![w] = 0]
  /\ UNCHANGED <<deque, counter, work, sub, idx, want, next, done, runs>>

(* %execute-work calls the function of the item ... *)
CallWork(w) ==
  /\ pc[w] = "run"
  /\ runs' = [runs EXCEPT ![work[w]] = @ + 1]
  /\ \/ /\ Fork[work[w]] # NIL
        /\ sub' = [sub EXCEPT ![w] = Fork[work[w]]]
        /\ Goto(w, "submit")
     \/ /\ Fork[work[w]] = NIL
        /\ Goto(w, "finish")
        /\ UNCHANGED sub
  /\ start' = [start EXCEPT ![w] = 0]
  /\ turn' = [turn EXCEPT ![w] = 0]
  /\ UNCHANGED <<deque, counter, work, idx, want, next, done>>

(* Mutant: an error, here in the items that fork, ends the worker instead.  *)
FinishWorkOnSuccess(w) ==
  /\ pc[w] = "finish"
  /\ Fork[work[w]] = NIL
  /\ done' = done \cup {work[w]}
  /\ LET blocked == {t \in Threads : pc[t] = "blocked" /\ want[t] = work[w]}
     IN  IF blocked = {} THEN Goto(w, "own")
         ELSE \E t \in blocked : pc' = [pc EXCEPT ![w] = "own", ![t] = "wait"]
  /\ work' = [work EXCEPT ![w] = NIL]
  /\ UNCHANGED <<deque, counter, start, turn, sub, idx, want, next, runs>>

(* ... and, whether it returned or signalled an error, sets the done flag   *)
(* and notifies the item's condition variable.                              *)
FinishWork(w) ==
  /\ pc[w] = "finish"
  /\ done' = done \cup {work[w]}
  /\ LET blocked == {t \in Threads : pc[t] = "blocked" /\ want[t] = work[w]}
     IN  IF blocked = {} THEN Goto(w, "own")
         ELSE \E t \in blocked : pc' = [pc EXCEPT ![w] = "own", ![t] = "wait"]
  /\ work' = [work EXCEPT ![w] = NIL]
  /\ UNCHANGED <<deque, counter, start, turn, sub, idx, want, next, runs>>

-----------------------------------------------------------------------------
(* submit-work. *)

TakeIndex(t) ==
  /\ pc[t] = "submit"
  /\ idx' = [idx EXCEPT ![t] = counter % N]
  /\ counter' = counter + 1
  /\ Goto(t, "push")
  /\ UNCHANGED <<deque, work, start, turn, sub, want, next, done, runs>>

PushWork(t) ==
  /\ pc[t] = "push"
  /\ deque' = [deque EXCEPT ![idx[t]] = Append(@, sub[t])]
  /\ Goto(t, "notify")
  /\ UNCHANGED <<counter, work, start, turn, sub, idx, want, next, done, runs>>

(* condition-notify on *idle-cv*: one sleeping worker, if there is one. A   *)
(* client goes on with its list, a worker waits for the item it has forked. *)
NotifyIdle(t) ==
  /\ pc[t] = "notify"
  /\ LET rest == IF t \in Clients THEN "client" ELSE "wait"
         sleepers == {w \in Workers : pc[w] = "asleep"}
     IN  IF sleepers = {} THEN Goto(t, rest)
         ELSE \E w \in sleepers : pc' = [pc EXCEPT ![t] = rest, ![w] = "own"]
  /\ want' = IF t \in Clients THEN want ELSE [want EXCEPT ![t] = sub[t]]
  /\ sub' = [sub EXCEPT ![t] = NIL]
  /\ idx' = [idx EXCEPT ![t] = 0]
  /\ UNCHANGED <<deque, counter, work, start, turn, next, done, runs>>

(* wait-for-work. *)
WaitForWork(t) ==
  /\ pc[t] = "wait"
  /\ \/ /\ want[t] \in done
        /\ Goto(t, IF t \in Clients THEN "client" ELSE "finish")
        /\ want' = [want EXCEPT ![t] = NIL]
     \/ /\ want[t] \notin done
        /\ Goto(t, "blocked")
        /\ UNCHANGED want
  /\ UNCHANGED <<deque, counter, work, start, turn, sub, idx, next, done, runs>>

(* A client submits its list, then waits for the same items in order. *)
ClientStep(c) ==
  /\ pc[c] = "client"
  /\ LET k == Len(Roots[c])
     IN  /\ next[c] <= 2 * k
         /\ IF next[c] <= k
            THEN /\ sub' = [sub EXCEPT ![c] = Roots[c][next[c]]]
                 /\ Goto(c, "submit")
                 /\ UNCHANGED want
            ELSE /\ want' = [want EXCEPT ![c] = Roots[c][next[c] - k]]
                 /\ Goto(c, "wait")
                 /\ UNCHANGED sub
  /\ next' = [next EXCEPT ![c] = @ + 1]
  /\ UNCHANGED <<deque, counter, work, start, turn, idx, done, runs>>

WorkerStep(w) == PopOwn(w) \/ TrySteal(w) \/ Sleep(w) \/ CallWork(w) \/ FinishWork(w)
Step(t) == TakeIndex(t) \/ PushWork(t) \/ NotifyIdle(t) \/ WaitForWork(t)

Next == \/ \E w \in Workers : WorkerStep(w)
        \/ \E t \in Threads : Step(t)
        \/ \E c \in Clients : ClientStep(c)

Spec == Init /\ [][Next]_vars

(* Every thread that is not blocked keeps running. *)
FairSpec == /\ Spec
            /\ \A w \in Workers : WF_vars(WorkerStep(w) \/ Step(w))
            /\ \A c \in Clients : WF_vars(ClientStep(c) \/ Step(c))

-----------------------------------------------------------------------------
(* Properties. *)

(* Types; a worker runs an item exactly in the states that need one. *)
TypeOK ==
  /\ deque \in [Workers -> Seq(Items)]
  /\ counter \in Nat
  /\ pc \in [Threads -> {"own", "steal", "asleep", "run", "finish", "submit", "push",
                         "notify", "wait", "blocked", "client"}]
  /\ work \in [Workers -> Items \cup {NIL}]
  /\ start \in [Workers -> Workers] /\ turn \in [Workers -> 0..N]
  /\ sub \in [Threads -> Items \cup {NIL}] /\ idx \in [Threads -> Workers]
  /\ want \in [Threads -> Items \cup {NIL}]
  /\ next \in [Clients -> Nat] /\ done \subseteq Items /\ runs \in [Items -> Nat]

(* An item is in at most one place: at one position of one deque, with one  *)
(* worker, or done; popping and stealing never hand it out twice.           *)
Places(i) == (UNION {{<<w, k>> : k \in {j \in 1..Len(deque[w]) : deque[w][j] = i}} : w \in Workers})
             \cup {<<w, 0>> : w \in {u \in Workers : work[u] = i}}
             \cup (IF i \in done THEN {<<N, 0>>} ELSE {})

OnePlace == \A i \in Items : (\A p, q \in Places(i) : p = q) /\ runs[i] <= 1

(* When wait-for-work returns, the item has been called, and once pushed it *)
(* never disappears: a thread waits only for an item that is somewhere.     *)
WaitedItemExists == \A t \in Threads : pc[t] \in {"wait", "blocked"} =>
                      /\ Places(want[t]) # {}
                      /\ want[t] \in done => runs[want[t]] = 1

(* A thread blocked in wait-for-work is woken by the item's completion.     *)
NoMissedCompletion == \A t \in Threads : pc[t] = "blocked" => want[t] \notin done

(* A submitted item goes through the pool once, whoever pops, steals, runs  *)
(* and waits for it: it is never duplicated, lost or finished unnoticed.    *)
ItemsKept == TypeOK /\ OnePlace /\ WaitedItemExists /\ NoMissedCompletion

(* "Block until WORK-ITEM is complete and return its result": it returns.   *)
WaitReturns == \A t \in Threads : pc[t] \in {"wait", "blocked"} ~> pc[t] \notin {"wait", "blocked"}

(* What wait-for-work does promise here: it returns, or every worker sleeps *)
(* or waits itself beside an item that nobody has taken.                    *)
Queued(i) == \E w \in Workers : i \in {deque[w][k] : k \in 1..Len(deque[w])}
Stranded == /\ \A w \in Workers : pc[w] \in {"asleep", "blocked"}
            /\ \E i \in Items : Queued(i)
WaitReturnsOrStranded ==
  \A t \in Threads : pc[t] \in {"wait", "blocked"} ~> (pc[t] \notin {"wait", "blocked"} \/ Stranded)

(* A worker that starts its round while an item is queued does not go to    *)
(* sleep before that item is taken or it has found another one: the         *)
(* rotation misses no deque.                                                *)
AwakeWorkerFindsWork ==
  \A i \in Items, w \in Workers :
    (pc[w] = "own" /\ Queued(i)) ~> (~Queued(i) \/ pc[w] = "run")
=============================================================================
