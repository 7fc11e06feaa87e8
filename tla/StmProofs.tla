----------------------------- MODULE StmProofs -----------------------------
(***************************************************************************)
(* Proofs about Stm for any number of threads, refs, values and retries.   *)
(***************************************************************************)
EXTENDS Stm, FiniteSetTheorems, WellFoundedInduction, TLAPS

(* A nonempty set of numbers up to n has a greatest element. *)
LEMMA IntervalMax ==
  ASSUME NEW n \in Nat, NEW A \in SUBSET (1..n), A # {}
  PROVE  \E x \in A : \A y \in A : y <= x
<1> DEFINE Above(x) == {a \in 1..n : x <= a}
           U == {Above(x) : x \in A}
           Less == StrictSubsetOrdering(1..n)
<1>1. U \subseteq FiniteSubsetsOf(1..n)
  <2>1. IsFiniteSet(1..n)
    BY FS_Interval
  <2>2. \A x \in A : Above(x) \in SUBSET (1..n)
    OBVIOUS
  <2>3. \A x \in A : IsFiniteSet(Above(x))
    BY <2>1, <2>2, FS_Subset
  <2> QED BY <2>2, <2>3 DEF FiniteSubsetsOf
<1>2. U # {}
  OBVIOUS
<1>3. IsWellFoundedOn(Less, FiniteSubsetsOf(1..n))
  BY FS_StrictSubsetOrderingWellFounded
<1>4. \E u \in U : \A w \in U : <<w, u>> \notin Less
  <2> HIDE DEF U, Less
  <2> QED BY <1>1, <1>2, <1>3, WFMin
<1>5. PICK x \in A : \A y \in A : <<Above(y), Above(x)>> \notin Less
  BY <1>4
<1>6. ASSUME NEW y \in A, ~(y <= x) PROVE FALSE
  <2>1. Above(y) \subseteq Above(x) /\ x \in Above(x) /\ x \notin Above(y)
    BY <1>6
  <2>2. Above(y) \in SUBSET (1..n) /\ Above(x) \in SUBSET (1..n) /\ Above(y) # Above(x)
    BY <2>1
  <2>3. <<Above(y), Above(x)>> \in Less
    BY <2>1, <2>2 DEF StrictSubsetOrdering
  <2> QED BY <1>5, <2>3
<1> QED BY <1>6

USE FnsAssumption, AcceptsAssumption, BoundsAssumption, NILAssumption

(* The strengthening of TypeOK that makes it inductive: an operation in     *)
(* progress names a ref (and a function, when it is alter), phase 6 works   *)
(* on a ref, and what it has still to publish has a new value.              *)
CallInv == \A t \in Threads :
             /\ pc[t] \in {"ensured", "value"} =>
                  /\ call[t].ref \in Refs
                  /\ call[t].op = "alter" => call[t].fn \in Fns
             /\ pc[t] \in {"bump", "watch"} => cur[t] \in Refs
             /\ Publishing(t) => \A r \in unwritten[t] : writeSet[t][r] # NIL

TypeInv == TypeOK /\ CallInv

LEMMA TypeInit == Init => TypeInv
<1> SUFFICES ASSUME Init PROVE TypeInv
    OBVIOUS
<1>1. TypeOK
  BY DEF Init, TypeOK, PCs, Fates, Calls, NoCall, NoFootprint, Footprints, Addresses
<1>2. CallInv
  BY DEF Init, CallInv, Publishing
<1> QED BY <1>1, <1>2 DEF TypeInv

DerefResult(t, c) ==
  /\ readSet' \in [Threads -> [Refs -> Nat \cup {NIL}]]
  /\ writeSet' \in [Threads -> [Refs -> Values \cup {NIL}]]
  /\ call' \in [Threads -> Calls]
  /\ pc' \in [Threads -> PCs]
  /\ pc'[t] \in {"body", "value"}
  /\ pc'[t] = "value" => call'[t] = c
  /\ \A u \in Threads \ {t} : /\ pc'[u] = pc[u] /\ call'[u] = call[u]
                             /\ writeSet'[u] = writeSet[u]

(* Both halves of deref keep the types, and touch only their own thread. *)
LEMMA DerefTypes ==
  ASSUME TypeInv, NEW t \in Threads, NEW c \in Calls, c.ref \in Refs,
         c.op = "alter" => c.fn \in Fns,
         \/ BeginDeref(t, c)
         \/ UNCHANGED readSet /\ \E v \in Values : Finish(t, c, v)
  PROVE  DerefResult(t, c)
<1>1. ASSUME NEW v \in Values, Finish(t, c, v)
      PROVE  /\ writeSet' \in [Threads -> [Refs -> Values \cup {NIL}]]
             /\ call' \in [Threads -> Calls]
             /\ pc' \in [Threads -> PCs]
             /\ pc'[t] = "body"
             /\ \A u \in Threads \ {t} : /\ pc'[u] = pc[u] /\ call'[u] = call[u]
                                        /\ writeSet'[u] = writeSet[u]
  <2>1. c.op = "alter" => c.fn[v] \in Values
    OBVIOUS
  <2>2. NoCall \in Calls
    BY DEF NoCall, Calls
  <2> QED BY <1>1, <2>1, <2>2 DEF Finish, TypeInv, TypeOK, PCs
<1>2. CASE UNCHANGED readSet /\ \E v \in Values : Finish(t, c, v)
  <2>1. readSet' \in [Threads -> [Refs -> Nat \cup {NIL}]]
    BY <1>2 DEF TypeInv, TypeOK
  <2> QED BY <1>1, <1>2, <2>1 DEF DerefResult
<1>3. CASE BeginDeref(t, c) /\ writeSet[t][c.ref] # NIL
  <2>1. writeSet[t][c.ref] \in Values
    BY <1>3 DEF TypeInv, TypeOK
  <2>2. UNCHANGED readSet /\ Finish(t, c, writeSet[t][c.ref])
    BY <1>3 DEF BeginDeref
  <2>3. readSet' \in [Threads -> [Refs -> Nat \cup {NIL}]]
    BY <2>2 DEF TypeInv, TypeOK
  <2> QED BY <1>1, <2>1, <2>2, <2>3 DEF DerefResult
<1>4. CASE BeginDeref(t, c) /\ writeSet[t][c.ref] = NIL
  <2>1. ver[c.ref] \in Nat
    BY DEF TypeInv, TypeOK
  <2>2. /\ readSet' = IF readSet[t][c.ref] = NIL
                      THEN [readSet EXCEPT ![t][c.ref] = ver[c.ref]] ELSE readSet
        /\ call' = [call EXCEPT ![t] = c]
        /\ pc' = [pc EXCEPT ![t] = "value"]
        /\ UNCHANGED writeSet
    BY <1>4 DEF BeginDeref
  <2>3. readSet' \in [Threads -> [Refs -> Nat \cup {NIL}]]
    BY <2>1, <2>2 DEF TypeInv, TypeOK
  <2> QED BY <2>2, <2>3 DEF DerefResult, TypeInv, TypeOK, PCs
<1> QED BY <1>2, <1>3, <1>4

(* A step of t in the body keeps CallInv when t's own call is well formed.  *)
LEMMA CallInvFrame ==
  ASSUME CallInv, NEW t \in Threads,
         pc'[t] \notin {"bump", "watch", "write"},
         pc'[t] \in {"ensured", "value"} =>
            call'[t].ref \in Refs /\ (call'[t].op = "alter" => call'[t].fn \in Fns),
         \A u \in Threads \ {t} : /\ pc'[u] = pc[u] /\ call'[u] = call[u]
                                 /\ writeSet'[u] = writeSet[u],
         UNCHANGED <<cur, unwritten>>
  PROVE  CallInv'
BY DEF CallInv, Publishing

(* Every operation of a body keeps the types. *)
LEMMA TypeBody ==
  ASSUME TypeInv, NEW t \in Threads, BodyOp(t) PROVE TypeInv'
<1> USE DEF refVars, lockVars, pubVars, histVars, loopVars
<1>1. ASSUME NEW r \in Refs, Deref(t, r) PROVE TypeInv'
  <2> DEFINE c == [op |-> "deref", ref |-> r, fn |-> NIL]
  <2>1. c \in Calls /\ c.ref \in Refs /\ (c.op = "alter" => c.fn \in Fns)
    BY DEF Calls, OpNames
  <2>2. BeginDeref(t, c) /\ UNCHANGED <<cur, unwritten>>
    BY <1>1 DEF Deref
  <2> HIDE DEF c
  <2>3. DerefResult(t, c)
    BY <2>1, <2>2, DerefTypes
  <2>4. CallInv'
    BY <2>1, <2>2, <2>3, CallInvFrame DEF TypeInv, DerefResult
  <2>5. /\ ops' \in [Threads -> Nat]
        /\ UNCHANGED <<refVars, lockVars, addr, commuteSet, ensureSet, pubVars, fate,
                       retries, dosyncs, histVars>>
    BY <1>1 DEF Deref, StartsOp, TypeInv, TypeOK
  <2>6. TypeOK'
    BY <2>3, <2>5 DEF DerefResult, TypeInv, TypeOK
  <2> QED BY <2>4, <2>6 DEF TypeInv
<1>2. ASSUME NEW r \in Refs, NEW f \in Fns, Alter(t, r, f) PROVE TypeInv'
  <2> DEFINE c == [op |-> "alter", ref |-> r, fn |-> f]
  <2>1. c \in Calls /\ c.ref \in Refs /\ (c.op = "alter" => c.fn \in Fns)
    BY DEF Calls, OpNames
  <2>2. BeginDeref(t, c) /\ UNCHANGED <<cur, unwritten>>
    BY <1>2 DEF Alter
  <2> HIDE DEF c
  <2>3. DerefResult(t, c)
    BY <2>1, <2>2, DerefTypes
  <2>4. CallInv'
    BY <2>1, <2>2, <2>3, CallInvFrame DEF TypeInv, DerefResult
  <2>5. /\ ops' \in [Threads -> Nat]
        /\ UNCHANGED <<refVars, lockVars, addr, commuteSet, ensureSet, pubVars, fate,
                       retries, dosyncs, histVars>>
    BY <1>2 DEF Alter, StartsOp, TypeInv, TypeOK
  <2>6. TypeOK'
    BY <2>3, <2>5 DEF DerefResult, TypeInv, TypeOK
  <2> QED BY <2>4, <2>6 DEF TypeInv
<1>3. ASSUME NEW r \in Refs, NEW f \in Fns, Commute(t, r, f) PROVE TypeInv'
  <2> DEFINE c == [op |-> "commute", ref |-> r, fn |-> f]
  <2>1. c \in Calls /\ c.ref \in Refs /\ (c.op = "alter" => c.fn \in Fns)
    BY DEF Calls, OpNames
  <2>2. BeginDeref(t, c) /\ UNCHANGED <<cur, unwritten>>
    BY <1>3 DEF Commute
  <2> HIDE DEF c
  <2>3. DerefResult(t, c)
    BY <2>1, <2>2, DerefTypes
  <2>4. CallInv'
    BY <2>1, <2>2, <2>3, CallInvFrame DEF TypeInv, DerefResult
  <2>5. /\ ops' \in [Threads -> Nat]
        /\ UNCHANGED <<refVars, lockVars, addr, ensureSet, pubVars, fate,
                       retries, dosyncs, histVars>>
    BY <1>3 DEF Commute, StartsOp, TypeInv, TypeOK
  <2>6. commuteSet' \in [Threads -> [Refs -> Seq(Fns)]]
    BY <1>3 DEF Commute, TypeInv, TypeOK
  <2>7. TypeOK'
    BY <2>3, <2>5, <2>6 DEF DerefResult, TypeInv, TypeOK
  <2> QED BY <2>4, <2>7 DEF TypeInv
<1>4. ASSUME NEW r \in Refs, NEW v \in Values, RefSet(t, r, v) PROVE TypeInv'
  <2>1. TypeOK'
    BY <1>4, SMTT(30) DEF RefSet, StartsOp, TypeInv, TypeOK
  <2>2. CallInv'
    BY <1>4, CallInvFrame DEF RefSet, StartsOp, TypeInv, TypeOK
  <2> QED BY <2>1, <2>2 DEF TypeInv
<1>5. ASSUME NEW r \in Refs, Ensure(t, r) PROVE TypeInv'
  <2> DEFINE c == [op |-> "ensure", ref |-> r, fn |-> NIL]
  <2>1. c \in Calls /\ c.ref \in Refs /\ c.op # "alter"
    BY DEF Calls, OpNames
  <2>2. call' = [call EXCEPT ![t] = c] /\ pc' = [pc EXCEPT ![t] = "ensured"]
    BY <1>5 DEF Ensure
  <2> HIDE DEF c
  <2>3. ensureSet' \in [Threads -> [Refs -> Nat \cup {NIL}]]
    BY <1>5 DEF Ensure, TypeInv, TypeOK
  <2>4. TypeOK'
    BY <1>5, <2>1, <2>2, <2>3, SMTT(30) DEF Ensure, StartsOp, TypeInv, TypeOK, PCs
  <2>5. CallInv'
    BY <1>5, <2>1, <2>2, CallInvFrame DEF Ensure, TypeInv, TypeOK
  <2> QED BY <2>4, <2>5 DEF TypeInv
<1>6. CASE EnsureDeref(t)
  <2> DEFINE c == call[t]
  <2>1. c \in Calls /\ c.ref \in Refs /\ (c.op = "alter" => c.fn \in Fns)
    BY <1>6 DEF EnsureDeref, TypeInv, TypeOK, CallInv
  <2>2. BeginDeref(t, c) /\ UNCHANGED <<cur, unwritten>>
    BY <1>6 DEF EnsureDeref
  <2> HIDE DEF c
  <2>3. DerefResult(t, c)
    BY <2>1, <2>2, DerefTypes
  <2>4. CallInv'
    BY <2>1, <2>2, <2>3, CallInvFrame DEF TypeInv, DerefResult
  <2>5. TypeOK'
    BY <1>6, <2>3 DEF EnsureDeref, DerefResult, TypeInv, TypeOK
  <2> QED BY <2>4, <2>5 DEF TypeInv
<1>7. CASE DerefValue(t)
  <2> DEFINE c == call[t]
  <2>1. c \in Calls /\ c.ref \in Refs /\ (c.op = "alter" => c.fn \in Fns)
    BY <1>7 DEF DerefValue, TypeInv, TypeOK, CallInv
  <2>2. val[c.ref] \in Values
    BY <2>1 DEF TypeInv, TypeOK
  <2>3. /\ Finish(t, c, val[c.ref]) /\ UNCHANGED <<readSet, cur, unwritten>>
        /\ seen' = [seen EXCEPT ![t][c.ref] = @ \cup {val[c.ref]}]
    BY <1>7 DEF DerefValue
  <2> HIDE DEF c
  <2>4. DerefResult(t, c)
    BY <2>1, <2>2, <2>3, DerefTypes
  <2>5. CallInv'
    BY <2>1, <2>3, <2>4, CallInvFrame DEF TypeInv, DerefResult
  <2>6. seen' \in [Threads -> [Refs -> SUBSET Values]]
    BY <2>1, <2>2, <2>3 DEF TypeInv, TypeOK
  <2>7. TypeOK'
    BY <1>7, <2>4, <2>6 DEF DerefValue, DerefResult, TypeInv, TypeOK
  <2> QED BY <2>5, <2>7 DEF TypeInv
<1> QED BY <1>1, <1>2, <1>3, <1>4, <1>5, <1>6, <1>7 DEF BodyOp

(* Every step of %try-commit keeps the types. *)
LEMMA TypeCommit ==
  ASSUME TypeInv, NEW t \in Threads, TryCommit(t) PROVE TypeInv'
<1> USE DEF TypeInv, TypeOK, CallInv, PCs, Fates, Publishing, Written,
            refVars, txnVars, loopVars, histVars, lockVars, pubVars
<1>1. CASE CollectAndSort(t)
  BY <1>1 DEF CollectAndSort, AllRefs
<1>2. ASSUME NEW r \in Refs, AcquireLock(t, r) PROVE TypeInv'
  BY <1>2 DEF AcquireLock
<1>3. CASE LocksTaken(t)
  BY <1>3 DEF LocksTaken
<1>4. CASE Validate(t)
  <2>1. pc'[t] \in {"commute", "release"} /\ \A u \in Threads \ {t} : pc'[u] = pc[u]
    BY <1>4 DEF Validate
  <2>2. pc' \in [Threads -> PCs] /\ fate' \in [Threads -> Fates]
    BY <1>4, ZenonT(60) DEF Validate
  <2>3. TypeOK'
    BY <1>4, <2>2 DEF Validate
  <2>4. CallInv'
    BY <1>4, <2>1 DEF Validate
  <2> QED BY <2>3, <2>4
<1>5. ASSUME NEW r \in Refs, ApplyCommute(t, r) PROVE TypeInv'
  <2>1. commuteSet[t][r] \in Seq(Fns) /\ commuteSet[t][r] # <<>>
    BY <1>5 DEF ApplyCommute
  <2>2. Head(commuteSet[t][r]) \in Fns /\ Tail(commuteSet[t][r]) \in Seq(Fns)
    BY <2>1
  <2>3. Latest(t, r) \in Values
    BY DEF Latest
  <2>4. Head(commuteSet[t][r])[Latest(t, r)] \in Values
    BY <2>2, <2>3
  <2>5. writeSet' \in [Threads -> [Refs -> Values \cup {NIL}]]
    BY <1>5, <2>4 DEF ApplyCommute
  <2>6. commuteSet' \in [Threads -> [Refs -> Seq(Fns)]]
    BY <1>5, <2>2 DEF ApplyCommute
  <2>7. TypeOK'
    BY <1>5, <2>5, <2>6 DEF ApplyCommute
  <2>8. CallInv'
    BY <1>5 DEF ApplyCommute
  <2> QED BY <2>7, <2>8
<1>6. CASE CommutesApplied(t)
  BY <1>6 DEF CommutesApplied
<1>7. CASE Validators(t)
  <2>1. last' \in [Threads -> Footprints]
    <3>1. [reads |-> seen[t], writes |-> writeSet[t]] \in Footprints
      BY DEF Footprints
    <3> QED BY <1>7, <3>1 DEF Validators
  <2>2. pc' \in [Threads -> PCs] /\ fate' \in [Threads -> Fates]
    BY <1>7, ZenonT(60) DEF Validators
  <2>3. unwritten' = [unwritten EXCEPT ![t] = Written(t)]
    BY <1>7 DEF Validators
  <2>4. unwritten' \in [Threads -> SUBSET Refs]
    BY <2>3
  <2>5. TypeOK'
    BY <1>7, <2>1, <2>2, <2>4 DEF Validators
  <2>6. pc'[t] \in {"write", "release"} /\ \A u \in Threads \ {t} : pc'[u] = pc[u]
    BY <1>7 DEF Validators
  <2>7. CallInv'
    BY <1>7, <2>3, <2>6 DEF Validators
  <2> QED BY <2>5, <2>7
<1>8. ASSUME NEW r \in Refs, WriteValue(t, r) PROVE TypeInv'
  BY <1>8, SMTT(30) DEF WriteValue
<1>9. CASE BumpVersion(t)
  <2>1. cur[t] \in Refs
    BY <1>9 DEF BumpVersion
  <2>2. ver' \in [Refs -> Nat]
    BY <1>9, <2>1 DEF BumpVersion
  <2>3. TypeOK'
    BY <1>9, <2>2 DEF BumpVersion
  <2>4. CallInv'
    BY <1>9 DEF BumpVersion
  <2> QED BY <2>3, <2>4
<1>10. CASE NotifyWatches(t)
  BY <1>10 DEF NotifyWatches
<1>11. CASE WatchError(t)
  BY <1>11 DEF WatchError
<1>12. CASE Published(t)
  BY <1>12, SMTT(30) DEF Published
<1>13. ASSUME NEW r \in Refs, ReleaseLock(t, r) PROVE TypeInv'
  BY <1>13 DEF ReleaseLock
<1> HIDE DEF TypeInv
<1> QED
  BY <1>1, <1>2, <1>3, <1>4, <1>5, <1>6, <1>7, <1>8, <1>9, <1>10, <1>11, <1>12, <1>13
  DEF TryCommit

LEMMA TypeStep == TypeInv /\ [Next]_vars => TypeInv'
<1> SUFFICES ASSUME TypeInv, [Next]_vars PROVE TypeInv'
    OBVIOUS
<1> USE DEF TypeOK, CallInv, PCs, Fates, Publishing,
            vars, refVars, txnVars, loopVars, histVars, lockVars, pubVars
<1>1. ASSUME NEW t \in Threads, Dosync(t) PROVE TypeInv'
  BY <1>1, SMTT(30) DEF Dosync, TypeInv
<1>2. ASSUME NEW t \in Threads, BodyError(t) \/ Return(t) \/ GiveUp(t) PROVE TypeInv'
  <2>1. LeaveDosync(t) /\ UNCHANGED <<refVars, lockVars, addr, call, cur, dosyncs, commits>>
    BY <1>2 DEF BodyError, Return, GiveUp
  <2>2. NoFootprint \in Footprints
    BY DEF Footprints, NoFootprint
  <2>3. TypeOK'
    BY <2>1, <2>2, SMTT(30) DEF LeaveDosync, FreshTransaction, TypeInv
  <2>4. CallInv'
    BY <2>1 DEF LeaveDosync, FreshTransaction, TypeInv
  <2> QED BY <2>3, <2>4 DEF TypeInv
<1>3. ASSUME NEW t \in Threads, Retry(t) PROVE TypeInv'
  BY <1>3 DEF Retry, FreshTransaction, TypeInv
<1>4. CASE MoveObjects
  BY <1>4 DEF MoveObjects, TypeInv
<1>5. CASE UNCHANGED vars
  BY <1>5 DEF TypeInv
<1> QED
  BY <1>1, <1>2, <1>3, <1>4, <1>5, TypeBody, TypeCommit DEF Next, Step, Finished

(* Every variable of the STM stays in its type. *)
THEOREM TypeCorrect == Spec => []TypeOK
<1>1. Spec => []TypeInv
  BY TypeInit, TypeStep, PTL DEF Spec
<1> QED BY <1>1, PTL DEF TypeInv

-----------------------------------------------------------------------------
(* The locks.  From the end of phase 1 to the cleanup a thread owns every   *)
(* ref of its four tables; phase 4 moves refs from one table to another.    *)
Owns(t) == pc[t] = "validate" \/ Committing(t)

LockInv == \A t \in Threads :
  /\ pc[t] = "lock" => \A r \in AllRefs(t) : r \in toLock[t] \/ owner[r] = t
  /\ Owns(t) => \A r \in AllRefs(t) : owner[r] = t
  /\ pc[t] \in {"bump", "watch"} => cur[t] \in Written(t) \ unwritten[t]
  /\ Publishing(t) => unwritten[t] \subseteq Written(t)

(* Thread u keeps its tables. *)
SameTables(u) == /\ readSet'[u] = readSet[u] /\ writeSet'[u] = writeSet[u]
              /\ commuteSet'[u] = commuteSet[u] /\ ensureSet'[u] = ensureSet[u]
              /\ unwritten'[u] = unwritten[u] /\ seen'[u] = seen[u]

(* What an operation of a body of t leaves alone. *)
BodyResult(t) ==
  /\ pc'[t] \in {"body", "ensured", "value"}
  /\ \A u \in Threads \ {t} : SameTables(u) /\ pc'[u] = pc[u] /\ call'[u] = call[u]
  /\ UNCHANGED <<toLock, owner, cur, unwritten, val, ver>>

LEMMA BodyFrame ==
  ASSUME TypeInv, NEW t \in Threads, BodyOp(t) PROVE BodyResult(t)
<1> USE DEF refVars, lockVars, pubVars, histVars, loopVars, TypeInv, TypeOK, BodyResult, SameTables
<1>1. ASSUME NEW r \in Refs, Deref(t, r) PROVE BodyResult(t)
  BY <1>1 DEF Deref, BeginDeref, Finish
<1>2. ASSUME NEW r \in Refs, NEW f \in Fns, Alter(t, r, f) PROVE BodyResult(t)
  BY <1>2 DEF Alter, BeginDeref, Finish
<1>3. ASSUME NEW r \in Refs, NEW f \in Fns, Commute(t, r, f) PROVE BodyResult(t)
  BY <1>3 DEF Commute, BeginDeref, Finish
<1>4. ASSUME NEW r \in Refs, NEW v \in Values, RefSet(t, r, v) PROVE BodyResult(t)
  BY <1>4 DEF RefSet, StartsOp
<1>5. ASSUME NEW r \in Refs, Ensure(t, r) PROVE BodyResult(t)
  BY <1>5 DEF Ensure
<1>6. CASE EnsureDeref(t)
  BY <1>6 DEF EnsureDeref, BeginDeref, Finish
<1>7. CASE DerefValue(t)
  BY <1>7 DEF DerefValue, Finish
<1> HIDE DEF BodyResult
<1> QED BY <1>1, <1>2, <1>3, <1>4, <1>5, <1>6, <1>7 DEF BodyOp

LEMMA LockInit == Init => LockInv
BY DEF Init, LockInv, Owns, Committing, Publishing

LEMMA LockStep == TypeInv /\ LockInv /\ [Next]_vars => LockInv'
<1> SUFFICES ASSUME TypeInv, LockInv, [Next]_vars PROVE LockInv'
    OBVIOUS
<1> USE DEF LockInv, Owns, Committing, Publishing, AllRefs, Written,
            vars, refVars, txnVars, loopVars, histVars, lockVars, pubVars
<1>1. ASSUME NEW t \in Threads, Dosync(t) PROVE LockInv'
  BY <1>1 DEF Dosync, TypeInv, TypeOK
<1>2. ASSUME NEW t \in Threads, BodyError(t) \/ Return(t) \/ GiveUp(t) PROVE LockInv'
  <2>1. LeaveDosync(t) /\ UNCHANGED <<refVars, lockVars, addr, call, cur, dosyncs, commits>>
    BY <1>2 DEF BodyError, Return, GiveUp
  <2>2. pc'[t] = "idle" /\ \A u \in Threads \ {t} : SameTables(u) /\ pc'[u] = pc[u]
    BY <2>1 DEF LeaveDosync, FreshTransaction, SameTables, TypeInv, TypeOK
  <2> QED BY <2>1, <2>2 DEF SameTables
<1>3. ASSUME NEW t \in Threads, BodyOp(t) PROVE LockInv'
  BY <1>3, BodyFrame DEF BodyResult, SameTables
<1>4. ASSUME NEW t \in Threads, CollectAndSort(t) PROVE LockInv'
  BY <1>4 DEF CollectAndSort, TypeInv, TypeOK
<1>5. ASSUME NEW t \in Threads, NEW r \in Refs, AcquireLock(t, r) PROVE LockInv'
  BY <1>5, SMTT(30) DEF AcquireLock, TypeInv, TypeOK
<1>6. ASSUME NEW t \in Threads, LocksTaken(t) PROVE LockInv'
  BY <1>6 DEF LocksTaken, TypeInv, TypeOK
<1>7. ASSUME NEW t \in Threads, Validate(t) PROVE LockInv'
  BY <1>7 DEF Validate, TypeInv, TypeOK
<1>8. ASSUME NEW t \in Threads, NEW r \in Refs, ApplyCommute(t, r) PROVE LockInv'
  BY <1>8, SMTT(30) DEF ApplyCommute, TypeInv, TypeOK
<1>9. ASSUME NEW t \in Threads, CommutesApplied(t) PROVE LockInv'
  BY <1>9 DEF CommutesApplied, TypeInv, TypeOK
<1>10. ASSUME NEW t \in Threads, Validators(t) PROVE LockInv'
  <2>1. /\ pc[t] = "validators" /\ pc'[t] \in {"write", "release"}
        /\ \A u \in Threads \ {t} : pc'[u] = pc[u] /\ unwritten'[u] = unwritten[u]
        /\ unwritten'[t] = Written(t)
        /\ UNCHANGED <<owner, toLock, txnVars, cur>>
    BY <1>10 DEF Validators, TypeInv, TypeOK
  <2> QED BY <2>1
<1>11. ASSUME NEW t \in Threads, NEW r \in Refs, WriteValue(t, r) PROVE LockInv'
  BY <1>11 DEF WriteValue, TypeInv, TypeOK
<1>12. ASSUME NEW t \in Threads, BumpVersion(t) PROVE LockInv'
  BY <1>12 DEF BumpVersion, TypeInv, TypeOK
<1>13. ASSUME NEW t \in Threads, NotifyWatches(t) \/ WatchError(t) \/ Published(t) PROVE LockInv'
  <2>1. CASE NotifyWatches(t)
    BY <2>1 DEF NotifyWatches, TypeInv, TypeOK
  <2>2. CASE WatchError(t)
    BY <2>2 DEF WatchError, TypeInv, TypeOK
  <2>3. CASE Published(t)
    BY <2>3 DEF Published, TypeInv, TypeOK
  <2> QED BY <1>13, <2>1, <2>2, <2>3
<1>14. ASSUME NEW t \in Threads, NEW r \in Refs, ReleaseLock(t, r) PROVE LockInv'
  BY <1>14, SMTT(30) DEF ReleaseLock, Held, TypeInv, TypeOK
<1>15. ASSUME NEW t \in Threads, Retry(t) PROVE LockInv'
  BY <1>15 DEF Retry, FreshTransaction, TypeInv, TypeOK
<1>16. CASE MoveObjects
  BY <1>16 DEF MoveObjects
<1>17. CASE UNCHANGED vars
  BY <1>17
<1> HIDE DEF LockInv
<1> QED
  BY <1>1, <1>2, <1>3, <1>4, <1>5, <1>6, <1>7, <1>8, <1>9, <1>10, <1>11, <1>12, <1>13, <1>14,
     <1>15, <1>16, <1>17
  DEF Next, Step, TryCommit, Finished

(* A commit publishes only refs whose locks it holds, for any set of        *)
(* threads and refs: %try-commit's lock set covers the final write-set.     *)
THEOREM LocksCoverWrites == Spec => []PublishesOwnLocks
<1>1. TypeInv /\ LockInv => PublishesOwnLocks
  BY DEF TypeInv, TypeOK, LockInv, PublishesOwnLocks, Owns, Committing, Publishing, AllRefs,
         Written
<1>2. Spec => [](TypeInv /\ LockInv)
  BY TypeInit, TypeStep, LockInit, LockStep, PTL DEF Spec
<1> QED BY <1>1, <1>2, PTL

-----------------------------------------------------------------------------
(* The reads.  A recorded version never runs ahead of the ref, and as long  *)
(* as it is the ref's version, and nobody is between the two writes of      *)
(* phase 6, everything the body has read is the value of the ref.           *)
BeingWritten(r) == \E u \in Threads : pc[u] = "bump" /\ cur[u] = r

ReadOK(t, r) ==
  /\ readSet[t][r] = NIL => seen[t][r] = {}
  /\ readSet[t][r] # NIL =>
       /\ readSet[t][r] <= ver[r]
       /\ (readSet[t][r] = ver[r] /\ ~BeingWritten(r)) => seen[t][r] \subseteq {val[r]}
  /\ (pc[t] = "value" /\ call[t].ref = r) => readSet[t][r] # NIL

ReadInv == \A t \in Threads, r \in Refs : ReadOK(t, r)

(* Past validation the versions recorded are the current ones. *)
ValidInv == \A t \in Threads : Committing(t) =>
              \A r \in Unpublished(t) : readSet[t][r] \in {NIL, ver[r]}

LEMMA ReadInit == Init => ReadInv /\ ValidInv
BY DEF Init, ReadInv, ReadOK, ValidInv, Committing

(* An operation of a body records the version before it reads the value.    *)
DerefRecords(t) ==
  /\ \A r \in Refs : \/ readSet'[t][r] = readSet[t][r]
                     \/ (readSet[t][r] = NIL /\ readSet'[t][r] = ver[r])
  /\ pc'[t] = "value" => readSet'[t][call'[t].ref] # NIL
  /\ \A r \in Refs : \/ seen'[t][r] = seen[t][r]
                     \/ (readSet[t][r] # NIL /\ seen'[t][r] = seen[t][r] \cup {val[r]})

LEMMA BodyRecords ==
  ASSUME TypeInv, ReadInv, NEW t \in Threads, BodyOp(t) PROVE DerefRecords(t)
<1> USE DEF refVars, lockVars, pubVars, histVars, loopVars, TypeInv, TypeOK, DerefRecords
<1>1. ASSUME NEW r \in Refs, Deref(t, r) PROVE DerefRecords(t)
  BY <1>1 DEF Deref, BeginDeref, Finish
<1>2. ASSUME NEW r \in Refs, NEW f \in Fns, Alter(t, r, f) PROVE DerefRecords(t)
  BY <1>2 DEF Alter, BeginDeref, Finish
<1>3. ASSUME NEW r \in Refs, NEW f \in Fns, Commute(t, r, f) PROVE DerefRecords(t)
  BY <1>3 DEF Commute, BeginDeref, Finish
<1>4. ASSUME NEW r \in Refs, NEW v \in Values, RefSet(t, r, v) PROVE DerefRecords(t)
  BY <1>4 DEF RefSet, StartsOp
<1>5. ASSUME NEW r \in Refs, Ensure(t, r) PROVE DerefRecords(t)
  BY <1>5 DEF Ensure
<1>6. CASE EnsureDeref(t)
  BY <1>6 DEF EnsureDeref, BeginDeref, Finish, CallInv
<1>7. CASE DerefValue(t)
  BY <1>7 DEF DerefValue, Finish, CallInv, ReadInv, ReadOK
<1> HIDE DEF DerefRecords
<1> QED BY <1>1, <1>2, <1>3, <1>4, <1>5, <1>6, <1>7 DEF BodyOp

LEMMA ReadStep == TypeInv /\ LockInv /\ ReadInv /\ [Next]_vars => ReadInv'
<1> SUFFICES ASSUME TypeInv, LockInv, ReadInv, [Next]_vars PROVE ReadInv'
    OBVIOUS
<1> USE DEF vars, refVars, txnVars, loopVars, histVars, lockVars, pubVars
<1>1. ASSUME NEW t \in Threads, Dosync(t) PROVE ReadInv'
  BY <1>1, ZenonT(60) DEF Dosync, TypeInv, TypeOK, ReadInv, ReadOK, BeingWritten
<1>2. ASSUME NEW t \in Threads, BodyError(t) \/ Return(t) \/ GiveUp(t) PROVE ReadInv'
  <2>1. LeaveDosync(t) /\ UNCHANGED <<refVars, lockVars, addr, call, cur, dosyncs, commits>>
        /\ pc[t] # "bump"
    BY <1>2 DEF BodyError, Return, GiveUp
  <2>2. /\ pc'[t] = "idle" /\ seen'[t] = [r \in Refs |-> {}] /\ readSet'[t] = [r \in Refs |-> NIL]
        /\ \A u \in Threads \ {t} : /\ pc'[u] = pc[u] /\ readSet'[u] = readSet[u]
                                   /\ seen'[u] = seen[u]
    BY <2>1 DEF LeaveDosync, FreshTransaction, TypeInv, TypeOK
  <2>3. \A r \in Refs : BeingWritten(r)' <=> BeingWritten(r)
    BY <2>1, <2>2 DEF BeingWritten
  <2> QED BY <2>1, <2>2, <2>3 DEF ReadInv, ReadOK
<1>3. ASSUME NEW t \in Threads, BodyOp(t) PROVE ReadInv'
  <2>1. BodyResult(t) /\ pc[t] # "bump"
    BY <1>3, BodyFrame DEF BodyOp, Deref, Ensure, RefSet, Alter, Commute, StartsOp, EnsureDeref,
                           DerefValue
  <2>2. \A r \in Refs : BeingWritten(r)' <=> BeingWritten(r)
    BY <2>1 DEF BodyResult, BeingWritten
  <2>3. DerefRecords(t)
    BY <1>3, BodyRecords
  <2>4. ASSUME NEW u \in Threads \ {t} PROVE \A r \in Refs : ReadOK(u, r)'
    BY <2>1, <2>2 DEF BodyResult, SameTables, ReadInv, ReadOK
  <2>5. ASSUME NEW r \in Refs PROVE ReadOK(t, r)'
    <3>1. ReadOK(t, r) /\ ver[r] \in Nat /\ UNCHANGED <<val, ver>>
      BY <2>1 DEF ReadInv, BodyResult, TypeInv, TypeOK
    <3> QED BY <2>2, <2>3, <3>1 DEF ReadOK, DerefRecords
  <2> QED BY <2>4, <2>5 DEF ReadInv
<1>4. ASSUME NEW t \in Threads, TryCommit(t) PROVE ReadInv'
  <2>0. UNCHANGED <<readSet, seen, call>>
    BY <1>4 DEF TryCommit, CollectAndSort, AcquireLock, LocksTaken, Validate, ApplyCommute,
      CommutesApplied, Validators, WriteValue, BumpVersion, NotifyWatches, WatchError, Published,
      ReleaseLock
  <2>1. CASE \E r \in Refs : WriteValue(t, r)
    <3> PICK r \in Refs : WriteValue(t, r)
      BY <2>1
    <3>1. /\ pc[t] = "write" /\ pc'[t] = "bump" /\ cur'[t] = r
          /\ \A u \in Threads \ {t} : pc'[u] = pc[u] /\ cur'[u] = cur[u]
          /\ \A q \in Refs \ {r} : val'[q] = val[q]
          /\ UNCHANGED ver
      BY DEF WriteValue, TypeInv, TypeOK
    <3>2. BeingWritten(r)' /\ \A q \in Refs \ {r} : BeingWritten(q) => BeingWritten(q)'
      BY <3>1 DEF BeingWritten
    <3> QED BY <2>0, <3>1, <3>2 DEF ReadInv, ReadOK
  <2>2. CASE BumpVersion(t)
    <3> DEFINE r == cur[t]
    <3>1. /\ r \in Refs /\ pc[t] = "bump" /\ pc'[t] = "watch"
          /\ \A u \in Threads \ {t} : pc'[u] = pc[u]
          /\ ver[r] \in Nat /\ ver'[r] = ver[r] + 1
          /\ \A q \in Refs \ {r} : ver'[q] = ver[q]
          /\ UNCHANGED <<val, cur>>
      BY <2>2 DEF BumpVersion, TypeInv, TypeOK, CallInv
    <3> HIDE DEF r
    <3>2. \A q \in Refs \ {r} : BeingWritten(q) => BeingWritten(q)'
      BY <3>1 DEF BeingWritten, r
    <3>3. \A u \in Threads : readSet[u][r] \in Nat \cup {NIL}
      BY <3>1 DEF TypeInv, TypeOK
    <3> QED BY <2>0, <3>1, <3>2, <3>3 DEF ReadInv, ReadOK
  <2>3. CASE /\ UNCHANGED <<val, ver>> /\ pc[t] # "bump" /\ pc'[t] \notin {"bump", "value"}
             /\ \A u \in Threads \ {t} : pc'[u] = pc[u] /\ cur'[u] = cur[u]
    BY <2>0, <2>3 DEF ReadInv, ReadOK, BeingWritten
  <2> QED
    BY <1>4, <2>1, <2>2, <2>3, SMTT(30) DEF TryCommit, CollectAndSort, AcquireLock, LocksTaken, Validate,
      ApplyCommute, CommutesApplied, Validators, NotifyWatches, WatchError, Published,
      ReleaseLock, TypeInv, TypeOK
<1>5. ASSUME NEW t \in Threads, Retry(t) PROVE ReadInv'
  BY <1>5, ZenonT(60) DEF Retry, FreshTransaction, TypeInv, TypeOK, ReadInv, ReadOK, BeingWritten
<1>6. CASE MoveObjects
  BY <1>6 DEF MoveObjects, ReadInv, ReadOK, BeingWritten
<1>7. CASE UNCHANGED vars
  BY <1>7 DEF ReadInv, ReadOK, BeingWritten
<1> QED
  BY <1>1, <1>2, <1>3, <1>4, <1>5, <1>6, <1>7 DEF Next, Step, Finished

LEMMA ValidStep == TypeInv /\ LockInv /\ ValidInv /\ [Next]_vars => ValidInv'
<1> SUFFICES ASSUME TypeInv, LockInv, ValidInv, [Next]_vars PROVE ValidInv'
    OBVIOUS
<1> USE DEF vars, refVars, txnVars, loopVars, histVars, lockVars, pubVars
<1>1. ASSUME NEW t \in Threads, Dosync(t) PROVE ValidInv'
  BY <1>1 DEF Dosync, TypeInv, TypeOK, ValidInv, Committing, Unpublished, Publishing, Written
<1>2. ASSUME NEW t \in Threads, \/ BodyError(t) \/ Return(t) \/ GiveUp(t) \/ Retry(t)
                               \/ BodyOp(t)
      PROVE  ValidInv'
  <2>1. /\ pc'[t] \in {"idle", "body", "ensured", "value"}
        /\ \A u \in Threads \ {t} : SameTables(u) /\ pc'[u] = pc[u]
        /\ UNCHANGED ver
    <3>1. CASE BodyOp(t)
      BY <3>1, BodyFrame DEF BodyResult
    <3>2. CASE Retry(t)
      BY <3>2 DEF Retry, FreshTransaction, SameTables, TypeInv, TypeOK
    <3>3. CASE BodyError(t) \/ Return(t) \/ GiveUp(t)
      <4>1. LeaveDosync(t) /\ UNCHANGED ver
        BY <3>3 DEF BodyError, Return, GiveUp
      <4> QED BY <4>1 DEF LeaveDosync, FreshTransaction, SameTables, TypeInv, TypeOK
    <3> QED BY <1>2, <3>1, <3>2, <3>3
  <2> QED BY <2>1 DEF ValidInv, Committing, Unpublished, Publishing, Written, SameTables
<1>3. ASSUME NEW t \in Threads, Validate(t) PROVE ValidInv'
  <2>1. /\ pc[t] = "validate" /\ pc'[t] \in {"commute", "release"}
        /\ pc'[t] = "commute" => Unchanged(t)
        /\ \A u \in Threads \ {t} : pc'[u] = pc[u]
        /\ UNCHANGED <<txnVars, ver, unwritten>>
    BY <1>3 DEF Validate, TypeInv, TypeOK
  <2> QED BY <2>1 DEF Unchanged, ValidInv, Committing, Unpublished, Publishing, Written
<1>4. ASSUME NEW t \in Threads, NEW r \in Refs, ApplyCommute(t, r) PROVE ValidInv'
  BY <1>4 DEF ApplyCommute, TypeInv, TypeOK, ValidInv, Committing, Unpublished, Publishing, Written
<1>5. ASSUME NEW t \in Threads, Validators(t) PROVE ValidInv'
  <2>1. /\ pc[t] = "validators" /\ pc'[t] \in {"write", "release"}
        /\ \A u \in Threads \ {t} : pc'[u] = pc[u] /\ unwritten'[u] = unwritten[u]
        /\ unwritten'[t] = Written(t)
        /\ UNCHANGED <<txnVars, ver>>
    BY <1>5 DEF Validators, TypeInv, TypeOK
  <2> QED BY <2>1 DEF ValidInv, Committing, Unpublished, Publishing, Written
<1>6. ASSUME NEW t \in Threads, NEW r \in Refs, WriteValue(t, r) PROVE ValidInv'
  BY <1>6, SMTT(30) DEF WriteValue, TypeInv, TypeOK, ValidInv, Committing, Unpublished, Publishing, Written
<1>7. ASSUME NEW t \in Threads, BumpVersion(t) PROVE ValidInv'
  <2> DEFINE r == cur[t]
  <2>1. /\ r \in Written(t) \ unwritten[t] /\ owner[r] = t
        /\ pc[t] = "bump" /\ pc'[t] = "watch"
        /\ \A u \in Threads \ {t} : pc'[u] = pc[u]
        /\ \A q \in Refs \ {r} : ver'[q] = ver[q]
        /\ UNCHANGED <<txnVars, unwritten>>
    BY <1>7 DEF BumpVersion, LockInv, Owns, Committing, AllRefs, Written, TypeInv, TypeOK, CallInv
  <2> HIDE DEF r
  <2>2. ASSUME NEW u \in Threads, Committing(u)', NEW q \in Unpublished(u)'
        PROVE  readSet[u][q] \in {NIL, ver'[q]}
    <3>1. Committing(u) /\ q \in Unpublished(u) /\ q \in Refs
      BY <2>1, <2>2 DEF Committing, Unpublished, Publishing, Written
    <3>2. CASE u = t
      <4>1. q # r
        BY <2>1, <3>1, <3>2 DEF Unpublished, Publishing
      <4> QED BY <2>1, <3>1, <4>1 DEF ValidInv
    <3>3. CASE u # t
      <4>1. readSet[u][q] # NIL => owner[q] = u
        BY <3>1 DEF LockInv, Owns, AllRefs
      <4>2. readSet[u][q] # NIL => q # r
        BY <2>1, <3>3, <4>1
      <4> QED BY <2>1, <3>1, <4>2 DEF ValidInv
    <3> QED BY <3>2, <3>3
  <2> QED BY <2>1, <2>2 DEF ValidInv
<1>8. ASSUME NEW t \in Threads,
             \/ CollectAndSort(t) \/ LocksTaken(t) \/ CommutesApplied(t) \/ NotifyWatches(t)
             \/ WatchError(t) \/ Published(t)
             \/ \E r \in Refs : AcquireLock(t, r) \/ ReleaseLock(t, r)
      PROVE  ValidInv'
  <2>1. /\ UNCHANGED <<txnVars, ver, unwritten>>
        /\ \A u \in Threads \ {t} : pc'[u] = pc[u]
        /\ Committing(t)' => Committing(t) /\ (Publishing(t)' <=> Publishing(t))
    BY <1>8 DEF CollectAndSort, LocksTaken, CommutesApplied, NotifyWatches, WatchError,
                Published, AcquireLock, ReleaseLock, Committing, Publishing, TypeInv, TypeOK
  <2> QED BY <2>1 DEF ValidInv, Committing, Unpublished, Publishing, Written
<1>9. CASE MoveObjects
  BY <1>9 DEF MoveObjects, ValidInv, Committing, Unpublished, Publishing, Written
<1>10. CASE UNCHANGED vars
  BY <1>10 DEF ValidInv, Committing, Unpublished, Publishing, Written
<1> QED
  BY <1>1, <1>2, <1>3, <1>4, <1>5, <1>6, <1>7, <1>8, <1>9, <1>10
  DEF Next, Step, TryCommit, Finished

(* Validation is sound: what a committing transaction has read is what the  *)
(* refs hold, whatever the threads, refs, functions, watch errors and       *)
(* collections, up to the moment it publishes the ref itself.               *)
THEOREM ValidationSound == Spec => []ReadsCurrent
<1> DEFINE Inv == TypeInv /\ LockInv /\ ReadInv /\ ValidInv
<1>1. Init => Inv
  BY TypeInit, LockInit, ReadInit
<1>2. Inv /\ [Next]_vars => Inv'
  BY TypeStep, LockStep, ReadStep, ValidStep
<1>3. Inv => ReadsCurrent
  <2> SUFFICES ASSUME Inv, NEW t \in Threads, Committing(t), NEW r \in Unpublished(t)
               PROVE  seen[t][r] \subseteq {val[r]}
    BY DEF ReadsCurrent
  <2>1. r \in Refs /\ readSet[t][r] \in {NIL, ver[r]} /\ ReadOK(t, r)
    BY DEF ValidInv, ReadInv, Unpublished
  <2>2. CASE readSet[t][r] = NIL
    BY <2>1, <2>2 DEF ReadOK
  <2>3. CASE readSet[t][r] # NIL
    <3>1. owner[r] = t
      BY <2>1, <2>3 DEF LockInv, Owns, AllRefs
    <3>2. ASSUME NEW u \in Threads, pc[u] = "bump", cur[u] = r PROVE FALSE
      <4>1. r \in Written(u) \ unwritten[u] /\ owner[r] = u
        BY <2>1, <3>2 DEF LockInv, Owns, Committing, AllRefs, Written
      <4>2. u = t
        BY <3>1, <4>1
      <4> QED BY <3>2, <4>1, <4>2 DEF Unpublished, Publishing
    <3> QED BY <2>1, <2>3, <3>2 DEF ReadOK, BeingWritten
  <2> QED BY <2>2, <2>3
<1> QED BY <1>1, <1>2, <1>3, PTL DEF Spec

-----------------------------------------------------------------------------
(* Atomicity.  The abstract store changes in one step only: the one that    *)
(* ends phase 5.  Every other step leaves AbsStore as it was, or also       *)
(* leaves dosync.                                                           *)

(* Steps of a thread that is not publishing, before and after. *)
LEMMA QuietStep ==
  ASSUME TypeInv, NEW t \in Threads, ~Publishing(t), ~Publishing(t)',
         UNCHANGED val,
         \A u \in Threads \ {t} : /\ pc'[u] = pc[u] /\ writeSet'[u] = writeSet[u]
                                 /\ unwritten'[u] = unwritten[u],
         \A r \in Refs : owner'[r] = owner[r] \/ (owner[r] \in {t, NIL} /\ owner'[r] \in {t, NIL})
  PROVE  AbsStore' = AbsStore
<1>1. ASSUME NEW r \in Refs PROVE AboutToPublish(r)' <=> AboutToPublish(r)
  BY DEF AboutToPublish, Publishing
<1>2. ASSUME NEW r \in Refs, AboutToPublish(r)
      PROVE  owner'[r] = owner[r] /\ writeSet'[owner[r]] = writeSet[owner[r]]
  BY <1>2 DEF AboutToPublish, Publishing
<1> QED BY <1>1, <1>2 DEF AbsStore

LEMMA CommitStep ==
  ASSUME TypeInv, LockInv, ReadInv, ReadsCurrent, NEW t \in Threads, Validators(t), pc'[t] = "write"
  PROVE  Atomic!Commit(t)
<1> USE DEF refVars, lockVars, txnVars, loopVars
<1> DEFINE f == [reads |-> seen[t], writes |-> writeSet[t]]
<1>1. /\ pc[t] = "validators" /\ pc' = [pc EXCEPT ![t] = "write"]
      /\ last' = [last EXCEPT ![t] = f]
      /\ unwritten' = [unwritten EXCEPT ![t] = Written(t)]
      /\ UNCHANGED <<val, owner, writeSet>>
  BY DEF Validators, TypeInv, TypeOK
<1>2. f \in Footprints /\ last'[t] = f
  BY <1>1 DEF Footprints, TypeInv, TypeOK
<1>3. \A r \in Refs : f.reads[r] \subseteq {val[r]}
  BY <1>1 DEF ReadsCurrent, Committing, Unpublished, Publishing
<1>4. \A r \in Refs : owner[r] = t => ~AboutToPublish(r)
  BY <1>1 DEF AboutToPublish, Publishing
<1>5. \A r \in Refs : writeSet[t][r] # NIL => owner[r] = t /\ AboutToPublish(r)'
  BY <1>1 DEF LockInv, Owns, Committing, AllRefs, Written, AboutToPublish, Publishing, TypeInv, TypeOK
<1>6. \A r \in Refs : writeSet[t][r] = NIL => (AboutToPublish(r)' <=> AboutToPublish(r))
  BY <1>1 DEF AboutToPublish, Publishing, Written, TypeInv, TypeOK
<1>7. \A r \in Refs : f.reads[r] \subseteq {AbsStore[r]}
  <2> SUFFICES ASSUME NEW r \in Refs, f.reads[r] # {} PROVE f.reads[r] \subseteq {AbsStore[r]}
    OBVIOUS
  <2>1. owner[r] = t
    <3>1. readSet[t][r] # NIL
      BY DEF ReadInv, ReadOK
    <3> QED BY <1>1, <3>1 DEF LockInv, Owns, Committing, AllRefs
  <2> QED BY <1>3, <1>4, <2>1 DEF AbsStore
<1>8. AbsStore' = [r \in Refs |-> IF f.writes[r] = NIL THEN AbsStore[r] ELSE f.writes[r]]
  BY <1>1, <1>5, <1>6 DEF AbsStore
<1> HIDE DEF f
<1> QED BY <1>1, <1>2, <1>7, <1>8 DEF Atomic!Commit, Atomic!Install, Atomic!Footprints, Footprints

LEMMA PublishStep ==
  ASSUME TypeInv, LockInv, NEW t \in Threads, NEW r \in Refs, WriteValue(t, r)
  PROVE  AbsStore' = AbsStore
<1> USE DEF refVars, lockVars, txnVars
<1>1. /\ pc[t] = "write" /\ pc' = [pc EXCEPT ![t] = "bump"]
      /\ r \in unwritten[t] /\ unwritten' = [unwritten EXCEPT ![t] = @ \ {r}]
      /\ val' = [val EXCEPT ![r] = writeSet[t][r]]
      /\ UNCHANGED <<owner, writeSet>>
  BY DEF WriteValue
<1>2. owner[r] = t /\ AboutToPublish(r) /\ ~AboutToPublish(r)'
  BY <1>1 DEF LockInv, Owns, Committing, Publishing, AllRefs, Written, AboutToPublish, TypeInv, TypeOK
<1>3. \A q \in Refs \ {r} : AboutToPublish(q)' <=> AboutToPublish(q)
  BY <1>1 DEF AboutToPublish, Publishing, TypeInv, TypeOK
<1> QED BY <1>1, <1>2, <1>3 DEF AbsStore, TypeInv, TypeOK

LEMMA AtomicStep ==
  ASSUME FaultyWatch = {}, TypeInv, LockInv, ReadInv, ReadsCurrent, [Next]_vars
  PROVE  [Atomic!Next]_(Atomic!vars)
<1> USE DEF vars, refVars, txnVars, loopVars, histVars, lockVars, pubVars
<1>a. ASSUME AbsStore' = AbsStore, last' = last PROVE [Atomic!Next]_(Atomic!vars)
  BY <1>a DEF Atomic!vars
<1>1. ASSUME NEW t \in Threads, Dosync(t) PROVE AbsStore' = AbsStore /\ last' = last
  BY <1>1, QuietStep DEF Dosync, Publishing, TypeInv, TypeOK
<1>2. ASSUME NEW t \in Threads, BodyError(t) \/ Return(t) \/ GiveUp(t)
      PROVE  [Atomic!Next]_(Atomic!vars)
  <2>1. LeaveDosync(t) /\ pc[t] \in {"body", "release"} /\ UNCHANGED <<val, owner>>
    BY <1>2 DEF BodyError, Return, GiveUp
  <2>2. /\ pc'[t] = "idle"
        /\ \A u \in Threads \ {t} : /\ pc'[u] = pc[u] /\ writeSet'[u] = writeSet[u]
                                   /\ unwritten'[u] = unwritten[u]
    BY <2>1 DEF LeaveDosync, FreshTransaction, TypeInv, TypeOK
  <2>3. AbsStore' = AbsStore
    BY <2>1, <2>2, QuietStep DEF Publishing
  <2>4. Atomic!Leave(t)
    BY <2>1, <2>3 DEF Atomic!Leave, LeaveDosync, NoFootprint, Atomic!NoFootprint
  <2> QED BY <2>4 DEF Atomic!Next
<1>3. ASSUME NEW t \in Threads, BodyOp(t) PROVE AbsStore' = AbsStore /\ last' = last
  <2>1. BodyResult(t)
    BY <1>3, BodyFrame
  <2>2. pc[t] \in {"body", "ensured", "value"} /\ last' = last
    BY <1>3 DEF BodyOp, Deref, Ensure, RefSet, Alter, Commute, StartsOp, EnsureDeref, DerefValue
  <2> QED BY <2>1, <2>2, QuietStep DEF BodyResult, SameTables, Publishing
<1>4. ASSUME NEW t \in Threads, Retry(t) PROVE AbsStore' = AbsStore /\ last' = last
  <2>1. /\ pc[t] = "release" /\ pc'[t] = "body" /\ UNCHANGED <<val, owner, unwritten, last>>
        /\ \A u \in Threads \ {t} : pc'[u] = pc[u] /\ writeSet'[u] = writeSet[u]
    BY <1>4 DEF Retry, FreshTransaction, TypeInv, TypeOK
  <2> QED BY <2>1, QuietStep DEF Publishing
<1>5. ASSUME NEW t \in Threads, Validators(t) PROVE [Atomic!Next]_(Atomic!vars)
  <2>1. CASE pc'[t] = "write"
    BY <1>5, <2>1, CommitStep DEF Atomic!Next
  <2>2. CASE pc'[t] # "write"
    <3>1. /\ pc[t] = "validators" /\ pc'[t] = "release" /\ UNCHANGED <<val, owner, writeSet, last>>
          /\ \A u \in Threads \ {t} : pc'[u] = pc[u] /\ unwritten'[u] = unwritten[u]
      BY <1>5, <2>2 DEF Validators, TypeInv, TypeOK
    <3> QED BY <1>a, <3>1, QuietStep DEF Publishing
  <2> QED BY <2>1, <2>2
<1>6. ASSUME NEW t \in Threads, NEW r \in Refs, WriteValue(t, r)
      PROVE  AbsStore' = AbsStore /\ last' = last
  BY <1>6, PublishStep DEF WriteValue
<1>7. ASSUME NEW t \in Threads, BumpVersion(t) \/ NotifyWatches(t)
      PROVE  AbsStore' = AbsStore /\ last' = last
  <2>1. /\ Publishing(t) /\ Publishing(t)' /\ UNCHANGED <<val, owner, writeSet, unwritten, last>>
        /\ \A u \in Threads \ {t} : pc'[u] = pc[u]
    BY <1>7 DEF BumpVersion, NotifyWatches, Publishing, TypeInv, TypeOK
  <2>2. \A r \in Refs : AboutToPublish(r)' <=> AboutToPublish(r)
    BY <2>1 DEF AboutToPublish, Publishing
  <2> QED BY <2>1, <2>2 DEF AbsStore
<1>8. ASSUME NEW t \in Threads, Published(t) PROVE AbsStore' = AbsStore /\ last' = last
  <2>1. /\ unwritten[t] = {} /\ UNCHANGED <<val, owner, writeSet, unwritten, last>>
        /\ \A u \in Threads \ {t} : pc'[u] = pc[u]
    BY <1>8 DEF Published, TypeInv, TypeOK
  <2>2. \A r \in Refs : AboutToPublish(r)' <=> AboutToPublish(r)
    BY <2>1 DEF AboutToPublish, Publishing
  <2> QED BY <2>1, <2>2 DEF AbsStore
<1>9. ASSUME NEW t \in Threads,
             \/ CollectAndSort(t) \/ LocksTaken(t) \/ Validate(t) \/ CommutesApplied(t)
             \/ \E r \in Refs : AcquireLock(t, r) \/ ApplyCommute(t, r) \/ ReleaseLock(t, r)
      PROVE  AbsStore' = AbsStore /\ last' = last
  <2>1. /\ ~Publishing(t) /\ ~Publishing(t)' /\ UNCHANGED <<val, unwritten, last>>
        /\ \A u \in Threads \ {t} : pc'[u] = pc[u] /\ writeSet'[u] = writeSet[u]
        /\ \A r \in Refs : \/ owner'[r] = owner[r]
                           \/ (owner[r] \in {t, NIL} /\ owner'[r] \in {t, NIL})
    BY <1>9, SMTT(30) DEF CollectAndSort, LocksTaken, Validate, CommutesApplied, AcquireLock, ApplyCommute,
                ReleaseLock, Held, Publishing, TypeInv, TypeOK
  <2> QED BY <2>1, QuietStep
<1>10. ASSUME MoveObjects \/ UNCHANGED vars PROVE AbsStore' = AbsStore /\ last' = last
  BY <1>10 DEF MoveObjects, AbsStore, AboutToPublish, Publishing
<1>11. \A t \in Threads : ~WatchError(t)
  BY DEF WatchError
<1> QED
  BY <1>a, <1>1, <1>2, <1>3, <1>4, <1>5, <1>6, <1>7, <1>8, <1>9, <1>10, <1>11
  DEF Next, Step, TryCommit, Finished

(* When no watch function signals an error, every dosync takes effect at    *)
(* one instant: the STM implements AtomicRefs.                              *)
THEOREM Atomicity == ASSUME FaultyWatch = {} PROVE Spec => AtomicTransactions
<1> DEFINE Inv == TypeInv /\ LockInv /\ ReadInv /\ ReadsCurrent
<1>1. Init => Atomic!Init
  <2> SUFFICES ASSUME Init PROVE Atomic!Init
    OBVIOUS
  <2>1. AbsStore = val
    BY DEF Init, AbsStore, AboutToPublish
  <2> QED BY <2>1 DEF Init, Atomic!Init, NoFootprint, Atomic!NoFootprint
<1>2. Inv /\ [Next]_vars => [Atomic!Next]_(Atomic!vars)
  BY AtomicStep
<1>3. Spec => [](TypeInv /\ LockInv /\ ReadInv)
  BY TypeInit, LockInit, ReadInit, TypeStep, LockStep, ReadStep, PTL DEF Spec
<1>4. Spec => []Inv
  BY <1>3, ValidationSound, PTL
<1> QED BY <1>1, <1>2, <1>4, PTL DEF Spec, Atomic!Spec, AtomicTransactions

-----------------------------------------------------------------------------
(* Deadlock freedom.  A thread in phase 1 holds only refs that lie below    *)
(* those it has still to lock, in the order it has sorted them by, and a    *)
(* thread outside %try-commit holds none.                                   *)
OutOfCommit(t) == pc[t] \in {"idle", "body", "ensured", "value"}

OrderInv ==
  /\ Distinct(addr) /\ \A t \in Threads : Distinct(sortKey[t])
  /\ \A t \in Threads : OutOfCommit(t) => \A r \in Refs : owner[r] # t
  /\ \A t \in Threads : pc[t] = "lock" =>
       \A r \in Refs, q \in toLock[t] : owner[r] = t => sortKey[t][r] < sortKey[t][q]

LEMMA OrderInit == Init => OrderInv
BY DEF Init, OrderInv

(* A step of t that does not touch the locks, nor enters phase 1. *)
LEMMA OrderFrame ==
  ASSUME OrderInv, NEW t \in Threads,
         UNCHANGED <<owner, addr, sortKey, toLock>>,
         \A u \in Threads \ {t} : pc'[u] = pc[u],
         pc'[t] # "lock", OutOfCommit(t)' => \A r \in Refs : owner[r] # t
  PROVE  OrderInv'
BY DEF OrderInv, OutOfCommit, Distinct

LEMMA OrderStep ==
  ASSUME TypeInv, OrderInv, [Next]_vars PROVE OrderInv'
<1> USE DEF vars, refVars, txnVars, loopVars, histVars, lockVars, pubVars
<1>1. ASSUME NEW t \in Threads, Dosync(t) \/ BodyError(t) PROVE OrderInv'
  <2>1. /\ pc[t] \in {"idle", "body"} /\ pc'[t] \in {"idle", "body"}
        /\ \A u \in Threads \ {t} : pc'[u] = pc[u]
        /\ UNCHANGED <<owner, addr, sortKey, toLock>>
    BY <1>1 DEF Dosync, BodyError, LeaveDosync, TypeInv, TypeOK
  <2> QED BY <2>1, OrderFrame DEF OrderInv, OutOfCommit
<1>2. ASSUME NEW t \in Threads, BodyOp(t) PROVE OrderInv'
  <2>1. /\ OutOfCommit(t) /\ UNCHANGED <<addr, sortKey>>
    BY <1>2 DEF BodyOp, Deref, Ensure, RefSet, Alter, Commute, StartsOp, EnsureDeref, DerefValue,
                OutOfCommit
  <2>2. BodyResult(t)
    BY <1>2, BodyFrame
  <2> QED BY <2>1, <2>2, OrderFrame DEF BodyResult, OrderInv
<1>3. ASSUME NEW t \in Threads, Return(t) \/ GiveUp(t) \/ Retry(t) PROVE OrderInv'
  <2>1. /\ Held(t) = {} /\ pc'[t] \in {"idle", "body"}
        /\ \A u \in Threads \ {t} : pc'[u] = pc[u]
        /\ UNCHANGED <<owner, addr, sortKey, toLock>>
    BY <1>3 DEF Return, GiveUp, Retry, LeaveDosync, TypeInv, TypeOK
  <2> QED BY <2>1, OrderFrame DEF Held
<1>4. ASSUME NEW t \in Threads, CollectAndSort(t) PROVE OrderInv'
  <2>1. /\ OutOfCommit(t) /\ pc'[t] = "lock" /\ sortKey'[t] = addr
        /\ \A u \in Threads \ {t} : /\ pc'[u] = pc[u] /\ sortKey'[u] = sortKey[u]
                                   /\ toLock'[u] = toLock[u]
        /\ UNCHANGED <<owner, addr>>
    BY <1>4 DEF CollectAndSort, OutOfCommit, TypeInv, TypeOK
  <2>2. \A r \in Refs : owner[r] # t
    BY <2>1 DEF OrderInv
  <2> QED BY <2>1, <2>2 DEF OrderInv, OutOfCommit, Distinct
<1>5. ASSUME NEW t \in Threads, NEW r \in Refs, AcquireLock(t, r) PROVE OrderInv'
  <2>1. /\ pc[t] = "lock" /\ r \in toLock[t] /\ owner[r] = NIL /\ owner'[r] = t
        /\ \A q \in toLock[t] : sortKey[t][r] <= sortKey[t][q]
        /\ \A q \in Refs \ {r} : owner'[q] = owner[q]
        /\ toLock'[t] = toLock[t] \ {r}
        /\ \A u \in Threads \ {t} : toLock'[u] = toLock[u]
        /\ UNCHANGED <<pc, addr, sortKey>>
    BY <1>5 DEF AcquireLock, IsNextLock, TypeInv, TypeOK
  <2>2. \A q \in toLock'[t] : sortKey[t][r] < sortKey[t][q]
    <3> SUFFICES ASSUME NEW q \in toLock'[t] PROVE sortKey[t][r] < sortKey[t][q]
      OBVIOUS
    <3>1. q \in toLock[t] /\ q \in Refs /\ q # r /\ sortKey[t][r] <= sortKey[t][q]
      BY <2>1 DEF TypeInv, TypeOK
    <3>2. sortKey[t][r] # sortKey[t][q]
      BY <3>1 DEF OrderInv, Distinct
    <3>3. sortKey[t][r] \in Int /\ sortKey[t][q] \in Int
      BY <3>1 DEF TypeInv, TypeOK, Addresses
    <3> QED BY <3>1, <3>2, <3>3
  <2>3. \A u \in Threads : OutOfCommit(u)' => u # t /\ OutOfCommit(u)
    BY <2>1 DEF OutOfCommit
  <2> QED BY <2>1, <2>2, <2>3 DEF OrderInv, Distinct
<1>6. ASSUME NEW t \in Threads, NEW r \in Refs, ReleaseLock(t, r) PROVE OrderInv'
  <2>1. /\ pc[t] = "release" /\ owner'[r] = NIL
        /\ \A q \in Refs \ {r} : owner'[q] = owner[q]
        /\ UNCHANGED <<pc, addr, sortKey, toLock>>
    BY <1>6 DEF ReleaseLock, TypeInv, TypeOK
  <2> QED BY <2>1 DEF OrderInv, OutOfCommit, Distinct
<1>7. ASSUME NEW t \in Threads,
             \/ LocksTaken(t) \/ Validate(t) \/ CommutesApplied(t) \/ Validators(t)
             \/ BumpVersion(t) \/ NotifyWatches(t) \/ WatchError(t) \/ Published(t)
             \/ \E r \in Refs : ApplyCommute(t, r) \/ WriteValue(t, r)
      PROVE  OrderInv'
  <2>1. /\ pc'[t] # "lock" /\ ~OutOfCommit(t)' /\ UNCHANGED <<owner, addr, sortKey, toLock>>
        /\ \A u \in Threads \ {t} : pc'[u] = pc[u]
    BY <1>7, SMTT(30) DEF LocksTaken, Validate, CommutesApplied, Validators, BumpVersion, NotifyWatches,
                WatchError, Published, ApplyCommute, WriteValue, OutOfCommit, TypeInv, TypeOK
  <2> QED BY <2>1, OrderFrame
<1>8. CASE MoveObjects
  BY <1>8 DEF MoveObjects, OrderInv, OutOfCommit, Distinct
<1>9. CASE UNCHANGED vars
  BY <1>9 DEF OrderInv, OutOfCommit, Distinct
<1> QED
  BY <1>1, <1>2, <1>3, <1>4, <1>5, <1>6, <1>7, <1>8, <1>9
  DEF Next, Step, TryCommit, Finished

(* If all threads of a circle agree on the order of the refs, then of the   *)
(* refs they wait for, the owner of the highest waits for a higher one.     *)
LEMMA NoCircle ==
  ASSUME IsFiniteSet(Refs), TypeInv, OrderInv PROVE NoWaitCycle
<1> SUFFICES ASSUME NEW S \in SUBSET Threads, S # {},
                    \A t \in S : \E u \in S : WaitsFor(t, u),
                    \A t, u \in S : ~OppositeOrders(t, u)
             PROVE  FALSE
  BY DEF NoWaitCycle, WaitCycle
<1>1. PICK s \in S : TRUE
  OBVIOUS
<1>2. PICK key \in Addresses : key = sortKey[s] /\ Distinct(key)
  BY <1>1 DEF TypeInv, TypeOK, OrderInv
<1>3. ASSUME NEW t \in S, NEW q \in Refs, NEW r \in Refs, sortKey[t][q] < sortKey[t][r]
      PROVE  key[q] < key[r]
  <2>1. ~(key[r] < key[q])
    BY <1>1, <1>2, <1>3 DEF OppositeOrders
  <2>2. key[q] # key[r]
    <3>1. t \in Threads /\ sortKey[t][q] \in Int
      BY DEF TypeInv, TypeOK, Addresses
    <3>2. q # r
      BY <1>3, <3>1
    <3> QED BY <1>2, <3>2 DEF Distinct
  <2>3. key[q] \in Int /\ key[r] \in Int
    BY DEF Addresses
  <2> QED BY <2>1, <2>2, <2>3
<1> DEFINE Wanted == {r \in Refs : \E t \in S : /\ pc[t] = "lock" /\ IsNextLock(t, r)
                                            /\ owner[r] \in S}
           A == {key[r] : r \in Wanted}
<1>4. \A t \in S : \E r \in Wanted : pc[t] = "lock" /\ r \in toLock[t]
  BY DEF WaitsFor, IsNextLock
<1>5. Cardinality(Refs) \in Nat
  BY FS_CardinalityType
<1>6. A \in SUBSET (1..Cardinality(Refs)) /\ A # {}
  <2>1. \A r \in Wanted : key[r] \in 1..Cardinality(Refs)
    BY DEF Addresses
  <2>2. Wanted # {}
    BY <1>4
  <2> HIDE DEF Wanted
  <2> QED BY <2>1, <2>2
<1>7. PICK a \in A : \A b \in A : b <= a
  <2> HIDE DEF A
  <2> QED BY <1>5, <1>6, IntervalMax
<1>8. PICK r \in Wanted : \A q \in Wanted : key[q] <= key[r]
  BY <1>7
<1>9. PICK q \in Wanted : pc[owner[r]] = "lock" /\ q \in toLock[owner[r]]
  BY <1>4, <1>8
<1>10. key[r] < key[q]
  <2>1. owner[r] \in S /\ r \in Refs /\ q \in Refs
    BY <1>8, <1>9
  <2>2. sortKey[owner[r]][r] < sortKey[owner[r]][q]
    BY <1>9, <2>1 DEF OrderInv
  <2> QED BY <1>3, <2>1, <2>2
<1>11. key[r] \in Int /\ key[q] \in Int /\ key[q] <= key[r]
  BY <1>8, <1>9 DEF Addresses
<1> QED BY <1>10, <1>11

(* Whatever the threads and the refs they lock, and however the collector   *)
(* moves objects between any two steps: commits wait for each other in a    *)
(* circle only if two of its threads have sorted refs in opposite orders,   *)
(* which is what "a stable sort key" (mutable.lisp:304) was to exclude.     *)
THEOREM DeadlockNeedsOppositeOrders ==
  ASSUME IsFiniteSet(Refs) PROVE Spec => []NoWaitCycle
<1>1. OrderInv /\ TypeInv /\ [Next]_vars => OrderInv'
  BY OrderStep
<1>2. TypeInv /\ OrderInv => NoWaitCycle
  BY NoCircle
<1> QED BY <1>1, <1>2, TypeInit, TypeStep, OrderInit, PTL DEF Spec

-----------------------------------------------------------------------------
(* Retries.  A version that an attempt has recorded is behind the ref only  *)
(* if a commit was published since the attempt began, or is half published: *)
(* its thread still holds the lock of the ref, so validation, which holds   *)
(* it too, sees the first case only.                                        *)
Recorded(t, r) == {readSet[t][r], ensureSet[t][r]} \ {NIL}

HalfPublished(r) == \E u \in Threads : Publishing(u) /\ r \in Written(u) \ unwritten[u]

HasCause(t, r) == \A v \in Recorded(t, r) :
                    /\ v <= ver[r]
                    /\ v < ver[r] => commits > base[t] \/ HalfPublished(r)

CauseInv == /\ \A t \in Threads : base[t] <= commits
            /\ \A t \in Threads, r \in Refs : HasCause(t, r)
            /\ \A t \in Threads, r \in Refs : pc[t] = "idle" => Recorded(t, r) = {}
            /\ ConflictHasCause

LEMMA CauseInit == Init => CauseInv
BY DEF Init, CauseInv, HasCause, Recorded, ConflictHasCause

LEMMA RecordedTypes ==
  ASSUME TypeInv, NEW t \in Threads, NEW r \in Refs
  PROVE  Recorded(t, r) \subseteq Nat /\ ver[r] \in Nat /\ commits \in Nat /\ base[t] \in Nat
BY DEF TypeInv, TypeOK, Recorded

(* What a body records is the version of the moment. *)
LEMMA BodyRecorded ==
  ASSUME TypeInv, NEW t \in Threads, BodyOp(t), NEW r \in Refs
  PROVE  Recorded(t, r)' \subseteq Recorded(t, r) \cup {ver[r]}
<1> USE DEF refVars, lockVars, pubVars, histVars, loopVars, TypeInv, TypeOK, Recorded
<1>1. ASSUME NEW q \in Refs, Deref(t, q) PROVE Recorded(t, r)' \subseteq Recorded(t, r) \cup {ver[r]}
  BY <1>1 DEF Deref, BeginDeref
<1>2. ASSUME NEW q \in Refs, NEW f \in Fns, Alter(t, q, f)
      PROVE  Recorded(t, r)' \subseteq Recorded(t, r) \cup {ver[r]}
  BY <1>2 DEF Alter, BeginDeref
<1>3. ASSUME NEW q \in Refs, NEW f \in Fns, Commute(t, q, f)
      PROVE  Recorded(t, r)' \subseteq Recorded(t, r) \cup {ver[r]}
  BY <1>3 DEF Commute, BeginDeref
<1>4. ASSUME NEW q \in Refs, NEW v \in Values, RefSet(t, q, v)
      PROVE  Recorded(t, r)' \subseteq Recorded(t, r) \cup {ver[r]}
  BY <1>4 DEF RefSet
<1>5. ASSUME NEW q \in Refs, Ensure(t, q) PROVE Recorded(t, r)' \subseteq Recorded(t, r) \cup {ver[r]}
  BY <1>5 DEF Ensure
<1>6. CASE EnsureDeref(t)
  BY <1>6 DEF EnsureDeref, BeginDeref, CallInv
<1>7. CASE DerefValue(t)
  BY <1>7 DEF DerefValue
<1> HIDE DEF Recorded
<1> QED BY <1>1, <1>2, <1>3, <1>4, <1>5, <1>6, <1>7 DEF BodyOp

(* A step of t that publishes nothing, and of whose records none is old. *)
LEMMA CauseFrame ==
  ASSUME TypeInv, CauseInv, NEW t \in Threads,
         UNCHANGED <<ver, commits>>,
         \A u \in Threads \ {t} : /\ SameTables(u) /\ pc'[u] = pc[u]
                                 /\ base'[u] = base[u] /\ fate'[u] = fate[u],
         Publishing(t) => Publishing(t)' /\ Written(t) \ unwritten[t] \subseteq (Written(t) \ unwritten[t])',
         base'[t] \in {0, base[t], commits},
         base'[t] # base[t] => \A r \in Refs : Recorded(t, r)' = {},
         \A r \in Refs : Recorded(t, r)' \subseteq Recorded(t, r) \cup {ver[r]},
         pc'[t] = "idle" => \A r \in Refs : Recorded(t, r)' = {},
         pc'[t] = "release" /\ fate'[t] = "conflict" => commits > base'[t]
  PROVE  CauseInv'
<1>1. \A r \in Refs : HalfPublished(r) => HalfPublished(r)'
  BY DEF HalfPublished, SameTables, Publishing, Written
<1>2. \A u \in Threads \ {t}, r \in Refs : Recorded(u, r)' = Recorded(u, r)
  BY DEF Recorded, SameTables
<1>3. ASSUME NEW u \in Threads PROVE base'[u] <= commits'
  <2>1. base[u] <= commits /\ commits \in Nat
    BY DEF CauseInv, TypeInv, TypeOK
  <2>2. CASE u = t
    BY <2>1, <2>2
  <2>3. CASE u # t
    BY <2>1, <2>3
  <2> QED BY <2>2, <2>3
<1>4. ASSUME NEW u \in Threads, NEW r \in Refs PROVE HasCause(u, r)'
  <2>1. CASE u # t
    BY <1>1, <1>2, <2>1 DEF CauseInv, HasCause
  <2>2. CASE u = t /\ base'[t] # base[t]
    BY <2>2 DEF HasCause
  <2>3. CASE u = t /\ base'[t] = base[t]
    <3>1. HasCause(t, r) /\ ver[r] \in Nat /\ Recorded(t, r)' \subseteq Recorded(t, r) \cup {ver[r]}
      BY RecordedTypes DEF CauseInv
    <3> QED BY <1>1, <2>3, <3>1 DEF HasCause
  <2> QED BY <2>1, <2>2, <2>3
<1>5. ASSUME NEW u \in Threads, NEW r \in Refs, pc'[u] = "idle" PROVE Recorded(u, r)' = {}
  <2>1. CASE u # t
    <3>1. Recorded(u, r) = {}
      BY <1>5, <2>1 DEF CauseInv
    <3> QED BY <1>2, <2>1, <3>1
  <2>2. CASE u = t
    BY <1>5, <2>2
  <2> QED BY <2>1, <2>2
<1>6. ConflictHasCause'
  BY DEF CauseInv, ConflictHasCause
<1> QED BY <1>3, <1>4, <1>5, <1>6 DEF CauseInv

LEMMA CauseStep ==
  TypeInv /\ LockInv /\ CauseInv /\ [Next]_vars => CauseInv'
<1> SUFFICES ASSUME TypeInv, LockInv, CauseInv, [Next]_vars PROVE CauseInv'
    OBVIOUS
<1> USE DEF vars, refVars, txnVars, loopVars, histVars, lockVars, pubVars
<1>1. ASSUME NEW t \in Threads, Dosync(t) PROVE CauseInv'
  <2>1. /\ pc[t] = "idle" /\ pc'[t] = "body" /\ base'[t] = commits
        /\ \A u \in Threads \ {t} : pc'[u] = pc[u] /\ base'[u] = base[u]
        /\ UNCHANGED <<ver, commits, txnVars, unwritten, seen, fate>>
    BY <1>1 DEF Dosync, TypeInv, TypeOK
  <2>2. \A r \in Refs : Recorded(t, r) = {} /\ Recorded(t, r)' = Recorded(t, r)
    BY <2>1 DEF CauseInv, Recorded
  <2> QED BY <2>1, <2>2, CauseFrame DEF SameTables, Publishing
<1>2. ASSUME NEW t \in Threads, BodyError(t) \/ Return(t) \/ GiveUp(t) \/ Retry(t) PROVE CauseInv'
  <2>1. /\ pc[t] \in {"body", "release"} /\ pc'[t] \in {"idle", "body"}
        /\ base'[t] \in {0, commits} /\ UNCHANGED <<ver, commits>>
        /\ readSet'[t] = [r \in Refs |-> NIL] /\ ensureSet'[t] = [r \in Refs |-> NIL]
    <3>1. CASE Retry(t)
      BY <3>1 DEF Retry, FreshTransaction, TypeInv, TypeOK
    <3>2. CASE BodyError(t) \/ Return(t) \/ GiveUp(t)
      <4>1. LeaveDosync(t) /\ pc[t] \in {"body", "release"} /\ UNCHANGED <<ver, commits>>
        BY <3>2 DEF BodyError, Return, GiveUp
      <4> QED BY <4>1 DEF LeaveDosync, FreshTransaction, TypeInv, TypeOK
    <3> QED BY <1>2, <3>1, <3>2
  <2>2. \A u \in Threads \ {t} : /\ SameTables(u) /\ pc'[u] = pc[u]
                               /\ base'[u] = base[u] /\ fate'[u] = fate[u]
    BY <1>2 DEF BodyError, Return, GiveUp, Retry, LeaveDosync, FreshTransaction, SameTables,
                TypeInv, TypeOK
  <2>3. \A r \in Refs : Recorded(t, r)' = {}
    BY <2>1 DEF Recorded
  <2> QED BY <2>1, <2>2, <2>3, CauseFrame DEF Publishing
<1>3. ASSUME NEW t \in Threads, BodyOp(t) PROVE CauseInv'
  <2>1. BodyResult(t)
    BY <1>3, BodyFrame
  <2>2. OutOfCommit(t) /\ UNCHANGED <<commits, base, fate>>
    BY <1>3 DEF BodyOp, Deref, Ensure, RefSet, Alter, Commute, StartsOp, EnsureDeref, DerefValue,
                OutOfCommit
  <2>3. \A r \in Refs : Recorded(t, r)' \subseteq Recorded(t, r) \cup {ver[r]}
    BY <1>3, BodyRecorded
  <2> QED BY <2>1, <2>2, <2>3, CauseFrame DEF BodyResult, OutOfCommit, Publishing
<1>4. ASSUME NEW t \in Threads, Validate(t) PROVE CauseInv'
  <2>1. /\ pc[t] = "validate" /\ pc'[t] \in {"commute", "release"}
        /\ pc'[t] = "release" => ~Unchanged(t)
        /\ \A u \in Threads \ {t} : pc'[u] = pc[u] /\ fate'[u] = fate[u]
        /\ UNCHANGED <<txnVars, ver, unwritten, seen, commits, base>>
    BY <1>4 DEF Validate, TypeInv, TypeOK
  <2>2. ASSUME ~Unchanged(t) PROVE commits > base[t]
    <3>1. PICK r \in Refs : \E v \in Recorded(t, r) : v # ver[r]
      BY <2>2 DEF Unchanged, Recorded
    <3>2. PICK v \in Recorded(t, r) : v # ver[r]
      BY <3>1
    <3>3. v < ver[r]
      BY <3>2, RecordedTypes DEF CauseInv, HasCause
    <3>4. owner[r] = t
      BY <2>1, <3>2 DEF LockInv, Owns, AllRefs, Recorded
    <3>5. ASSUME NEW u \in Threads, Publishing(u), r \in Written(u) PROVE FALSE
      <4>1. owner[r] = u
        BY <3>5 DEF LockInv, Owns, Committing, Publishing, AllRefs, Written
      <4> QED BY <2>1, <3>4, <3>5, <4>1 DEF Publishing
    <3> QED BY <3>2, <3>3, <3>5 DEF CauseInv, HasCause, HalfPublished
  <2>3. \A r \in Refs : Recorded(t, r)' = Recorded(t, r)
    BY <2>1 DEF Recorded
  <2> QED BY <2>1, <2>2, <2>3, CauseFrame DEF SameTables, Publishing
<1>5. ASSUME NEW t \in Threads, BumpVersion(t) PROVE CauseInv'
  <2>0. PICK r \in Refs : r = cur[t]
    BY <1>5 DEF BumpVersion, TypeInv, CallInv
  <2>1. /\ r \in Written(t) \ unwritten[t]
        /\ pc[t] = "bump" /\ pc'[t] = "watch"
        /\ \A u \in Threads \ {t} : pc'[u] = pc[u]
        /\ ver[r] \in Nat /\ ver'[r] = ver[r] + 1
        /\ \A q \in Refs \ {r} : ver'[q] = ver[q]
        /\ UNCHANGED <<txnVars, unwritten, commits, base, fate>>
    BY <1>5, <2>0 DEF BumpVersion, LockInv, TypeInv, TypeOK, CallInv
  <2>2. HalfPublished(r)' /\ \A q \in Refs : HalfPublished(q) => HalfPublished(q)'
    <3>1. \A u \in Threads : /\ (Publishing(u)' <=> Publishing(u)) /\ Written(u)' = Written(u)
                            /\ unwritten'[u] = unwritten[u]
      BY <2>1 DEF Publishing, Written
    <3>2. Publishing(t)
      BY <2>1 DEF Publishing
    <3> QED BY <2>1, <3>1, <3>2 DEF HalfPublished
  <2>3. ASSUME NEW u \in Threads, NEW q \in Refs PROVE HasCause(u, q)'
    <3>1. HasCause(u, q) /\ Recorded(u, q) \subseteq Nat /\ Recorded(u, q)' = Recorded(u, q)
      BY <2>1, RecordedTypes DEF CauseInv, Recorded
    <3>2. CASE q = r
      BY <2>1, <2>2, <3>1, <3>2 DEF HasCause
    <3>3. CASE q # r
      BY <2>1, <2>2, <3>1, <3>3 DEF HasCause
    <3> QED BY <3>2, <3>3
  <2>4. \A u \in Threads, q \in Refs : pc'[u] = "idle" => Recorded(u, q)' = {}
    BY <2>1 DEF CauseInv, Recorded
  <2>5. ConflictHasCause'
    BY <2>1 DEF CauseInv, ConflictHasCause
  <2> QED BY <2>1, <2>3, <2>4, <2>5 DEF CauseInv
<1>6. ASSUME NEW t \in Threads, WatchError(t) \/ Published(t) PROVE CauseInv'
  <2>1. /\ Publishing(t) /\ pc'[t] = "release" /\ fate'[t] # "conflict"
        /\ \A u \in Threads \ {t} : pc'[u] = pc[u] /\ fate'[u] = fate[u]
        /\ commits \in Nat /\ commits' \in {commits, commits + 1}
        /\ Written(t) # {} => commits' = commits + 1
        /\ UNCHANGED <<txnVars, ver, unwritten, base>>
    BY <1>6 DEF WatchError, Published, Publishing, TypeInv, TypeOK
  <2>2. ASSUME NEW u \in Threads, NEW q \in Refs PROVE HasCause(u, q)'
    <3>1. HasCause(u, q) /\ Recorded(u, q)' = Recorded(u, q) /\ base[u] \in Nat /\ base[u] <= commits
      BY <2>1, RecordedTypes DEF CauseInv, Recorded
    <3>2. HalfPublished(q) => HalfPublished(q)' \/ commits' = commits + 1
      BY <2>1 DEF HalfPublished, Publishing, Written
    <3> QED BY <2>1, <3>1, <3>2 DEF HasCause
  <2>3. \A u \in Threads, q \in Refs : pc'[u] = "idle" => Recorded(u, q)' = {}
    BY <2>1 DEF CauseInv, Recorded
  <2>4. ConflictHasCause'
    BY <2>1 DEF CauseInv, ConflictHasCause, TypeInv, TypeOK
  <2>5. \A u \in Threads : base'[u] <= commits'
    BY <2>1 DEF CauseInv, TypeInv, TypeOK
  <2> QED BY <2>2, <2>3, <2>4, <2>5 DEF CauseInv
<1>7. ASSUME NEW t \in Threads,
             \/ CollectAndSort(t) \/ LocksTaken(t) \/ CommutesApplied(t) \/ NotifyWatches(t)
             \/ \E r \in Refs : AcquireLock(t, r)
      PROVE  CauseInv'
  <2>1. /\ UNCHANGED <<txnVars, ver, unwritten, seen, commits, base, fate>>
        /\ pc'[t] \notin {"idle", "release"} /\ (Publishing(t) => Publishing(t)')
        /\ \A u \in Threads \ {t} : pc'[u] = pc[u]
    BY <1>7 DEF CollectAndSort, LocksTaken, CommutesApplied, NotifyWatches, AcquireLock,
                Publishing, TypeInv, TypeOK
  <2>2. \A r \in Refs : Recorded(t, r)' = Recorded(t, r)
    BY <2>1 DEF Recorded
  <2> QED BY <2>1, <2>2, CauseFrame DEF SameTables, Written
<1>8. ASSUME NEW t \in Threads, NEW r \in Refs, ApplyCommute(t, r) \/ WriteValue(t, r) \/ ReleaseLock(t, r)
      PROVE  CauseInv'
  <2>1. /\ UNCHANGED <<readSet, ensureSet, ver, seen, commits, base, fate>>
        /\ pc'[t] # "idle" /\ (pc'[t] = "release" => pc[t] = "release")
        /\ Publishing(t) => /\ Publishing(t)' /\ writeSet'[t] = writeSet[t]
                            /\ unwritten'[t] \subseteq unwritten[t]
    BY <1>8 DEF ApplyCommute, WriteValue, ReleaseLock, Publishing, TypeInv, TypeOK
  <2>2. \A u \in Threads \ {t} : SameTables(u) /\ pc'[u] = pc[u]
    BY <1>8 DEF ApplyCommute, WriteValue, ReleaseLock, SameTables, TypeInv, TypeOK
  <2>3. \A q \in Refs : Recorded(t, q)' = Recorded(t, q)
    BY <2>1 DEF Recorded
  <2>4. pc'[t] = "release" /\ fate'[t] = "conflict" => commits > base'[t]
    BY <2>1 DEF CauseInv, ConflictHasCause
  <2> QED BY <2>1, <2>2, <2>3, <2>4, CauseFrame DEF Written
<1>9. ASSUME NEW t \in Threads, Validators(t) PROVE CauseInv'
  <2>1. /\ pc[t] = "validators" /\ pc'[t] \in {"write", "release"}
        /\ pc'[t] = "release" => fate'[t] = "error"
        /\ \A u \in Threads \ {t} : /\ pc'[u] = pc[u] /\ fate'[u] = fate[u]
                                   /\ unwritten'[u] = unwritten[u]
        /\ UNCHANGED <<txnVars, ver, seen, commits, base>>
    BY <1>9 DEF Validators, TypeInv, TypeOK
  <2>2. \A r \in Refs : Recorded(t, r)' = Recorded(t, r)
    BY <2>1 DEF Recorded
  <2> QED BY <2>1, <2>2, CauseFrame DEF SameTables, Publishing
<1>10. ASSUME MoveObjects \/ UNCHANGED vars PROVE CauseInv'
  BY <1>10 DEF MoveObjects, CauseInv, HasCause, Recorded, HalfPublished, Publishing, Written,
               ConflictHasCause
<1> QED
  BY <1>1, <1>2, <1>3, <1>4, <1>5, <1>6, <1>7, <1>8, <1>9, <1>10
  DEF Next, Step, TryCommit, Finished

(* A conflict that makes dosync retry has a cause, whatever the threads and *)
(* refs: another commit was published while the attempt was running.        *)
THEOREM RetriesHaveCause == Spec => []ConflictHasCause
<1>1. CauseInv => ConflictHasCause
  BY DEF CauseInv
<1> QED BY <1>1, TypeInit, TypeStep, LockInit, LockStep, CauseInit, CauseStep, PTL DEF Spec
=============================================================================
