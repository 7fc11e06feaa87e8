-------------------------------- MODULE Stm --------------------------------
(***************************************************************************)
(* Refs and dosync transactions, src/src/mutable.lisp.                     *)
(*                                                                         *)
(* Every access to a ref's value, version or lock is a step of its own;    *)
(* a transaction's four hash tables are thread-local and change in the     *)
(* step that computes their entry.  A hash table is a total function whose *)
(* absent entries are NIL (<<>> for the commute table, a table of lists).  *)
(***************************************************************************)
EXTENDS Integers, Sequences, FiniteSets

CONSTANTS Threads,       \* the threads that run dosync
          Refs,          \* the refs of the program
          Values,        \* what a ref may hold
          Fns,           \* the functions passed to alter and commute
          Accepts,       \* Accepts[r]: the values the validator of r accepts
          FaultyWatch,   \* refs with a watch function that may signal an error
          MovingGC,      \* does the collector move refs while transactions run?
          Ops,           \* the operations that bodies use
          MaxOps,        \* operations of one execution of a body
          MaxDosyncs,    \* dosync forms that one thread runs
          MaxRetries,    \* *max-stm-retries*
          NIL            \* an absent hash table entry, an unowned lock

OpNames == {"deref", "ref-set", "alter", "commute", "ensure"}

ASSUME FnsAssumption == Fns \subseteq [Values -> Values]
ASSUME AcceptsAssumption == Accepts \in [Refs -> SUBSET Values]
ASSUME FlagAssumption == MovingGC \in BOOLEAN
ASSUME OpsAssumption == Ops \subseteq OpNames
ASSUME BoundsAssumption == MaxOps \in Nat /\ MaxDosyncs \in Nat /\ MaxRetries \in Nat
ASSUME NILAssumption == NIL \notin Values /\ NIL \notin Threads /\ NIL \notin Nat

VARIABLES
  val, ver, owner,      \* ref-value, ref-version, and the holder of ref-lock
  addr,                 \* the memory address of every ref
  pc,                   \* where each thread is in dosync and %try-commit
  readSet, writeSet, commuteSet, ensureSet,   \* the transaction of each thread
  call,                 \* the operation whose deref is in progress
  sortKey, toLock,      \* the addresses sorted-refs was sorted by, the refs left
  unwritten,            \* refs of the write-set that phase 6 has not reached
  cur,                  \* the ref that phase 6 is publishing
  fate,                 \* how %try-commit leaves its unwind-protect form
  retries, ops, dosyncs,\* the counter of the retry loop, and the two bounds
  seen,                 \* history: the values the body has read, per ref
  commits, base,        \* history: commits published, their number when the
                        \*   running attempt of each thread began
  last                  \* history: reads and writes of the commit of each thread

refVars  == <<val, ver>>
txnVars  == <<readSet, writeSet, commuteSet, ensureSet>>
loopVars == <<retries, ops, dosyncs>>
histVars == <<seen, commits, base, last>>
lockVars == <<owner, sortKey, toLock>>
pubVars  == <<unwritten, cur>>
vars == <<refVars, lockVars, addr, pc, txnVars, call, pubVars, fate, loopVars, histVars>>

PCs == {"idle", "body", "ensured", "value", "lock", "validate", "commute",
        "validators", "write", "bump", "watch", "release"}
Fates == {"success", "conflict", "error"}
Addresses == [Refs -> 1..Cardinality(Refs)]
Calls == [op : OpNames \cup {"none"}, ref : Refs \cup {NIL}, fn : Fns \cup {NIL}]
NoCall == [op |-> "none", ref |-> NIL, fn |-> NIL]
Footprints == [reads : [Refs -> SUBSET Values],
               writes : [Refs -> Values \cup {NIL}]]
NoFootprint == [reads |-> [r \in Refs |-> {}], writes |-> [r \in Refs |-> NIL]]

(* The refs of the four tables: %collect-all-refs. *)
AllRefs(t) == {r \in Refs : \/ readSet[t][r] # NIL
                            \/ writeSet[t][r] # NIL
                            \/ commuteSet[t][r] # <<>>
                            \/ ensureSet[t][r] # NIL}

Written(t) == {r \in Refs : writeSet[t][r] # NIL}

Distinct(a) == \A r, q \in Refs : a[r] = a[q] => r = q

-----------------------------------------------------------------------------
Init ==
  /\ val \in {v \in [Refs -> Values] : \A r \in Refs : v[r] \in Accepts[r]}
  /\ ver = [r \in Refs |-> 0]
  /\ owner = [r \in Refs |-> NIL]
  /\ addr \in {a \in Addresses : Distinct(a)}
  /\ pc = [t \in Threads |-> "idle"]
  /\ readSet = [t \in Threads |-> [r \in Refs |-> NIL]]
  /\ writeSet = [t \in Threads |-> [r \in Refs |-> NIL]]
  /\ commuteSet = [t \in Threads |-> [r \in Refs |-> <<>>]]
  /\ ensureSet = [t \in Threads |-> [r \in Refs |-> NIL]]
  /\ call = [t \in Threads |-> NoCall]
  /\ sortKey = [t \in Threads |-> addr]
  /\ toLock = [t \in Threads |-> {}]
  /\ unwritten = [t \in Threads |-> {}]
  /\ cur = [t \in Threads |-> NIL]
  /\ fate = [t \in Threads |-> "success"]
  /\ retries = [t \in Threads |-> 0]
  /\ ops = [t \in Threads |-> 0]
  /\ dosyncs = [t \in Threads |-> 0]
  /\ seen = [t \in Threads |-> [r \in Refs |-> {}]]
  /\ commits = 0
  /\ base = [t \in Threads |-> 0]
  /\ last = [t \in Threads |-> NoFootprint]

-----------------------------------------------------------------------------
(* The retry loop of dosync: every attempt binds a fresh transaction, and   *)
(* what an attempt has gathered is forgotten when it is over.               *)

FreshTransaction(t) ==
  /\ readSet' = [readSet EXCEPT ![t] = [r \in Refs |-> NIL]]
  /\ writeSet' = [writeSet EXCEPT ![t] = [r \in Refs |-> NIL]]
  /\ commuteSet' = [commuteSet EXCEPT ![t] = [r \in Refs |-> <<>>]]
  /\ ensureSet' = [ensureSet EXCEPT ![t] = [r \in Refs |-> NIL]]
  /\ ops' = [ops EXCEPT ![t] = 0]
  /\ seen' = [seen EXCEPT ![t] = [r \in Refs |-> {}]]

Dosync(t) ==
  /\ pc[t] = "idle"
  /\ dosyncs[t] < MaxDosyncs
  /\ dosyncs' = [dosyncs EXCEPT ![t] = @ + 1]
  /\ base' = [base EXCEPT ![t] = commits]
  /\ pc' = [pc EXCEPT ![t] = "body"]
  /\ UNCHANGED <<refVars, lockVars, addr, txnVars, call, pubVars, fate, retries, ops,
                 seen, commits, last>>

(* Control leaves dosync: *current-transaction* is unbound again. *)
LeaveDosync(t) ==
  /\ FreshTransaction(t)
  /\ pc' = [pc EXCEPT ![t] = "idle"]
  /\ retries' = [retries EXCEPT ![t] = 0]
  /\ unwritten' = [unwritten EXCEPT ![t] = {}]
  /\ fate' = [fate EXCEPT ![t] = "success"]
  /\ base' = [base EXCEPT ![t] = 0]
  /\ last' = [last EXCEPT ![t] = NoFootprint]

(* An error out of the body unwinds dosync. *)
BodyError(t) ==
  /\ pc[t] = "body"
  /\ LeaveDosync(t)
  /\ UNCHANGED <<refVars, lockVars, addr, call, cur, dosyncs, commits>>

-----------------------------------------------------------------------------
(* The operations of a body.  deref of a ref that the write-set does not   *)
(* hold reads the version (once per transaction) and then the value, in    *)
(* two steps; what the operation does with the value follows in the second.*)

StartsOp(t, op) == /\ pc[t] = "body"
                   /\ op \in Ops
                   /\ ops[t] < MaxOps
                   /\ ops' = [ops EXCEPT ![t] = @ + 1]

(* What op does with the value that its deref has returned. *)
Finish(t, c, v) ==
  /\ writeSet' = IF c.op = "alter" THEN [writeSet EXCEPT ![t][c.ref] = c.fn[v]]
                                   ELSE writeSet
  /\ call' = [call EXCEPT ![t] = NoCall]
  /\ pc' = [pc EXCEPT ![t] = "body"]

(* Mutant: deref records the version at every read, not at the first. *)
BeginDerefRerecords(t, c) ==
  \/ /\ writeSet[t][c.ref] # NIL
     /\ Finish(t, c, writeSet[t][c.ref])
     /\ UNCHANGED readSet
  \/ /\ writeSet[t][c.ref] = NIL
     /\ readSet' = [readSet EXCEPT ![t][c.ref] = ver[c.ref]]
     /\ call' = [call EXCEPT ![t] = c]
     /\ pc' = [pc EXCEPT ![t] = "value"]
     /\ UNCHANGED writeSet

(* The first half of deref: the write-set, else the version of r. *)
BeginDeref(t, c) ==
  \/ /\ writeSet[t][c.ref] # NIL
     /\ Finish(t, c, writeSet[t][c.ref])
     /\ UNCHANGED readSet
  \/ /\ writeSet[t][c.ref] = NIL
     /\ readSet' = IF readSet[t][c.ref] = NIL
                   THEN [readSet EXCEPT ![t][c.ref] = ver[c.ref]] ELSE readSet
     /\ call' = [call EXCEPT ![t] = c]
     /\ pc' = [pc EXCEPT ![t] = "value"]
     /\ UNCHANGED writeSet

Deref(t, r) ==
  /\ StartsOp(t, "deref")
  /\ BeginDeref(t, [op |-> "deref", ref |-> r, fn |-> NIL])
  /\ UNCHANGED <<refVars, lockVars, addr, commuteSet, ensureSet, pubVars, fate,
                 retries, dosyncs, histVars>>

RefSet(t, r, v) ==
  /\ StartsOp(t, "ref-set")
  /\ writeSet' = [writeSet EXCEPT ![t][r] = v]
  /\ UNCHANGED <<refVars, lockVars, addr, pc, readSet, commuteSet, ensureSet, call,
                 pubVars, fate, retries, dosyncs, histVars>>

Alter(t, r, f) ==
  /\ StartsOp(t, "alter")
  /\ BeginDeref(t, [op |-> "alter", ref |-> r, fn |-> f])
  /\ UNCHANGED <<refVars, lockVars, addr, commuteSet, ensureSet, pubVars, fate,
                 retries, dosyncs, histVars>>

(* The list is pushed and reversed in phase 4: a queue. *)
Commute(t, r, f) ==
  /\ StartsOp(t, "commute")
  /\ commuteSet' = [commuteSet EXCEPT ![t][r] = Append(@, f)]
  /\ BeginDeref(t, [op |-> "commute", ref |-> r, fn |-> f])
  /\ UNCHANGED <<refVars, lockVars, addr, ensureSet, pubVars, fate,
                 retries, dosyncs, histVars>>

(* Mutant: ensure records the version that the next commit will make. *)
EnsureOffByOne(t, r) ==
  /\ StartsOp(t, "ensure")
  /\ ensureSet' = [ensureSet EXCEPT ![t][r] = ver[r] + 1]
  /\ call' = [call EXCEPT ![t] = [op |-> "ensure", ref |-> r, fn |-> NIL]]
  /\ pc' = [pc EXCEPT ![t] = "ensured"]
  /\ UNCHANGED <<refVars, lockVars, addr, readSet, writeSet, commuteSet, pubVars, fate,
                 retries, dosyncs, histVars>>

Ensure(t, r) ==
  /\ StartsOp(t, "ensure")
  /\ ensureSet' = IF ensureSet[t][r] = NIL
                  THEN [ensureSet EXCEPT ![t][r] = ver[r]] ELSE ensureSet
  /\ call' = [call EXCEPT ![t] = [op |-> "ensure", ref |-> r, fn |-> NIL]]
  /\ pc' = [pc EXCEPT ![t] = "ensured"]
  /\ UNCHANGED <<refVars, lockVars, addr, readSet, writeSet, commuteSet, pubVars, fate,
                 retries, dosyncs, histVars>>

EnsureDeref(t) ==
  /\ pc[t] = "ensured"
  /\ BeginDeref(t, call[t])
  /\ UNCHANGED <<refVars, lockVars, addr, commuteSet, ensureSet, pubVars, fate,
                 loopVars, histVars>>

(* The second half of deref: ref-value. *)
DerefValue(t) ==
  /\ pc[t] = "value"
  /\ LET r == call[t].ref
     IN  /\ seen' = [seen EXCEPT ![t][r] = @ \cup {val[r]}]
         /\ Finish(t, call[t], val[r])
  /\ UNCHANGED <<refVars, lockVars, addr, readSet, commuteSet, ensureSet, pubVars, fate,
                 loopVars, commits, base, last>>

BodyOp(t) == \/ \E r \in Refs : Deref(t, r) \/ Ensure(t, r)
             \/ \E r \in Refs, v \in Values : RefSet(t, r, v)
             \/ \E r \in Refs, f \in Fns : Alter(t, r, f) \/ Commute(t, r, f)
             \/ EnsureDeref(t)
             \/ DerefValue(t)

-----------------------------------------------------------------------------
(* %try-commit.  Phase 1 takes the locks in the order of the addresses     *)
(* that sort saw.                                                          *)

CollectAndSort(t) ==
  /\ pc[t] = "body"
  /\ toLock' = [toLock EXCEPT ![t] = AllRefs(t)]
  /\ sortKey' = [sortKey EXCEPT ![t] = addr]
  /\ pc' = [pc EXCEPT ![t] = "lock"]
  /\ UNCHANGED <<refVars, owner, addr, txnVars, call, pubVars, fate, loopVars, histVars>>

(* Mutant: the locks are taken in the order of the hash table. *)
IsNextLockUnsorted(t, r) == r \in toLock[t]

(* The next ref of sorted-refs. *)
IsNextLock(t, r) == /\ r \in toLock[t]
                    /\ \A q \in toLock[t] : sortKey[t][r] <= sortKey[t][q]

AcquireLock(t, r) ==
  /\ pc[t] = "lock"
  /\ IsNextLock(t, r)
  /\ owner[r] = NIL
  /\ owner' = [owner EXCEPT ![r] = t]
  /\ toLock' = [toLock EXCEPT ![t] = @ \ {r}]
  /\ UNCHANGED <<refVars, sortKey, addr, pc, txnVars, call, pubVars, fate, loopVars, histVars>>

LocksTaken(t) ==
  /\ pc[t] = "lock"
  /\ toLock[t] = {}
  /\ pc' = [pc EXCEPT ![t] = "validate"]
  /\ UNCHANGED <<refVars, lockVars, addr, txnVars, call, pubVars, fate, loopVars, histVars>>

(* Phases 2 and 3. *)
Unchanged(t) == \A r \in Refs : /\ readSet[t][r] \in {NIL, ver[r]}
                                /\ ensureSet[t][r] \in {NIL, ver[r]}

Validate(t) ==
  /\ pc[t] = "validate"
  /\ IF Unchanged(t)
     THEN pc' = [pc EXCEPT ![t] = "commute"] /\ UNCHANGED fate
     ELSE /\ pc' = [pc EXCEPT ![t] = "release"]
          /\ fate' = [fate EXCEPT ![t] = "conflict"]
  /\ UNCHANGED <<refVars, lockVars, addr, txnVars, call, pubVars, loopVars, histVars>>

(* Phase 4, one application at a time: to the transaction's own value of   *)
(* the ref if it has one, else to the committed value.                     *)
Latest(t, r) == IF writeSet[t][r] # NIL THEN writeSet[t][r] ELSE val[r]

ApplyCommute(t, r) ==
  /\ pc[t] = "commute"
  /\ commuteSet[t][r] # <<>>
  /\ writeSet' = [writeSet EXCEPT ![t][r] = Head(commuteSet[t][r])[Latest(t, r)]]
  /\ commuteSet' = [commuteSet EXCEPT ![t][r] = Tail(@)]
  /\ UNCHANGED <<refVars, lockVars, addr, pc, readSet, ensureSet, call, pubVars, fate,
                 loopVars, histVars>>

CommutesApplied(t) ==
  /\ pc[t] = "commute"
  /\ \A r \in Refs : commuteSet[t][r] = <<>>
  /\ pc' = [pc EXCEPT ![t] = "validators"]
  /\ UNCHANGED <<refVars, lockVars, addr, txnVars, call, pubVars, fate, loopVars, histVars>>

(* Mutant: a rejected value is left out and the others are published.       *)
ValidatorsPerRef(t) ==
  /\ pc[t] = "validators"
  /\ pc' = [pc EXCEPT ![t] = "write"]
  /\ last' = [last EXCEPT ![t] = [reads |-> seen[t], writes |-> writeSet[t]]]
  /\ unwritten' = [unwritten EXCEPT
                     ![t] = {r \in Written(t) : writeSet[t][r] \in Accepts[r]}]
  /\ UNCHANGED <<refVars, lockVars, addr, txnVars, call, cur, fate, loopVars, seen, commits, base>>

(* Phase 5: a validator that rejects a value leaves by an error, with      *)
(* nothing written; otherwise the transaction is bound to commit.          *)
Validators(t) ==
  /\ pc[t] = "validators"
  /\ IF \A r \in Written(t) : writeSet[t][r] \in Accepts[r]
     THEN /\ pc' = [pc EXCEPT ![t] = "write"]
          /\ last' = [last EXCEPT ![t] = [reads |-> seen[t], writes |-> writeSet[t]]]
          /\ UNCHANGED fate
     ELSE /\ pc' = [pc EXCEPT ![t] = "release"]
          /\ fate' = [fate EXCEPT ![t] = "error"]
          /\ UNCHANGED last
  /\ unwritten' = [unwritten EXCEPT ![t] = Written(t)]
  /\ UNCHANGED <<refVars, lockVars, addr, txnVars, call, cur, loopVars, seen, commits, base>>

(* Phase 6: value, version, watches, ref after ref. *)
WriteValue(t, r) ==
  /\ pc[t] = "write"
  /\ r \in unwritten[t]
  /\ val' = [val EXCEPT ![r] = writeSet[t][r]]
  /\ unwritten' = [unwritten EXCEPT ![t] = @ \ {r}]
  /\ cur' = [cur EXCEPT ![t] = r]
  /\ pc' = [pc EXCEPT ![t] = "bump"]
  /\ UNCHANGED <<ver, lockVars, addr, txnVars, call, fate, loopVars, histVars>>

BumpVersion(t) ==
  /\ pc[t] = "bump"
  /\ ver' = [ver EXCEPT ![cur[t]] = @ + 1]
  /\ pc' = [pc EXCEPT ![t] = "watch"]
  /\ UNCHANGED <<val, lockVars, addr, txnVars, call, pubVars, fate, loopVars, histVars>>

NotifyWatches(t) ==
  /\ pc[t] = "watch"
  /\ cur' = [cur EXCEPT ![t] = NIL]
  /\ pc' = [pc EXCEPT ![t] = "write"]
  /\ UNCHANGED <<refVars, lockVars, addr, txnVars, call, unwritten, fate, loopVars, histVars>>

(* A watch function signals an error: it unwinds %try-commit. *)
WatchError(t) ==
  /\ pc[t] = "watch"
  /\ cur[t] \in FaultyWatch
  /\ cur' = [cur EXCEPT ![t] = NIL]
  /\ fate' = [fate EXCEPT ![t] = "error"]
  /\ pc' = [pc EXCEPT ![t] = "release"]
  /\ commits' = commits + 1
  /\ UNCHANGED <<refVars, lockVars, addr, txnVars, call, unwritten, loopVars, seen, base, last>>

Published(t) ==
  /\ pc[t] = "write"
  /\ unwritten[t] = {}
  /\ fate' = [fate EXCEPT ![t] = "success"]
  /\ pc' = [pc EXCEPT ![t] = "release"]
  /\ commits' = IF Written(t) = {} THEN commits ELSE commits + 1
  /\ UNCHANGED <<refVars, lockVars, addr, txnVars, call, pubVars, loopVars, seen, base, last>>

(* The cleanup form: the locks in reverse order of acquisition. *)
Held(t) == {r \in Refs : owner[r] = t}

(* Mutant: a commit that ends with an error does not reach the cleanup form. *)
ReleaseLockUnlessError(t, r) ==
  /\ pc[t] = "release" /\ fate[t] # "error"
  /\ r \in Held(t)
  /\ owner' = [owner EXCEPT ![r] = NIL]
  /\ UNCHANGED <<refVars, sortKey, toLock, addr, pc, txnVars, call, pubVars, fate,
                 loopVars, histVars>>

ReleaseLock(t, r) ==
  /\ pc[t] = "release"
  /\ r \in Held(t)
  /\ \A q \in Held(t) : sortKey[t][q] <= sortKey[t][r]
  /\ owner' = [owner EXCEPT ![r] = NIL]
  /\ UNCHANGED <<refVars, sortKey, toLock, addr, pc, txnVars, call, pubVars, fate,
                 loopVars, histVars>>

(* dosync returns the result, or lets the error through. *)
Return(t) ==
  /\ pc[t] = "release"
  /\ Held(t) = {}
  /\ fate[t] \in {"success", "error"}
  /\ LeaveDosync(t)
  /\ UNCHANGED <<refVars, lockVars, addr, call, cur, dosyncs, commits>>

(* A conflict: the next turn of the loop, with a fresh transaction. *)
Retry(t) ==
  /\ pc[t] = "release"
  /\ Held(t) = {}
  /\ fate[t] = "conflict"
  /\ retries[t] + 1 <= MaxRetries
  /\ retries' = [retries EXCEPT ![t] = @ + 1]
  /\ FreshTransaction(t)
  /\ base' = [base EXCEPT ![t] = commits]
  /\ pc' = [pc EXCEPT ![t] = "body"]
  /\ UNCHANGED <<refVars, lockVars, addr, call, pubVars, fate, dosyncs, commits, last>>

(* "STM transaction exceeded ~D retries." *)
GiveUp(t) ==
  /\ pc[t] = "release"
  /\ Held(t) = {}
  /\ fate[t] = "conflict"
  /\ retries[t] + 1 > MaxRetries
  /\ LeaveDosync(t)
  /\ UNCHANGED <<refVars, lockVars, addr, call, cur, dosyncs, commits>>

TryCommit(t) == \/ CollectAndSort(t) \/ LocksTaken(t) \/ Validate(t)
                \/ CommutesApplied(t) \/ Validators(t)
                \/ BumpVersion(t) \/ NotifyWatches(t) \/ WatchError(t)
                \/ Published(t)
                \/ \E r \in Refs : \/ AcquireLock(t, r) \/ ApplyCommute(t, r)
                                   \/ WriteValue(t, r) \/ ReleaseLock(t, r)

(* SBCL's collector copies live objects: their addresses change. *)
MoveObjects ==
  /\ MovingGC
  /\ addr' \in {a \in Addresses : Distinct(a)}
  /\ UNCHANGED <<refVars, lockVars, pc, txnVars, call, pubVars, fate, loopVars, histVars>>

(* Every thread has run its dosync forms. *)
Finished == /\ \A t \in Threads : pc[t] = "idle" /\ dosyncs[t] = MaxDosyncs
            /\ UNCHANGED vars

Step(t) == \/ Dosync(t) \/ BodyError(t) \/ BodyOp(t)
           \/ TryCommit(t) \/ Return(t) \/ Retry(t) \/ GiveUp(t)

Next == \/ \E t \in Threads : Step(t)
        \/ MoveObjects
        \/ Finished

Spec == Init /\ [][Next]_vars

(* The operating system keeps running every thread that is not blocked. *)
FairSpec == Spec /\ \A t \in Threads : WF_vars(Step(t))

-----------------------------------------------------------------------------
(* Properties. *)

(* Every variable stays in its type; the versions of a transaction's tables *)
(* are numbers, its new values values.                                      *)
TypeOK ==
  /\ val \in [Refs -> Values]
  /\ ver \in [Refs -> Nat]
  /\ owner \in [Refs -> Threads \cup {NIL}]
  /\ addr \in Addresses
  /\ pc \in [Threads -> PCs]
  /\ readSet \in [Threads -> [Refs -> Nat \cup {NIL}]]
  /\ writeSet \in [Threads -> [Refs -> Values \cup {NIL}]]
  /\ commuteSet \in [Threads -> [Refs -> Seq(Fns)]]
  /\ ensureSet \in [Threads -> [Refs -> Nat \cup {NIL}]]
  /\ call \in [Threads -> Calls]
  /\ sortKey \in [Threads -> Addresses]
  /\ toLock \in [Threads -> SUBSET Refs]
  /\ unwritten \in [Threads -> SUBSET Refs]
  /\ cur \in [Threads -> Refs \cup {NIL}]
  /\ fate \in [Threads -> Fates]
  /\ retries \in [Threads -> Nat]
  /\ ops \in [Threads -> Nat]
  /\ dosyncs \in [Threads -> Nat]
  /\ seen \in [Threads -> [Refs -> SUBSET Values]]
  /\ commits \in Nat
  /\ base \in [Threads -> Nat]
  /\ last \in [Threads -> Footprints]

(* Past validation, until it publishes a ref, a transaction stands on values *)
(* that are still the committed ones: the version check of phases 2 and 3   *)
(* catches every write that any read of the body could have missed, though  *)
(* deref reads version and value in two unsynchronised steps and records    *)
(* only the first version.                                                  *)
Committing(t) == pc[t] \in {"commute", "validators", "write", "bump", "watch"}
Publishing(t) == pc[t] \in {"write", "bump", "watch"}

Unpublished(t) == IF Publishing(t) THEN Refs \ (Written(t) \ unwritten[t]) ELSE Refs

ReadsCurrent == \A t \in Threads : Committing(t) =>
                  \A r \in Unpublished(t) : seen[t][r] \subseteq {val[r]}

(* A commit publishes only refs whose lock it holds, although the lock set  *)
(* is collected before phase 4 adds the commuted refs to the write-set.     *)
PublishesOwnLocks == \A t \in Threads : Publishing(t) =>
                       /\ \A r \in Written(t) : owner[r] = t
                       /\ pc[t] # "write" => owner[cur[t]] = t

(* Locks are taken in the order of addresses, "a stable sort key"            *)
(* (mutable.lisp:304): so no cycle of waits closes among threads that sorted *)
(* alike.  The claim is wrong when the collector moves refs: two threads may *)
(* then have sorted them differently, and only then can commits wait for     *)
(* each other.  The exception is in the formula: a cycle has two threads     *)
(* with opposite orders, however the collector moves objects meanwhile.      *)
WaitsFor(t, u) == pc[t] = "lock" /\ \E r \in Refs : IsNextLock(t, r) /\ owner[r] = u
WaitCycle(S) == S # {} /\ \A t \in S : \E u \in S : WaitsFor(t, u)
OppositeOrders(t, u) == \E q, r \in Refs : sortKey[t][q] < sortKey[t][r] /\ sortKey[u][r] < sortKey[u][q]

NoWaitCycle == \A S \in SUBSET Threads :
                 WaitCycle(S) => \E t, u \in S : OppositeOrders(t, u)

(* A retry has a cause: another commit was published while the attempt that *)
(* fails was running, so dosync cannot spin on its own.                     *)
ConflictHasCause == \A t \in Threads :
                      pc[t] = "release" /\ fate[t] = "conflict" => commits > base[t]

(* The store as AtomicRefs sees it: a ref that a validated commit has still *)
(* to publish already has its new value.                                    *)
AboutToPublish(r) == /\ owner[r] \in Threads
                     /\ Publishing(owner[r])
                     /\ r \in unwritten[owner[r]]

AbsStore == [r \in Refs |-> IF AboutToPublish(r) THEN writeSet[owner[r]][r] ELSE val[r]]

(* Every transaction takes effect at one instant, when its validators have  *)
(* accepted: none of its reads is stale then and all its writes appear.     *)
Atomic == INSTANCE AtomicRefs WITH store <- AbsStore, last <- last
AtomicTransactions == Atomic!Spec

(* Every dosync ends: it commits, lets an error through or gives up, unless *)
(* threads that sorted in opposite orders wait for each other; whatever     *)
(* watches fail, the locks are freed.                                       *)
Deadlocked == \E S \in SUBSET Threads : WaitCycle(S) /\ \E t, u \in S : OppositeOrders(t, u)
DosyncEnds == \A t \in Threads : (pc[t] # "idle") ~> (pc[t] = "idle" \/ Deadlocked)

(* The same without the exception, which the code claims with "a stable     *)
(* sort key" (mutable.lisp:304) and does not keep when objects move.        *)
DeadlockFree == ~Deadlocked
=============================================================================
