----------------------------- MODULE AtomProofs -----------------------------
(***************************************************************************)
(* What an atom's compare-and-swap loops guarantee for any number of       *)
(* threads, calls, values and watch keys: no swap is lost, and no edit of  *)
(* the watch list.  A loop holds a copy of what it read; the invariant     *)
(* says what that copy is worth when the compare-and-swap succeeds.        *)
(***************************************************************************)
EXTENDS Atom, TLAPS

\* A call on the value carries a number to store, and only reset! stores unconditionally.
ArgsInv == \A t \in Threads :
             /\ call[t].at \in {"read", "validate", "reset-read", "reset-write", "cas", "notify"}
                  => call[t].new \in Nat
             /\ call[t].at \in {"reset-read", "reset-write"} => call[t].op = "reset"

\* A swap that has computed its new value computed it from the old one it compares with.
SwapInv == \A t \in Threads :
             (call[t].op = "swap" /\ call[t].at \in {"validate", "cas"})
               => call[t].new = call[t].old + 1

\* A call that edits the watch list and still has the present version has the present list.
ListInv == \A t \in Threads :
             call[t].at = "watch-cas" =>
               /\ call[t].ver <= version
               /\ call[t].ver = version => call[t].list = watches
               /\ call[t].new \in Keys

KeyInv == \A t \in Threads : call[t].at = "watch-read" => call[t].new \in Keys

Inv == TypeOK /\ ArgsInv /\ SwapInv /\ ListInv /\ KeyInv /\ NoLostSwap /\ WatchesExact

\* The steps of one thread.
ThreadStep(t) ==
  \/ Reset(t) \/ Swap(t) \/ CompareAndSet(t) \/ ResetVals(t)
  \/ ReadOld(t) \/ Validate(t) \/ ResetRead(t) \/ ResetWrite(t) \/ Cas(t)
  \/ NotifyWatches(t)
  \/ AddWatch(t) \/ RemoveWatch(t) \/ ReadWatches(t) \/ CasWatches(t)
  \/ SetValidator(t)

\* A new atom has no calls, no swaps and no watches.
LEMMA InitInv == Init => Inv
<1> SUFFICES ASSUME Init PROVE Inv
  OBVIOUS
<1>1. \A t \in Threads : call[t] = Idle
  BY DEF Init
<1>2. TypeOK
  <2>1. call \in [Threads -> [op : Ops \cup {"none"}, at : Steps, old : Nat, new : Nat \cup Keys,
                             list : SUBSET Keys, ver : Nat]]
    BY DEF Init, Idle, Steps
  <2>2. replaced \in BOOLEAN
    BY DEF Init
  <2>3. QED
    BY <2>1, <2>2, AtomAssumption DEF Init, TypeOK
<1>3. ArgsInv /\ SwapInv /\ ListInv /\ KeyInv
  BY <1>1 DEF ArgsInv, SwapInv, ListInv, KeyInv, Idle
<1>4. NoLostSwap /\ WatchesExact
  BY DEF Init, NoLostSwap, WatchesExact
<1>5. QED
  BY <1>2, <1>3, <1>4 DEF Inv

\* A step that begins a call on the value keeps the invariant: it stores nothing, and
\* its call has computed nothing yet.
LEMMA BeginValueInv ==
  ASSUME Inv, NEW t \in Threads, NEW o, NEW label \in {"validate", "read"},
         NEW u \in Nat, NEW v \in Nat,
         o = "swap" => label = "read",
         Begin(t, o, label, u, v)
  PROVE Inv'
<1>1. /\ call' = [call EXCEPT ![t] = [op |-> o, at |-> label, old |-> u, new |-> v,
                                      list |-> {}, ver |-> 0]]
      /\ o \in Ops /\ calls < MaxCalls /\ calls' = calls + 1
      /\ UNCHANGED <<value, validator, watches, version, base, swaps, moves, told, wanted, replaced>>
  BY DEF Begin, Idle, history
<1>2. TypeOK'
  BY <1>1, AtomAssumption DEF Inv, TypeOK, Steps
<1>3. ArgsInv' /\ SwapInv' /\ ListInv' /\ KeyInv'
  BY <1>1 DEF Inv, TypeOK, ArgsInv, SwapInv, ListInv, KeyInv
<1>4. NoLostSwap' /\ WatchesExact'
  BY <1>1 DEF Inv, NoLostSwap, WatchesExact
<1>. QED  BY <1>2, <1>3, <1>4 DEF Inv

\* Likewise for a call on the watch list, whose argument is a key.
LEMMA BeginWatchInv ==
  ASSUME Inv, NEW t \in Threads, NEW o \in {"add-watch", "remove-watch"}, NEW k \in Keys,
         Begin(t, o, "watch-read", 0, k)
  PROVE Inv'
<1>1. /\ call' = [call EXCEPT ![t] = [op |-> o, at |-> "watch-read", old |-> 0, new |-> k,
                                      list |-> {}, ver |-> 0]]
      /\ o \in Ops /\ calls < MaxCalls /\ calls' = calls + 1
      /\ UNCHANGED <<value, validator, watches, version, base, swaps, moves, told, wanted, replaced>>
  BY DEF Begin, Idle, history
<1>2. TypeOK'
  BY <1>1, AtomAssumption DEF Inv, TypeOK, Steps
<1>3. ArgsInv' /\ SwapInv' /\ ListInv' /\ KeyInv'
  BY <1>1 DEF Inv, TypeOK, ArgsInv, SwapInv, ListInv, KeyInv
<1>4. NoLostSwap' /\ WatchesExact'
  BY <1>1 DEF Inv, NoLostSwap, WatchesExact
<1>. QED  BY <1>2, <1>3, <1>4 DEF Inv

\* A step that moves thread t on from one step of its call on the value to another, and
\* leaves everything else as it is, keeps the invariant.
LEMMA MoveInv ==
  ASSUME Inv, NEW t \in Threads, NEW label \in {"idle", "read", "reset-read", "cas"},
         \/ label = "idle"
         \/ label = "read" /\ call[t].at = "cas"
         \/ label = "reset-read" /\ call[t].at = "validate" /\ call[t].op = "reset"
         \/ label = "cas" /\ call[t].at = "validate",
         Goto(t, label),
         UNCHANGED <<value, validator, watches, version, calls, base, swaps, wanted, replaced>>
  PROVE Inv'
<1>1. call' = [call EXCEPT ![t].at = label]
  BY DEF Goto
<1>2. TypeOK'
  BY <1>1 DEF Inv, TypeOK, Steps
<1>3. ArgsInv' /\ SwapInv' /\ ListInv' /\ KeyInv'
  BY <1>1 DEF Inv, TypeOK, ArgsInv, SwapInv, ListInv, KeyInv
<1>4. NoLostSwap' /\ WatchesExact'
  BY DEF Inv, NoLostSwap, WatchesExact
<1>. QED  BY <1>2, <1>3, <1>4 DEF Inv

\* A store of the call's new value keeps the invariant, if for a swap the value is still
\* the one it read.
LEMMA StoreInv ==
  ASSUME Inv, NEW t \in Threads,
         call[t].at \in {"cas", "reset-write"},
         call[t].at = "cas" => value = call[t].old,
         Store(t, call[t].new), Goto(t, "notify"),
         UNCHANGED <<validator, watches, version, calls, told, wanted, replaced>>
  PROVE Inv'
<1>1. /\ call' = [call EXCEPT ![t].at = "notify"]
      /\ value' = call[t].new
      /\ \/ call[t].op = "swap" /\ swaps' = swaps + 1 /\ base' = base
         \/ call[t].op # "swap" /\ swaps' = 0 /\ base' = call[t].new
  BY DEF Goto, Store
<1>2. call[t].new \in Nat
  BY DEF Inv, ArgsInv
<1>3. TypeOK'
  BY <1>1, <1>2 DEF Inv, TypeOK, Steps
<1>4. ArgsInv' /\ SwapInv' /\ ListInv' /\ KeyInv'
  BY <1>1 DEF Inv, TypeOK, ArgsInv, SwapInv, ListInv, KeyInv
<1>5. NoLostSwap'
  <2>1. CASE call[t].op = "swap"
    <3>1. call[t].at = "cas"
      BY <2>1 DEF Inv, ArgsInv
    <3>2. call[t].new = call[t].old + 1 /\ value = call[t].old
      BY <2>1, <3>1 DEF Inv, SwapInv
    <3>. QED  BY <1>1, <2>1, <3>2 DEF Inv, TypeOK, NoLostSwap
  <2>2. CASE call[t].op # "swap"
    BY <1>1, <1>2, <2>2 DEF NoLostSwap
  <2>. QED  BY <2>1, <2>2
<1>6. WatchesExact'
  BY DEF Inv, WatchesExact
<1>. QED  BY <1>3, <1>4, <1>5, <1>6 DEF Inv

\* Every step of every thread keeps the invariant.
LEMMA StepInv == ASSUME Inv, [Next]_vars PROVE Inv'
<1>1. CASE UNCHANGED vars
  BY <1>1 DEF vars, history, Inv, TypeOK, ArgsInv, SwapInv, ListInv, KeyInv, NoLostSwap, WatchesExact
<1>2. ASSUME NEW t \in Threads, ThreadStep(t) PROVE Inv'
  <2>1. CASE Reset(t)
    BY <2>1, BeginValueInv, AtomAssumption DEF Reset
  <2>2. CASE Swap(t)
    BY <2>2, BeginValueInv DEF Swap
  <2>3. CASE CompareAndSet(t)
    BY <2>3, BeginValueInv, AtomAssumption DEF CompareAndSet
  <2>4. CASE ResetVals(t)
    BY <2>4, BeginValueInv, AtomAssumption DEF ResetVals
  <2>5. CASE ReadOld(t)
    <3>1. /\ call[t].at = "read"
          /\ call' = [call EXCEPT ![t].old = value, ![t].at = "validate",
                                  ![t].new = IF call[t].op = "swap" THEN value + 1 ELSE call[t].new]
          /\ UNCHANGED <<value, validator, watches, version, calls, base, swaps, wanted, replaced>>
      BY <2>5 DEF ReadOld, history
    <3>2. call[t].new \in Nat
      BY <3>1 DEF Inv, ArgsInv
    <3>3. TypeOK'
      BY <3>1, <3>2 DEF Inv, TypeOK, Steps
    <3>4. ArgsInv' /\ SwapInv' /\ ListInv' /\ KeyInv'
      BY <3>1, <3>2 DEF Inv, TypeOK, ArgsInv, SwapInv, ListInv, KeyInv
    <3>. QED  BY <3>1, <3>3, <3>4 DEF Inv, NoLostSwap, WatchesExact
  <2>6. CASE Validate(t)
    BY <2>6, MoveInv DEF Validate, history
  <2>7. CASE ResetRead(t)
    <3>1. /\ call[t].at = "reset-read"
          /\ call' = [call EXCEPT ![t].old = value, ![t].at = "reset-write"]
          /\ UNCHANGED <<value, validator, watches, version, calls, base, swaps, wanted, replaced>>
      BY <2>7 DEF ResetRead, history
    <3>2. TypeOK'
      BY <3>1 DEF Inv, TypeOK, Steps
    <3>3. ArgsInv' /\ SwapInv' /\ ListInv' /\ KeyInv'
      BY <3>1 DEF Inv, TypeOK, ArgsInv, SwapInv, ListInv, KeyInv
    <3>. QED  BY <3>1, <3>2, <3>3 DEF Inv, NoLostSwap, WatchesExact
  <2>8. CASE ResetWrite(t)
    BY <2>8, StoreInv DEF ResetWrite
  <2>9. CASE Cas(t)
    <3>1. CASE value = call[t].old
      BY <2>9, <3>1, StoreInv DEF Cas
    <3>2. CASE value # call[t].old
      BY <2>9, <3>2, MoveInv DEF Cas, history
    <3>. QED  BY <3>1, <3>2
  <2>10. CASE NotifyWatches(t)
    BY <2>10, MoveInv DEF NotifyWatches
  <2>11. CASE AddWatch(t)
    BY <2>11, BeginWatchInv DEF AddWatch
  <2>12. CASE RemoveWatch(t)
    BY <2>12, BeginWatchInv DEF RemoveWatch
  <2>13. CASE ReadWatches(t)
    <3>1. /\ call[t].at = "watch-read"
          /\ call' = [call EXCEPT ![t].list = watches, ![t].ver = version, ![t].at = "watch-cas"]
          /\ UNCHANGED <<value, validator, watches, version, calls, base, swaps, wanted, replaced>>
      BY <2>13 DEF ReadWatches, history
    <3>2. TypeOK'
      BY <3>1 DEF Inv, TypeOK, Steps
    <3>3. ArgsInv' /\ SwapInv' /\ ListInv' /\ KeyInv'
      BY <3>1 DEF Inv, TypeOK, ArgsInv, SwapInv, ListInv, KeyInv
    <3>. QED  BY <3>1, <3>2, <3>3 DEF Inv, NoLostSwap, WatchesExact
  <2>14. CASE CasWatches(t)
    <3>1. CASE version = call[t].ver
      <4>1. /\ call[t].at = "watch-cas"
            /\ watches' = Edited(t, call[t].list) /\ wanted' = Edited(t, wanted)
            /\ version' = version + 1
            /\ call' = [call EXCEPT ![t].at = "idle"]
            /\ UNCHANGED <<value, validator, calls, base, swaps, replaced>>
        BY <2>14, <3>1 DEF CasWatches, Goto
      <4>2. call[t].list = watches /\ call[t].new \in Keys
        BY <3>1, <4>1 DEF Inv, ListInv
      <4>3. watches' = wanted' /\ watches' \subseteq Keys
        BY <4>1, <4>2 DEF Inv, TypeOK, WatchesExact, Edited
      <4>4. TypeOK'
        BY <4>1, <4>3 DEF Inv, TypeOK, Steps
      <4>5. ArgsInv' /\ SwapInv' /\ KeyInv'
        BY <4>1 DEF Inv, TypeOK, ArgsInv, SwapInv, KeyInv
      <4>6. ListInv'
        BY <4>1 DEF Inv, TypeOK, ListInv
      <4>. QED  BY <4>1, <4>3, <4>4, <4>5, <4>6 DEF Inv, NoLostSwap, WatchesExact
    <3>2. CASE version # call[t].ver
      <4>1. /\ call[t].at = "watch-cas"
            /\ call' = [call EXCEPT ![t].at = "watch-read"]
            /\ UNCHANGED <<value, validator, watches, version, calls, base, swaps, wanted, replaced>>
        BY <2>14, <3>2 DEF CasWatches, Goto
      <4>2. TypeOK'
        BY <4>1 DEF Inv, TypeOK, Steps
      <4>3. ArgsInv' /\ SwapInv' /\ ListInv' /\ KeyInv'
        BY <4>1 DEF Inv, TypeOK, ArgsInv, SwapInv, ListInv, KeyInv
      <4>. QED  BY <4>1, <4>2, <4>3 DEF Inv, NoLostSwap, WatchesExact
    <3>. QED  BY <3>1, <3>2
  <2>15. CASE SetValidator(t)
    BY <2>15, AtomAssumption DEF SetValidator, history, Inv, TypeOK, ArgsInv, SwapInv, ListInv, KeyInv,
       NoLostSwap, WatchesExact
  <2>. QED
    BY <1>2, <2>1, <2>2, <2>3, <2>4, <2>5, <2>6, <2>7, <2>8, <2>9, <2>10, <2>11, <2>12, <2>13,
       <2>14, <2>15 DEF ThreadStep
<1>. QED  BY <1>1, <1>2 DEF Next, ThreadStep

\* The invariant holds in every reachable state.
LEMMA Invariance == Spec => []Inv
  BY InitInv, StepInv, PTL DEF Spec

\* The slots and the local variables of calls have their types.
THEOREM TypeCorrect == Spec => []TypeOK
<1>1. Inv => TypeOK
  BY DEF Inv
<1>. QED  BY <1>1, Invariance, PTL

\* swap!, swap-vals! and the loops beside them lose no swap, for any number of threads.
THEOREM SwapsCount == Spec => []NoLostSwap
<1>1. Inv => NoLostSwap
  BY DEF Inv
<1>. QED  BY <1>1, Invariance, PTL

\* add-watch and remove-watch lose no edit of an atom's watch list.
THEOREM WatchEditsCount == Spec => []WatchesExact
<1>1. Inv => WatchesExact
  BY DEF Inv
<1>. QED  BY <1>1, Invariance, PTL

-----------------------------------------------------------------------------
\* Until set-validator! is called, the value and every value about to be stored have been
\* accepted by the one validator there is.
ValidInv ==
  ~replaced =>
    /\ value \in validator
    /\ \A t \in Threads : call[t].at \in {"reset-read", "reset-write", "cas"} => call[t].new \in validator

\* A step keeps the accepted values accepted.
LEMMA ValidStep == ASSUME TypeOK, ValidInv, [Next]_vars PROVE ValidInv'
<1> SUFFICES ASSUME ~replaced' PROVE ValidInv'
  BY DEF ValidInv
<1>1. CASE UNCHANGED vars
  BY <1>1 DEF vars, history, ValidInv
<1>2. ASSUME NEW t \in Threads, ThreadStep(t) PROVE ValidInv'
  <2>1. ASSUME NEW o, NEW label \in {"validate", "read", "watch-read"}, NEW u, NEW v,
               Begin(t, o, label, u, v)
        PROVE ValidInv'
    BY <2>1 DEF Begin, history, TypeOK, ValidInv
  <2>2. CASE Reset(t) \/ Swap(t) \/ CompareAndSet(t) \/ ResetVals(t) \/ AddWatch(t) \/ RemoveWatch(t)
    BY <2>1, <2>2 DEF Reset, Swap, CompareAndSet, ResetVals, AddWatch, RemoveWatch
  <2>3. CASE ReadOld(t)
    BY <2>3 DEF ReadOld, history, TypeOK, ValidInv
  <2>4. CASE Validate(t)
    BY <2>4 DEF Validate, Goto, history, TypeOK, ValidInv
  <2>5. CASE ResetRead(t)
    BY <2>5 DEF ResetRead, history, TypeOK, ValidInv
  <2>6. CASE ResetWrite(t)
    BY <2>6 DEF ResetWrite, Store, Goto, TypeOK, ValidInv
  <2>7. CASE Cas(t)
    BY <2>7 DEF Cas, Store, Goto, history, TypeOK, ValidInv
  <2>8. CASE NotifyWatches(t)
    BY <2>8 DEF NotifyWatches, Goto, TypeOK, ValidInv
  <2>9. CASE ReadWatches(t)
    BY <2>9 DEF ReadWatches, history, TypeOK, ValidInv
  <2>10. CASE CasWatches(t)
    BY <2>10 DEF CasWatches, Goto, TypeOK, ValidInv
  <2>11. CASE SetValidator(t)
    BY <2>11 DEF SetValidator
  <2>. QED
    BY <1>2, <2>2, <2>3, <2>4, <2>5, <2>6, <2>7, <2>8, <2>9, <2>10, <2>11 DEF ThreadStep
<1>. QED  BY <1>1, <1>2 DEF Next, ThreadStep

\* No interleaving of reset!, swap! and compare-and-set! stores a value that the atom's
\* validator rejects, as long as set-validator! does not replace it.
THEOREM ValuesAccepted == Spec => []ValueValid
<1>1. Init => ValidInv
  BY DEF Init, ValidInv, Idle
<1>2. ValidInv => ValueValid
  BY DEF ValidInv, ValueValid
<1>. QED  BY <1>1, <1>2, ValidStep, TypeCorrect, PTL DEF Spec

-----------------------------------------------------------------------------
\* A call that is about to notify the watches has made the transition that it will tell
\* them of, and so had every call that has told them.
Made(o, old, new) == \E m \in moves : m[2] = new /\ (o # "reset" => m[1] = old)

ToldInv == /\ \A x \in told : Made(x.op, x.old, x.new)
           /\ \A t \in Threads : call[t].at = "notify" => Made(call[t].op, call[t].old, call[t].new)

\* A step that neither stores nor tells, and brings no call to notify-watches.
LEMMA ToldFrame ==
  ASSUME ToldInv, NEW t \in Threads, call'[t].at # "notify",
         \A u \in Threads \ {t} : call'[u] = call[u],
         UNCHANGED <<moves, told>>
  PROVE  ToldInv'
BY DEF ToldInv, Made

\* A store of t's new value, over the value it has read unless it is a reset!'s.
LEMMA ToldStore ==
  ASSUME TypeOK, ToldInv, NEW t \in Threads, Store(t, call[t].new), Goto(t, "notify"),
         call[t].op # "reset" => value = call[t].old, UNCHANGED told
  PROVE  ToldInv'
<1>1. moves' = moves \cup {<<value, call[t].new>>} /\ call' = [call EXCEPT ![t].at = "notify"]
  BY DEF Store, Goto
<1>2. \A o, a, b : Made(o, a, b) => Made(o, a, b)'
  BY <1>1 DEF Made
<1>3. Made(call[t].op, call[t].old, call[t].new)'
  <2>1. call'[t].op = call[t].op /\ call'[t].old = call[t].old /\ call'[t].new = call[t].new
    BY <1>1 DEF TypeOK
  <2>2. <<value, call[t].new>> \in moves' /\ <<value, call[t].new>>[1] = value
        /\ <<value, call[t].new>>[2] = call[t].new
    BY <1>1
  <2>. QED  BY <2>1, <2>2 DEF Made
<1>4. \A u \in Threads \ {t} : call'[u] = call[u]
  BY <1>1 DEF TypeOK
<1>5. ASSUME NEW x \in told' PROVE Made(x.op, x.old, x.new)'
  BY <1>2 DEF ToldInv
<1>6. ASSUME NEW u \in Threads, call'[u].at = "notify"
      PROVE  Made(call[u].op, call[u].old, call[u].new)'
  BY <1>2, <1>3, <1>4, <1>6 DEF ToldInv
<1>. QED  BY <1>5, <1>6 DEF ToldInv

\* Every step of every thread keeps what the watches are told true.
LEMMA ToldStep == ASSUME Inv, ToldInv, [Next]_vars PROVE ToldInv'
<1>1. CASE UNCHANGED vars
  BY <1>1 DEF vars, history, ToldInv, Made
<1>2. ASSUME NEW t \in Threads, ThreadStep(t) PROVE ToldInv'
  <2>1. ASSUME NEW o, NEW label \in {"validate", "read", "watch-read"}, NEW u, NEW v,
               Begin(t, o, label, u, v)
        PROVE ToldInv'
    BY <2>1, ToldFrame DEF Begin, history, Inv, TypeOK
  <2>2. CASE Reset(t) \/ Swap(t) \/ CompareAndSet(t) \/ ResetVals(t) \/ AddWatch(t) \/ RemoveWatch(t)
    BY <2>1, <2>2 DEF Reset, Swap, CompareAndSet, ResetVals, AddWatch, RemoveWatch
  <2>3. CASE ReadOld(t) \/ Validate(t) \/ ResetRead(t) \/ ReadWatches(t) \/ CasWatches(t)
    <3>1. /\ call'[t].at # "notify" /\ UNCHANGED <<moves, told>>
          /\ \A u \in Threads \ {t} : call'[u] = call[u]
      BY <2>3 DEF ReadOld, Validate, ResetRead, ReadWatches, CasWatches, Goto, history, Inv, TypeOK
    <3>. QED  BY <3>1, ToldFrame
  <2>4. CASE ResetWrite(t)
    <3>1. call[t].op = "reset"
      BY <2>4 DEF ResetWrite, Inv, ArgsInv
    <3>. QED  BY <2>4, <3>1, ToldStore DEF ResetWrite, Inv
  <2>5. CASE Cas(t)
    <3>1. CASE value = call[t].old
      BY <2>5, <3>1, ToldStore DEF Cas, Inv
    <3>2. CASE value # call[t].old
      <4>1. /\ call'[t].at # "notify" /\ UNCHANGED <<moves, told>>
            /\ \A u \in Threads \ {t} : call'[u] = call[u]
        BY <2>5, <3>2 DEF Cas, Goto, history, Inv, TypeOK
      <4>. QED  BY <4>1, ToldFrame
    <3>. QED  BY <3>1, <3>2
  <2>6. CASE NotifyWatches(t)
    <3> DEFINE x == [op |-> call[t].op, old |-> call[t].old, new |-> call[t].new]
    <3>1. /\ call[t].at = "notify" /\ call'[t].at = "idle"
          /\ told' \subseteq told \cup {x}
          /\ \A u \in Threads \ {t} : call'[u] = call[u]
          /\ UNCHANGED moves
      BY <2>6 DEF NotifyWatches, Goto, Inv, TypeOK
    <3>2. Made(x.op, x.old, x.new)
      BY <3>1 DEF ToldInv
    <3>3. \A y \in told' : Made(y.op, y.old, y.new)
      BY <3>1, <3>2 DEF ToldInv
    <3>4. ASSUME NEW y \in told' PROVE Made(y.op, y.old, y.new)'
      BY <3>1, <3>3 DEF Made
    <3>5. ASSUME NEW u \in Threads, call'[u].at = "notify"
          PROVE  Made(call[u].op, call[u].old, call[u].new)'
      BY <3>1, <3>5 DEF ToldInv, Made
    <3>. QED  BY <3>4, <3>5 DEF ToldInv
  <2>7. CASE SetValidator(t)
    BY <2>7 DEF SetValidator, ToldInv, Made
  <2>. QED
    BY <1>2, <2>2, <2>3, <2>4, <2>5, <2>6, <2>7 DEF ThreadStep
<1>. QED  BY <1>1, <1>2 DEF Next, ThreadStep

\* Watches are told of transitions that the atom has made, whatever runs between a call's
\* read of the value, its compare-and-swap and its notify-watches.
THEOREM WatchesToldTruly == Spec => []WatchSeesTransitions
<1>1. Init => ToldInv
  BY DEF Init, ToldInv, Idle
<1>2. ToldInv => WatchSeesTransitions
  BY DEF ToldInv, Made, WatchSeesTransitions
<1>. QED  BY <1>1, <1>2, ToldStep, Invariance, PTL DEF Spec
=============================================================================
