-------------------------------- MODULE Atom --------------------------------
(***************************************************************************)
(* An atom of mutable.lisp and mutable-functions.lisp under reset!, swap!, *)
(* compare-and-set!, swap-vals!, reset-vals!, add-watch, remove-watch and  *)
(* set-validator!.  Nothing here takes a lock: the reads, writes and       *)
(* compare-and-swaps of slots are the steps.                               *)
(*                                                                         *)
(* The value is a number, and the function of a swap is n + 1.  A          *)
(* validator is the set of values it accepts.  The watch list is the set   *)
(* of its keys; it is consed anew by every change, so that one compared by *)
(* EQ differs after any change, which version stands for.                  *)
(***************************************************************************)
EXTENDS Naturals, FiniteSets

CONSTANTS Threads, Keys,
          Values,            \* the numbers that reset! and compare-and-set! write
          MaxValue,          \* bound on the values that are swapped
          Validators,        \* the validators an atom may be made with or given
          Ops,               \* the operations called
          MaxCalls           \* bound on the calls of all threads together

ASSUME AtomAssumption ==
  /\ Values \subseteq Nat /\ MaxValue \in Nat /\ MaxCalls \in Nat
  /\ Validators \subseteq SUBSET Nat
  /\ Ops \subseteq {"reset", "swap", "cas", "reset-vals", "add-watch", "remove-watch",
                    "set-validator"}

VARIABLES value, validator, watches, version,
          call,              \* the call each thread is in, with its local variables
          calls,             \* the number of calls begun
          base, swaps,       \* the last value set outright, the swaps since: history
          moves, told,       \* the transitions made, those reported to watches: history
          wanted,            \* the keys added and not removed since: history
          replaced           \* set-validator! has been called: history

history == <<base, swaps, moves, told, wanted, replaced>>
vars == <<value, validator, watches, version, call, calls, history>>

Idle == [op |-> "none", at |-> "idle", old |-> 0, new |-> 0, list |-> {}, ver |-> 0]

\* atom refuses a first value that its validator rejects.
Init == /\ value = 0 /\ validator \in {p \in Validators : 0 \in p}
        /\ watches = {} /\ version = 0
        /\ call = [t \in Threads |-> Idle] /\ calls = 0
        /\ base = 0 /\ swaps = 0 /\ moves = {} /\ told = {} /\ wanted = {} /\ replaced = FALSE

\* Thread t begins a call at step label with the given arguments.
Begin(t, o, label, old, new) ==
  /\ o \in Ops /\ call[t].at = "idle" /\ calls < MaxCalls
  /\ calls' = calls + 1
  /\ call' = [call EXCEPT ![t] = [op |-> o, at |-> label, old |-> old, new |-> new,
                                  list |-> {}, ver |-> 0]]
  /\ UNCHANGED <<value, validator, watches, version, history>>

Goto(t, label) == call' = [call EXCEPT ![t].at = label]

\* What a store of v by thread t means to the history.
Store(t, v) ==
  /\ value' = v
  /\ moves' = moves \cup {<<value, v>>}
  /\ IF call[t].op = "swap" THEN swaps' = swaps + 1 /\ UNCHANGED base
                            ELSE swaps' = 0 /\ base' = v

-----------------------------------------------------------------------------
(* The value. *)

Reset(t) == \E v \in Values : Begin(t, "reset", "validate", 0, v)
Swap(t) == Begin(t, "swap", "read", 0, 0)
CompareAndSet(t) == \E u, v \in Values : Begin(t, "cas", "validate", u, v)
ResetVals(t) == \E v \in Values : Begin(t, "reset-vals", "read", 0, v)

\* The loops of swap!, swap-vals! and reset-vals! read the value and compute the next.
ReadOld(t) ==
  /\ call[t].at = "read" /\ value < MaxValue
  /\ call' = [call EXCEPT ![t].old = value, ![t].at = "validate",
                          ![t].new = IF call[t].op = "swap" THEN value + 1 ELSE @]
  /\ UNCHANGED <<value, validator, watches, version, calls, history>>

\* Mutant: only reset! asks the validator.
ValidateResets(t) ==
  /\ call[t].at = "validate"
  /\ Goto(t, IF call[t].op # "reset" THEN "cas"
             ELSE IF call[t].new \in validator THEN "reset-read" ELSE "idle")
  /\ UNCHANGED <<value, validator, watches, version, calls, history>>

\* The validator accepts the new value, or the call ends with an error.
Validate(t) ==
  /\ call[t].at = "validate"
  /\ Goto(t, IF call[t].new \notin validator THEN "idle"
             ELSE IF call[t].op = "reset" THEN "reset-read" ELSE "cas")
  /\ UNCHANGED <<value, validator, watches, version, calls, history>>

\* reset! reads the value that the watches will be told of, then writes.
ResetRead(t) ==
  /\ call[t].at = "reset-read"
  /\ call' = [call EXCEPT ![t].old = value, ![t].at = "reset-write"]
  /\ UNCHANGED <<value, validator, watches, version, calls, history>>

ResetWrite(t) ==
  /\ call[t].at = "reset-write"
  /\ Store(t, call[t].new)
  /\ Goto(t, "notify")
  /\ UNCHANGED <<validator, watches, version, calls, told, wanted, replaced>>

\* Mutant: the new value is written without comparing the value with the one read.
CasUnconditional(t) ==
  /\ call[t].at = "cas"
  /\ Store(t, call[t].new)
  /\ Goto(t, "notify")
  /\ UNCHANGED <<validator, watches, version, calls, told, wanted, replaced>>

\* The compare-and-swap; the loops go round when it fails, compare-and-set! returns nil.
Cas(t) ==
  /\ call[t].at = "cas"
  /\ IF value = call[t].old
       THEN Store(t, call[t].new) /\ Goto(t, "notify") /\ UNCHANGED <<told, wanted, replaced>>
       ELSE /\ Goto(t, IF call[t].op = "cas" THEN "idle" ELSE "read")
            /\ UNCHANGED <<value, history>>
  /\ UNCHANGED <<validator, watches, version, calls>>

\* Mutant: the watches are told the value of the atom now as the new one.
NotifyCurrent(t) ==
  /\ call[t].at = "notify"
  /\ told' = IF watches = {} THEN told ELSE told \cup {[op |-> call[t].op, old |-> call[t].old, new |-> value]}
  /\ Goto(t, "idle")
  /\ UNCHANGED <<value, validator, watches, version, calls, base, swaps, moves, wanted, replaced>>

\* notify-watches: whoever is in the list now is called with the old and the new value.
NotifyWatches(t) ==
  /\ call[t].at = "notify"
  /\ told' = IF watches = {} THEN told ELSE told \cup {[op |-> call[t].op, old |-> call[t].old, new |-> call[t].new]}
  /\ Goto(t, "idle")
  /\ UNCHANGED <<value, validator, watches, version, calls, base, swaps, moves, wanted, replaced>>

-----------------------------------------------------------------------------
(* The watch list and the validator. *)

AddWatch(t) == \E k \in Keys : Begin(t, "add-watch", "watch-read", 0, k)
RemoveWatch(t) == \E k \in Keys : Begin(t, "remove-watch", "watch-read", 0, k)

ReadWatches(t) ==
  /\ call[t].at = "watch-read"
  /\ call' = [call EXCEPT ![t].list = watches, ![t].ver = version, ![t].at = "watch-cas"]
  /\ UNCHANGED <<value, validator, watches, version, calls, history>>

Edited(t, keys) == IF call[t].op = "add-watch" THEN keys \cup {call[t].new} ELSE keys \ {call[t].new}

\* Mutant: the changed list is stored with a plain setf.
CasWatchesUnconditional(t) ==
  /\ call[t].at = "watch-cas"
  /\ watches' = Edited(t, call[t].list) /\ version' = version + 1
  /\ wanted' = Edited(t, wanted)
  /\ Goto(t, "idle")
  /\ UNCHANGED <<value, validator, calls, base, swaps, moves, told, replaced>>

CasWatches(t) ==
  /\ call[t].at = "watch-cas"
  /\ IF version = call[t].ver
       THEN /\ watches' = Edited(t, call[t].list) /\ version' = version + 1
            /\ wanted' = Edited(t, wanted)
            /\ Goto(t, "idle")
       ELSE Goto(t, "watch-read") /\ UNCHANGED <<watches, version, wanted>>
  /\ UNCHANGED <<value, validator, calls, base, swaps, moves, told, replaced>>

\* A plain setf, which does not look at the value the atom has.
SetValidator(t) ==
  /\ "set-validator" \in Ops /\ call[t].at = "idle" /\ calls < MaxCalls
  /\ calls' = calls + 1
  /\ validator' \in Validators
  /\ replaced' = TRUE
  /\ UNCHANGED <<value, watches, version, call, base, swaps, moves, told, wanted>>

Next == \E t \in Threads :
          \/ Reset(t) \/ Swap(t) \/ CompareAndSet(t) \/ ResetVals(t)
          \/ ReadOld(t) \/ Validate(t) \/ ResetRead(t) \/ ResetWrite(t) \/ Cas(t)
          \/ NotifyWatches(t)
          \/ AddWatch(t) \/ RemoveWatch(t) \/ ReadWatches(t) \/ CasWatches(t)
          \/ SetValidator(t)

Spec == Init /\ [][Next]_vars

-----------------------------------------------------------------------------

Steps == {"idle", "read", "validate", "reset-read", "reset-write", "cas", "notify",
          "watch-read", "watch-cas"}

\* Types of the slots and of the calls' local variables.
TypeOK ==
  /\ value \in Nat /\ validator \in Validators /\ watches \subseteq Keys
  /\ version \in Nat /\ calls \in 0..MaxCalls
  /\ call \in [Threads -> [op : Ops \cup {"none"}, at : Steps, old : Nat, new : Nat \cup Keys,
                           list : SUBSET Keys, ver : Nat]]
  /\ base \in Nat /\ swaps \in Nat /\ wanted \subseteq Keys /\ replaced \in BOOLEAN

\* Every swap counts: the value is what was last set outright and one more for each
\* swap since, whatever ran between the swap's read and its compare-and-swap.
NoLostSwap == value = base + swaps

\* The atom's value satisfies its validator, until set-validator! replaces that (it does
\* not look at the value, nor at the calls that have asked the old one).
ValueValid == ~replaced => value \in validator

\* A watch is told of transitions that the atom has made; of reset!, which reads the old
\* value and writes the new one in two steps, only the new value need be one it has had.
WatchSeesTransitions ==
  \A x \in told : \E m \in moves : m[2] = x.new /\ (x.op # "reset" => m[1] = x.old)

\* The watch list is what the completed add-watch and remove-watch calls make it, in
\* the order of their compare-and-swaps.
WatchesExact == watches = wanted
=============================================================================
