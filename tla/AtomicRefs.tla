----------------------------- MODULE AtomicRefs -----------------------------
(***************************************************************************)
(* What dosync promises ("All ref-set, alter, commute, and ensure          *)
(* operations within BODY are committed atomically"): the refs are one     *)
(* store, and a transaction takes effect at a single instant at which      *)
(* every value its body has read from the store is still there and all of  *)
(* its writes are installed together.  Stm.tla is shown to implement this. *)
(***************************************************************************)
CONSTANTS Threads, Refs, Values, NIL

VARIABLES store,   \* the committed value of every ref
          last     \* last[t]: what the running dosync of t, once it has
                   \*   committed, had read and has written

vars == <<store, last>>

Footprints == [reads : [Refs -> SUBSET Values],
               writes : [Refs -> Values \cup {NIL}]]

NoFootprint == [reads |-> [r \in Refs |-> {}], writes |-> [r \in Refs |-> NIL]]

Install(f, s) == [r \in Refs |-> IF f.writes[r] = NIL THEN s[r] ELSE f.writes[r]]

Init == /\ store \in [Refs -> Values]
        /\ last = [t \in Threads |-> NoFootprint]

(* A transaction of t commits, with the footprint that last records: no     *)
(* read of its body is stale.                                               *)
Commit(t) ==
  /\ last'[t] \in Footprints
  /\ last' = [last EXCEPT ![t] = last'[t]]
  /\ \A r \in Refs : last'[t].reads[r] \subseteq {store[r]}
  /\ store' = Install(last'[t], store)

(* The dosync of t returns, or ends with an error. *)
Leave(t) == /\ last' = [last EXCEPT ![t] = NoFootprint]
            /\ UNCHANGED store

Next == \E t \in Threads : Commit(t) \/ Leave(t)

Spec == Init /\ [][Next]_vars
=============================================================================
