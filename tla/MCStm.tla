------------------------------- MODULE MCStm -------------------------------
(* Instances of Stm for TLC: values 0..N-1, a function that increments and  *)
(* wraps around, a validator that rejects 2.                                *)
EXTENDS Stm, TLC

CONSTANTS r1, r2, t1, t2

Inc == [v \in Values |-> (v + 1) % Cardinality(Values)]
MCFns == {Inc}
Symmetry == Permutations(Threads) \cup Permutations(Refs)
AcceptAll == [r \in Refs |-> Values]
RejectsTwo == [r \in Refs |-> Values \ {2}]
=============================================================================
