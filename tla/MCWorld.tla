------------------------------ MODULE MCWorld ------------------------------
(***************************************************************************)
(* Two regions: a converted loop over assoc that inlines a helper, and a   *)
(* scalar-replaced form over a class that uses the same helper.            *)
(***************************************************************************)
EXTENDS World, TLC

CONSTANTS loop, scalar, assoc, helper, class

AssumedNames == loop :> {assoc, helper} @@ scalar :> {class, helper}
CheckedNames == loop :> {assoc} @@ scalar :> {}
InferredNames == loop :> {helper} @@ scalar :> {}
Symmetry == Permutations(Definers)
=============================================================================
