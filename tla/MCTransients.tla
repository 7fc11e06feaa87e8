---------------------------- MODULE MCTransients ----------------------------
(***************************************************************************)
(* Keys ka and kb have the same hash, kc its first chunk, kd nothing of it.*)
(***************************************************************************)
EXTENDS Transients

CONSTANTS ka, kb, kc, kd

ChunksOf == ka :> <<0, 0>> @@ kb :> <<0, 0>> @@ kc :> <<0, 1>> @@ kd :> <<1, 0>>
PairLists == {<<>>, <<<<kc, 1>>, <<ka, 1>>, <<kb, 1>>, <<kc, 2>>>>, <<<<ka, 1>>, <<kd, 1>>>>}
CallsOf == <<5, 4>>   \* with one persistent handle, with two
Symmetry == Permutations(Threads)
=============================================================================
