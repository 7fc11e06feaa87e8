---------------------------- MODULE MCWorkPool ----------------------------
(* Flat work of one client, and two clients one of whose items forks.       *)
EXTENDS WorkPool, TLC

CONSTANTS c1, c2, i1, i2, i3

OneClient == (c1 :> <<i1, i2>>)
TwoClients == (c1 :> <<i1>>) @@ (c2 :> <<i2>>)
Flat == [i \in Items |-> NIL]
OneForks == (i1 :> i3) @@ (i2 :> NIL) @@ (i3 :> NIL)
=============================================================================
