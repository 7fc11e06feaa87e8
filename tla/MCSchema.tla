------------------------------ MODULE MCSchema ------------------------------
(* One slot that is renamed along several paths, alone, before or after a   *)
(* slot nx that has an initform; with a native limit of one, the second     *)
(* slot lives in the vector.                                                *)
EXTENDS Schema

CONSTANTS na, nb, nc, nx

Plain(n) == [name |-> n, alias |-> None]
Renamed(n, m) == [name |-> n, alias |-> m]

Moving == {Plain(na), Renamed(nb, na), Renamed(nc, nb)}
MCSchemas == {<<Plain(na)>>, <<Renamed(nb, na)>>}
             \cup {<<p, Plain(nx)>> : p \in Moving} \cup {<<Plain(nx), p>> : p \in Moving}
=============================================================================
