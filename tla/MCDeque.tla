------------------------------ MODULE MCDeque ------------------------------
(* Two kinds of items in a buffer of two slots that may double twice.       *)
EXTENDS Deque

CONSTANTS x1, x2
=============================================================================
