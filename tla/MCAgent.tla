------------------------------ MODULE MCAgent ------------------------------
(* Instance of Agent for TLC. *)
EXTENDS Agent

CONSTANTS w1, w2, a1, a2
=============================================================================
