---------------------------- MODULE MCTurnEngine ----------------------------
(* Model-checking instances of TurnEngine. *)
EXTENDS TurnEngine

CONSTANTS k1, k2
=============================================================================
