---------------------------- MODULE MCChatSystem ----------------------------
(* Model-checking instance of ChatSystem. *)
EXTENDS ChatSystem

CONSTANTS u1, u2, none
=============================================================================
