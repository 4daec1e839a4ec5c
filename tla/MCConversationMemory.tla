------------------------ MODULE MCConversationMemory ------------------------
(* Model-checking instances of ConversationMemory. *)
EXTENDS ConversationMemory, TLC

CONSTANTS c1, c2

OneHandler == {c1}
TwoHandlers == {c1, c2}

(* Handlers of one session are interchangeable. *)
HandlerSymmetry == Permutations(Conns)
=============================================================================
