--------------------------- MODULE MCToolExecutor ---------------------------
(* Model-checking instances of ToolExecutor. *)
EXTENDS ToolExecutor, TLC

CONSTANTS s1, s2, u1, u2, csci

Ask(tool, upper, arguments, user) ==
  [tool |-> tool, code |-> [course |-> csci, upper |-> upper], user_id |-> user,
   arguments |-> arguments]

(* Writers of one course, naming one user or the other, and one call that    *)
(* ends each other way.                                                     *)
AllRequests ==
  { Ask("save_decision", TRUE, "ok", u1), Ask("save_decision", FALSE, "ok", u1), Ask("save_decision", TRUE, "value", u1),
    Ask("remove_decision", FALSE, "ok", u2), Ask("read", TRUE, "ok", u1),
    Ask("read", TRUE, "schema", u1), Ask("unknown", TRUE, "ok", u1) }

SessionSymmetry == Permutations({s1, s2})
=============================================================================
