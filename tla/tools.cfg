SPECIFICATION Spec
CONSTANTS
  s1 = s1
  s2 = s2
  u1 = u1
  u2 = u2
  csci = csci
  Sessions = {s1, s2}
  Users = {u1, u2}
  Courses = {csci}
  Requests <- AllRequests
  MaxCalls = 2
  MaxAsked = 3
  MaxTurns = 2
  MaxFaults = 1
SYMMETRY SessionSymmetry
INVARIANTS
  TypeOK
  EffectsAreOwn
  RowsAccounted
  AuditTruthful
  AnswersTrue
CHECK_DEADLOCK FALSE
