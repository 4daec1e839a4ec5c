SPECIFICATION Spec
CONSTANTS
  c1 = c1
  c2 = c2
  c3 = c3
  d1 = d1
  d2 = d2
  a1 = a1
  p1 = p1
  p2 = p2
  u1 = u1
  Sources <- MCSources
  Expected <- MCExpected
  Users = {u1}
  MaxAttempts = 2
  ToleratedPct = 50
  MaxRuns = 3
INVARIANTS
  TypeOK
  SuccessIsExact
  SuccessIsCurrent
  NeverHalfLoaded
PROPERTIES
  NothingLostUnconfirmed
  RunEnds
CHECK_DEADLOCK FALSE
