SPECIFICATION Spec
CONSTANTS
  k1 = k1
  k2 = k2
  Courses = {k1, k2}
  NoCourse = NoCourse
  MaxRounds = 2
  MaxCalls = 3
  MaxCards = 1
  MaxFanout = 2
INVARIANTS
  TypeOK
  RequestsWellFormed
  WorkBounded
  ExchangeClosed
  CardsGrounded
  SegmentsApart
PROPERTIES
  TurnEnds
