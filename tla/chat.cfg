SPECIFICATION Spec
CONSTANTS
  u1 = u1
  u2 = u2
  none = none
  None = none
  Users = {u1, u2}
  MaxMessages = 3
  RateLimit = 1
  MaxSends = 2
  MaxPieces = 1
  MaxDisturbances = 2
INVARIANTS
  TypeOK
  TranscriptFaithful
PROPERTIES
  TypingEnds
  Reconnects
CHECK_DEADLOCK FALSE
