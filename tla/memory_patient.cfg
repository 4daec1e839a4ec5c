SPECIFICATION Spec
CONSTANTS
  c1 = c1
  c2 = c2
  Conns <- OneHandler
  MaxRecent = 4
  Keep = 2
  TTL = 2
  Prompt = TRUE
  MaxTurns = 7
  MaxFaults = 0
  MaxTicks = 0
INVARIANTS
  NothingForgotten
  WindowCovered
  BufferBounded
PROPERTIES
  OverflowCompressed
  RemembersEverything
CHECK_DEADLOCK FALSE
