SPECIFICATION Spec
CONSTANTS
  c1 = c1
  c2 = c2
  Conns <- OneHandler
  MaxRecent = 6
  Keep = 4
  TTL = 2
  Prompt = FALSE
  MaxTurns = 5
  MaxFaults = 0
  MaxTicks = 0
INVARIANT
  NothingForgotten
CHECK_DEADLOCK FALSE
