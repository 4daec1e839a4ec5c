SPECIFICATION Spec
CONSTANTS
  c1 = c1
  c2 = c2
  Conns <- TwoHandlers
  MaxRecent = 4
  Keep = 2
  TTL = 2
  Prompt = FALSE
  MaxTurns = 4
  MaxFaults = 2
  MaxTicks = 2
INVARIANTS
  TypeOK
  BufferIsRecentLog
  RecentKept
  HistoryAlternates
CHECK_DEADLOCK FALSE
SYMMETRY HandlerSymmetry
