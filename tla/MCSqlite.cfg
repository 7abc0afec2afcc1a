SPECIFICATION SqliteSpec
CONSTANTS
  Tasks = {1, 2, 3}
  Keys = {k1}
  NoKey = NoKey
  Queues = {q}
  LeaseTTL <- TTLs
  LeaseLostMax = 1
  ThrottledMax = 2
  MaxRetries = {0}
  Delays = {0}
  Submissions <- Asked
  MaxTime = 2
  MaxClaims = 2
  MaxLag = 1
INVARIANTS
  EdgesExact
  NotifyExact
PROPERTIES
  SqliteImplementsMemory
CHECK_DEADLOCK FALSE
