SPECIFICATION RedisSpec
CONSTANTS
  Tasks = {1, 2}
  Keys = {k1}
  NoKey = NoKey
  Queues = {q}
  LeaseTTL <- TTLs
  LeaseLostMax = 2
  ThrottledMax = 1
  MaxRetries = {1}
  Delays = {0}
  Submissions <- Chains
  MaxTime = 3
  MaxClaims = 2
  MaxLag = 1
INVARIANTS
  QueuesExact
  LeasesWatched
  IndexesExact
PROPERTIES
  ImplementsLifecycle
CHECK_DEADLOCK FALSE
