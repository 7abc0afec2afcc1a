SPECIFICATION FairSpec
CONSTANTS
  Tasks = {1, 2}
  Keys = {}
  NoKey = NoKey
  Queues = {q}
  LeaseTTL <- TTLs
  LeaseLostMax = 2
  ThrottledMax = 2
  MaxRetries = {0}
  Delays = {0}
  Submissions <- OneTask
  MaxTime = 2
  MaxClaims = 2
  Queue = q
  HandlerErrors <- PlainError
  Workers = 2
  Backlogs = {{1}, {2}}
  Handled = {1}
  ManualHeartbeat = FALSE
  PromptStart = TRUE
  MaxFaults = 0
CHECK_DEADLOCK FALSE
PROPERTIES
  ShutdownReturns
  CancelHeard
