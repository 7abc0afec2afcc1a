SPECIFICATION SchedSpec
CONSTANTS
  Tasks = {1}
  Keys = {}
  NoKey = NoKey
  Queues = {q}
  LeaseTTL <- TTLs
  LeaseLostMax = 2
  ThrottledMax = 2
  MaxRetries = {1}
  Delays = {0}
  Submissions <- OneTask
  MaxTime = 2
  MaxClaims = 2
  Queue = q
  HandlerErrors <- SomeErrors
  Workers = 2
  Backlogs = {{1}}
  Handled = {1}
  ManualHeartbeat = FALSE
  PromptStart = TRUE
  MaxFaults = 1
INVARIANTS
  SlotAccounting
  InterruptedNotFailed
  CanceledOnlyIfAsked
  FinishedWorkKept
  SkipNeverRetried
  CurrentHandleTracked
  DrainInterruptsHolders
  NothingLeftBehind
  BudgetRespected
PROPERTIES
  LegalTransitions
  CancelSurvives
CHECK_DEADLOCK FALSE
