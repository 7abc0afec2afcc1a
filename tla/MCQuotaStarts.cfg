SPECIFICATION QuotaSpec
CONSTANTS
  Loops = {l1, l2}
  Media = {"memory", "redis", "sql", "mysql"}
  Limit = 2
  Period = 2
  Workers = 1
  Prompt = TRUE
  MaxTime = 5
  MaxBacklog = 1
  MaxFaults = 0
INVARIANTS
  StartsWithinLimit
CHECK_DEADLOCK FALSE
