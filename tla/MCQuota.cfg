SPECIFICATION QuotaSpec
CONSTANTS
  Loops = {l1, l2}
  Media = {"memory", "redis", "sql", "mysql"}
  Limit = 2
  Period = 2
  Workers = 1
  Prompt = TRUE
  MaxTime = 8
  MaxBacklog = 1
  MaxFaults = 1
SYMMETRY LoopSymmetry
INVARIANTS
  QuotaBound
  QuotaSlots
CHECK_DEADLOCK FALSE
