SPECIFICATION LimiterSpec
CONSTANTS
  Procs = {p1, p2}
  Workers = 2
  TTL = 2
  TimelyRenew = TRUE
  MaxTime = 3
  MaxMembers = 4
  MaxFaults = 2
SYMMETRY ProcSymmetry
INVARIANTS
  ConcurrencyBound
  GhostsFade
CHECK_DEADLOCK FALSE
