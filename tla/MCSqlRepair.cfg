SPECIFICATION SqlSpec
CONSTANTS
  Tasks = {1, 2, 3}
  Clients = {c1, c2}
  Keys = {}
  NoKey = NoKey
  LeaseLostMax = 2
  Submissions <- JoinRR
  MaxClaims = 1
SYMMETRY ClientSymmetry
INVARIANTS
  NoLostWakeup
CHECK_DEADLOCK FALSE
