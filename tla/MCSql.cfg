SPECIFICATION SqlSpec
CONSTANTS
  Tasks = {1, 2, 3}
  Clients = {c1, c2}
  Keys = {k1}
  NoKey = NoKey
  LeaseLostMax = 2
  Submissions <- Mixed
  MaxClaims = 1
SYMMETRY ClientSymmetry
INVARIANTS
  SqlTypeOK
  SqlPendingExact
  SqlChainsLinear
PROPERTIES
  SqlImplementsLifecycle
CHECK_DEADLOCK FALSE
