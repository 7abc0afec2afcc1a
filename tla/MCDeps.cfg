SPECIFICATION Spec
CONSTANTS
  Tasks = {1, 2, 3}
  Keys = {k1}
  NoKey = NoKey
  Queues = {q}
  LeaseTTL <- TTLs
  LeaseLostMax = 1
  ThrottledMax = 1
  MaxRetries = {0}
  Delays = {0}
  Submissions <- SmallGraphs
  MaxTime = 2
  MaxClaims = 2
INVARIANTS
  PendingParentsExact
  DepsSatisfied
  WalkMatchesPropagate
  RepairIsNoOp
  ReapOrderImmaterial
  ChainsLinear
  LeaseConsistent
PROPERTIES
  ImplementsLifecycle
CHECK_DEADLOCK FALSE
