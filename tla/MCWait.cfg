SPECIFICATION WaitSpec
CONSTANTS
  Callers <- Competing
  w1 = w1
  w2 = w2
  p1 = p1
  p2 = p2
  Tasks = {t1}
  Waiters = {w1, w2}
  Procs = {p1, p2}
  Home <- AllAtP1
  Poll = 2
  Delays = {0, 3}
  MaxLag = 1
INVARIANTS
  NoLostSignal
PROPERTIES
  WaiterServed
  DequeueEnds
CHECK_DEADLOCK FALSE
