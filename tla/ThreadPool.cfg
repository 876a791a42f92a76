SPECIFICATION Spec
CONSTANTS
  Workers = {w1, w2}
  Clients = {c1, c2}
  Jobs = {j1, j2, j3, j4}
  NoJob = NoJob
  Max = 2
CHECK_DEADLOCK FALSE
INVARIANTS TypeOK NoLostWakeup FreedWhenDrained
PROPERTIES KeepsPromise CallsReturn
