\* Two file names, a list of two, and nodes for it, the one in hand and a leak.
\* The nodes are a bound: when all have leaked the model stops, the code does not.
SPECIFICATION Spec
CONSTANTS
  Files = {f1, f2}
  Nodes = {n1, n2, n3, n4}
  NULL = NULL
  MaxCount = 2
CHECK_DEADLOCK FALSE
INVARIANTS TypeOK WellLinked BusyWithFiles NeverNull
PROPERTIES KeepsPromise
