\* Three names make a list with a head, a middle and an end; with three addresses
\* a name deleted from a shorter list can be registered again.
SPECIFICATION Spec
CONSTANTS
  Names = {n1, n2, n3}
  Files = {f1}
  Apps = {a1, a2, a3}
  NULL = NULL
  MaxLine = 1
  MaxFaults = 1
CHECK_DEADLOCK FALSE
SYMMETRY Symmetry
INVARIANTS TypeOK WellLinked NoRunawayThread NeverNull SurvivesUnlessFirst
PROPERTIES KeepsPromise
