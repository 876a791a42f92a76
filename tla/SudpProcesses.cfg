\* Three pids for two applications: pids are reused while entries are stale.
SPECIFICATION HostSpec
CONSTANTS
  Apps = {a1, a2}
  NoApp = NoApp
  Pids = {p1, p2, p3}
  NoPid = NoPid
  NoId = NoId
  MaxDeaths = 1
  MaxStops = 1
CHECK_DEADLOCK FALSE
SYMMETRY Symmetry
INVARIANTS TypeOK WaitNeverBlocks NoRunaway EntriesRun ErasesOnce
INVARIANTS HostTypeOK OnlyZeroIsLost LeavesNothing
