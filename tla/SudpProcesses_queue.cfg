\* Two applications, no failure of any kind.
SPECIFICATION HostSpec
CONSTANTS
  Apps = {a1, a2}
  NoApp = NoApp
  Pids = {p1, p2}
  NoPid = NoPid
  NoId = NoId
  MaxDeaths = 0
  MaxStops = 0
CHECK_DEADLOCK FALSE
SYMMETRY Symmetry
INVARIANTS KeepsItsQueue
