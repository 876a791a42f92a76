\* Seven senders at once share 200 Mbps.
SPECIFICATION Spec
CONSTANTS
  Threads = {t1, t2, t3, t4, t5, t6, t7}
  MaxSpeeds = {200}
  BaseSpeed = 80
  MaxKills = 0
SYMMETRY Symmetry
CHECK_DEADLOCK FALSE
INVARIANTS WaitsWhenFull
