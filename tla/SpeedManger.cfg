\* Three senders.  With 400 three grants keep the margin; once a sender was deleted
\* while it held one, a fourth is made that does not.  With 150 the margin does not
\* fit and grants are negative.  SIGFPE would end the process.
SPECIFICATION Spec
CONSTANTS
  Threads = {t1, t2, t3}
  MaxSpeeds = {150, 400}
  BaseSpeed = 80
  MaxKills = 1
CHECK_DEADLOCK FALSE
SYMMETRY Symmetry
INVARIANTS TypeOK FairShare Accounted
