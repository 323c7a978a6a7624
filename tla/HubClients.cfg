SPECIFICATION FairSpec
CONSTANTS
  Operators = {o1, o2}
  Displays = {d1, d2}
  Sessions = {s1}
  SessionOf <- OneSession
  Timeout = 2
  Lag = 1
INVARIANT LeaseIsHeld
INVARIANT DisplayIsHeld
PROPERTY PresentClientsKept
PROPERTY LeaseLapses
CHECK_DEADLOCK FALSE
