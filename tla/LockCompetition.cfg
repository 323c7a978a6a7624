SPECIFICATION FairSpec
CONSTANTS
  Processes = {p1, p2, p3}
  MaxAttempts = 3
  Mishaps = {"crash", "write"}
  None = None
PROPERTIES  LoneStarterOwns
CHECK_DEADLOCK FALSE
