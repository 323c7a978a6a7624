SPECIFICATION Spec
CONSTANTS
  Sessions = {s1}
  Callers = {c1}
  LastPosition = 1
  Order <- PufferThenLabel
  FailureTask = failureTask
  Mishaps = {"audit"}
  None = None
PROPERTY SavedTimeKept
