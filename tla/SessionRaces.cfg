SPECIFICATION Spec
CONSTANTS
  Sessions = {s1}
  Callers = {c1, c2}
  LastPosition = 1
  Order <- PufferThenLabel
  FailureTask = failureTask
  Mishaps = {}
  None = None
INVARIANT NoDeviceTestDuringRun
INVARIANT ConfirmedStopHolds
SYMMETRY CallerSymmetry
