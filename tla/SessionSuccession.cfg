SPECIFICATION Spec
CONSTANTS
  Sessions = {s1, s2}
  Callers = {c1}
  LastPosition = 1
  Order <- PufferThenLabel
  FailureTask = failureTask
  Mishaps = {}
  None = None
 
INVARIANT PufferOnlyInPufferPresentation
SYMMETRY SessionSymmetry
CONSTRAINT SuccessionOpen
