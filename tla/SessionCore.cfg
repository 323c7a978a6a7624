SPECIFICATION FairSpec
CONSTANTS
  Sessions = {s1}
  Callers = {c1}
  LastPosition = 2
  Order <- PufferThenLabel
  FailureTask = failureTask
  Mishaps = {"fault", "disconnected", "audit"}
  None = None
INVARIANT TypeOK
INVARIANT LeaseSupervised
PROPERTY StimulusFailureIsFinal
PROPERTY TimerStopsForCause
PROPERTY ImplementsProtocol
PROPERTY LostLeaseEndsRun
PROPERTY TimedPhaseEnds
PROPERTY EmergencyStopEndsRun
