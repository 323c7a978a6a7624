SPECIFICATION FairSpec
CONSTANTS
  first = first
  second = second
  Servers = {first, second}
  Mode <- Rivals
  MaxRequests = 1
  MaxFailures = 1
  Mishaps = {"step", "crash", "unplug"}
  None = None
INVARIANT OneServerAtWork
 
INVARIANT EndsEmptyHanded
PROPERTY ShutdownEnds
