SPECIFICATION FairSpec
CONSTANTS
  Queue = queue
  Direct = direct
  Full = 2
  None = None
  Modes = {"serial", "screen", "mock"}
  Injections = {"delay", "timeout", "disconnect", "fault"}
  Mishaps = {"lost", "garbage", "fault", "restart", "unplug", "write", "open", "error"}
  MaxMishaps = 1
  MaxLine = 1
INVARIANT StopHolds
 
 
INVARIANT FaultIsStopped
PROPERTY CallsReturn
CHECK_DEADLOCK FALSE
