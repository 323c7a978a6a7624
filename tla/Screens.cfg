SPECIFICATION Spec
CONSTANTS
  None = None
  Presentations = 1
  Sessions = {1, 2}
  Session = 1
  Pages = {1}
  Connections = {1, 2}
  Room = 2
  MaxMishaps = 2
  Earlier = {1}
  EventRoom = 1
  MaxTroubles = 1
INVARIANT RunShownOnlyConfirmed
 
PROPERTY NeverGoesBack
PROPERTY ScreenComesBack
CHECK_DEADLOCK FALSE
