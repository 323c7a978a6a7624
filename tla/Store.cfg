SPECIFICATION Spec
CONSTANTS
  Ids = {i1, i2}
  Sessions = {s1, s2}
  Orders = {ab, ba}
  Nobody = Nobody
  Torn = Torn
  Part = Part
  None = None
  MaxMishaps = 1
  MaxLog = 4
INVARIANT LogInOrder
 
INVARIANT PlanIsExact
PROPERTY ImplementsIds
PROPERTY EndsAreRecorded
SYMMETRY Interchangeable
CHECK_DEADLOCK FALSE
