SPECIFICATION Spec
CONSTANTS
  LastDay = 6
  Courses <- MCCourses
  Lag = 2
  MaxLowerLows = 1
  MaxRevisions = 1
INVARIANTS
  ReopensAfresh
  RecoveringIsClosed
  GateStands
  DefenceHolds
CHECK_DEADLOCK FALSE
