SPECIFICATION Spec
CONSTANTS
  MaxCount = 2
  CountSize = 2
  Tolerance = 2
  Lossy = {1}
  NumGrippers = 1
  Wanted <- MCWanted
  RobotJoints = {6}
  MayFail = {"foreign"}
  MaxActivations = 1
INVARIANT DeactivationIsClean
CHECK_DEADLOCK FALSE
