SPECIFICATION Spec
CONSTANTS
  MaxCount = 2
  CountSize = 2
  Tolerance = 2
  Lossy = {1}
  NumGrippers = 0
  Wanted <- MCWanted
  RobotJoints = {6}
  MayFail = {}
  MaxActivations = 2
INVARIANT ServesCallbacks
CHECK_DEADLOCK FALSE
