SPECIFICATION Spec
CONSTANTS
  MaxCount = 2
  CountSize = 2
  Tolerance = 2
  Lossy = {1}
  NumGrippers = 0
  Wanted <- MCWanted
  RobotJoints = {6, 7}
  MayFail = {}
  MaxActivations = 1
INVARIANT VectorsHoldJoints
CHECK_DEADLOCK FALSE
