SPECIFICATION FairSpec
CONSTANTS
  MaxCount = 2
  CountSize = 2
  Tolerance = 2
  Lossy = {1}
  NumGrippers = 1
  Wanted <- MCWanted
  RobotJoints = {6}
  MayFail = {"gripper", "foreign"}
  MaxActivations = 1
PROPERTIES
  PositionCatchesUp
  GripperFollows
CHECK_DEADLOCK FALSE
