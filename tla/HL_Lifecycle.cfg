SPECIFICATION Spec
CONSTANTS
  MaxCount = 2
  CountSize = 2
  Tolerance = 2
  Lossy = {1}
  NumGrippers = 1
  Wanted = {1, 5}
  RobotJoints = {6}
  MayFail = {"activate", "close", "select", "cycle", "gripper"}
  MaxActivations = 2
INVARIANTS
  TypeOK
  DeactivationIsClean
  HoldsOnStartup
\* The hardware may end finalized.
CHECK_DEADLOCK FALSE
