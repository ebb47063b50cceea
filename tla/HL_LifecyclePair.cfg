\* Two grippers, of which the first may not be closed.
SPECIFICATION Spec
CONSTANTS
  MaxCount = 1
  CountSize = 2
  Tolerance = 1
  Lossy = {}
  NumGrippers = 2
  Wanted = {3}
  RobotJoints = {6}
  MayFail = {"activate", "close"}
  MaxActivations = 1
INVARIANTS
  TypeOK
  DeactivationIsClean
  HoldsOnStartup
\* The hardware may end finalized.
CHECK_DEADLOCK FALSE
