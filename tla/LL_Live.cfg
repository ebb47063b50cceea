\* One controller that needs low-level servoing and one that jogs, on a robot that does
\* what it is told.
SPECIFICATION FairSpec
CONSTANTS
  Controllers = {"trajectory", "velocity", "twist"}
  Claims <- MCClaims
  MayFail = {}
  OthersSelect = {"MONITORED_STOP"}
INVARIANTS
  RobotMatchesRunning
  StopsWithRobot
PROPERTIES
  MotionResumes
