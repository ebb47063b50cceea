\* Recovery to its end, with everything but the link to the robot unreliable.
SPECIFICATION FairSpec
CONSTANTS
  MotionControllers = {"joint_velocity_controller"}
  UnsafeControllers = {"joint_velocity_controller"}
  Programs = {}
  VerifyCycles = 2
  SettleTime = 1
  MayFail = {"list", "select", "switch"}
INVARIANTS
  HeldUntilVerified
PROPERTIES
  RecoveryConcludes
