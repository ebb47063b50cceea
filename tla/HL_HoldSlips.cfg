SPECIFICATION Spec
CONSTANTS
  MotionControllers = {"joint_velocity_controller"}
  UnsafeControllers = {}
  Programs = {}
  VerifyCycles = 2
  SettleTime = 1
  MayFail = {}
INVARIANT OpensVerified
