SPECIFICATION Spec
CONSTANTS
  MotionControllers = {"joint_velocity_controller"}
  UnsafeControllers = {}
  Programs = {}
  VerifyCycles = 1
  SettleTime = 1
  MayFail = {"list"}
PROPERTY ReactivatesOnlyStopped
