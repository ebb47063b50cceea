SPECIFICATION Spec
CONSTANTS
  MotionControllers = {"joint_trajectory_controller"}
  UnsafeControllers = {}
  Programs = {"pick"}
  VerifyCycles = 1
  SettleTime = 1
  MayFail = {}
PROPERTY ProgramsStartAlone
