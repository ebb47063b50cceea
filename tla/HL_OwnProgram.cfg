SPECIFICATION Spec
CONSTANTS
  MotionControllers = {}
  UnsafeControllers = {}
  Programs = {"pick"}
  VerifyCycles = 1
  SettleTime = 1
  MayFail = {}
INVARIANT BlockedDuringOwnProgram
