SPECIFICATION Spec
CONSTANTS
  MotionControllers = {}
  UnsafeControllers = {}
  Programs = {}
  VerifyCycles = 1
  SettleTime = 1
  MayFail = {}
INVARIANT BlockedDuringSeenFault
