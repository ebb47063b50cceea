SPECIFICATION Spec
CONSTANTS
  MotionControllers <- MCMotion
  UnsafeControllers = {}
  Programs = {}
  VerifyCycles = 2
  SettleTime = 1
  MayFail = {}
CONSTRAINT FewRequests
PROPERTY RecoveryKeepsOwed
