\* Recovery with two controllers that may be switched separately.
SPECIFICATION Spec
CONSTANTS
  MotionControllers <- MCMotion
  UnsafeControllers <- MCUnsafe
  Programs = {}
  VerifyCycles = 2
  SettleTime = 1
  MayFail = {"switch", "list"}
CONSTRAINT FewRequests
INVARIANTS
  BeliefTracksRobot
  NoneForgotten
PROPERTIES
  ImplementsSchedule
