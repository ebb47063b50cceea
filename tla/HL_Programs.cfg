\* Programs and the clock; no controllers, so recovery has nothing to hand back.
SPECIFICATION Spec
CONSTANTS
  MotionControllers = {}
  UnsafeControllers = {}
  Programs = {"pick"}
  VerifyCycles = 1
  SettleTime = 3
  MayFail = {"link", "select"}
INVARIANTS
  TypeOK
  BlockedDuringSeenProgram
  SettledAfterSeenProgram
  FaultBlocksUnlessClearing
