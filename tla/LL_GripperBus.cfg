\* Two activations of a gripper, up to three commands in each, on a bus that loses
\* requests and answers, while the pendant moves it too.
SPECIFICATION Spec
CONSTANTS
  MaxCount = 1
  CountSize = 2
  Tolerance = 1
  Lossy = {}
  NumGrippers = 1
  Wanted = {1, 3}
  MayFail = {"init", "read", "send"}
  Others = TRUE
  MaxCommands = 3
  MaxActivations = 2
INVARIANTS
  TypeOK
  PositionIsReal
  ExchangesAreSafe
  FaultStopsGripper
  NobodyWaitsForever
PROPERTIES
  LastCommandWins
  DeactivationAdvances
\* After a failed activation the hardware is finalized and nothing more happens.
CHECK_DEADLOCK FALSE
