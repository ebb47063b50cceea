\* Two grippers on a bus that loses requests and answers.
SPECIFICATION Spec
CONSTANTS
  MaxCount = 1
  CountSize = 2
  Tolerance = 1
  Lossy = {}
  NumGrippers = 2
  Wanted = {3}
  MayFail = {"init", "read", "send"}
  Others = FALSE
  MaxCommands = 2
  MaxActivations = 1
INVARIANTS
  ExchangesAreSafe
  FaultStopsGripper
  NobodyWaitsForever
PROPERTIES
  DeactivationAdvances
\* The driver may stay inactive.
CHECK_DEADLOCK FALSE
