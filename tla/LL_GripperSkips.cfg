SPECIFICATION Spec
CONSTANTS
  MaxCount = 2
  CountSize = 2
  Tolerance = 1
  Lossy = {}
  NumGrippers = 1
  Wanted <- MCWanted
  MayFail = {}
  Others = TRUE
  MaxCommands = 2
  MaxActivations = 1
PROPERTY SkipsAreSmall
CHECK_DEADLOCK FALSE
