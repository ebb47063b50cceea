SPECIFICATION Spec
CONSTANTS
  MaxCount = 2
  CountSize = 2
  Tolerance = 1
  Lossy = {1}
  NumGrippers = 1
  Wanted <- MCWanted
  MayFail = {"first_read"}
  Others = FALSE
  MaxCommands = 2
  MaxActivations = 1
PROPERTY SeedIsPosition
CHECK_DEADLOCK FALSE
