\* One gripper on a bus that works, moved by nobody else, with a count that is rounded down.
SPECIFICATION FairSpec
CONSTANTS
  MaxCount = 2
  CountSize = 2
  Tolerance = 2
  Lossy = {1}
  NumGrippers = 1
  Wanted <- MCWanted
  MayFail = {}
  Others = FALSE
  MaxCommands = 3
  MaxActivations = 1
PROPERTIES
  CommandArrives
  DeactivationEnds
  SkipsAreSmall
\* The driver may stay inactive.
CHECK_DEADLOCK FALSE
