\* Switches among controllers of every kind, while the robot may refuse any call.
SPECIFICATION Spec
CONSTANTS
  Controllers = {"trajectory", "velocity", "twist"}
  Claims <- MCClaims
  MayFail = {"select", "servoing"}
  OthersSelect = {"OTHER"}
INVARIANTS
  TypeOK
  RunningMatchesActive
PROPERTIES
  ImplementsArbiter
