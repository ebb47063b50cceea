SPECIFICATION Spec
CONSTANTS
  Controllers = {"trajectory", "twist"}
  Claims <- MCClaims
  MayFail = {}
  OthersSelect = {"MONITORED_STOP"}
INVARIANT KeepsApplying
