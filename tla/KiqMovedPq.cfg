\* Every store lands and the bus stays; the image is rewritten once.
CONSTANTS
  Modes = {2}
  MayIgnore = {}
  MaxCalls = 1
  MaxMishaps = 1
  CpSurgery = TRUE
CHECK_DEADLOCK FALSE
SPECIFICATION Spec
INVARIANT SetupFailureNeverHalts
