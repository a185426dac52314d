CONSTANTS
  MaxTokenFailures = 5
  CurveLength = 6
  MaxTroubles = 7
  Faults = {"token"}
SPECIFICATION Spec
INVARIANT UnpairedIsConfirmed
CHECK_DEADLOCK FALSE
