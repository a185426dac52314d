CONSTANTS
  MaxTokenFailures = 5
  CurveLength = 6
  MaxTroubles = 7
  Faults = {"connect"}
SPECIFICATION Spec
INVARIANT EmitNeedsSubscription
CHECK_DEADLOCK FALSE
