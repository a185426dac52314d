CONSTANTS
  MaxTokenFailures = 5
  CurveLength = 6
  MaxTroubles = 7
  Faults = {"alone"}
SPECIFICATION Spec
PROPERTY WorkingLinkKept
CHECK_DEADLOCK FALSE
