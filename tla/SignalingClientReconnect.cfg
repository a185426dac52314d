CONSTANTS
  MaxTokenFailures = 5
  CurveLength = 6
  MaxTroubles = 7
  Faults = {"drop"}
SPECIFICATION LiveSpec
PROPERTY ReconnectsAfterLoss
CHECK_DEADLOCK FALSE
