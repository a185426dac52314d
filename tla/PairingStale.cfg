CONSTANTS
  MaxTokenFailures = 5
  CurveLength = 6
  MaxTroubles = 7
  Faults = {"token", "connect", "reject", "drop", "alone", "revoke", "cancel", "raise"}
  MaxStarts = 3
  SaveFirst = TRUE
  PairingFaults = {"crash", "http", "body", "remove"}
SPECIFICATION SpecWithPicker
INVARIANTS
  PairingKept
CHECK_DEADLOCK FALSE
