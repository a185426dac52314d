CONSTANTS
  MaxTokenFailures = 5
  CurveLength = 6
  MaxTroubles = 7
  Faults = {"token", "connect", "reject", "drop", "alone", "revoke", "cancel", "raise"}
  MaxStarts = 3
  SaveFirst = FALSE
  PairingFaults = {"crash", "http", "body", "remove"}
SPECIFICATION PairingSpec
INVARIANTS
  PairingKept
CHECK_DEADLOCK FALSE
