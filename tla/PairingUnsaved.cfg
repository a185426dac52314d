CONSTANTS
  MaxTokenFailures = 5
  CurveLength = 6
  MaxTroubles = 7
  Faults = {"token", "revoke"}
  MaxStarts = 3
  SaveFirst = TRUE
  PairingFaults = {}
SPECIFICATION PairingLive
PROPERTIES
  UnpairedIsSaved
CHECK_DEADLOCK FALSE
