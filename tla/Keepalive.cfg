CONSTANTS
  PingInterval = 5
  DeadAfter = 7
  Late = 1
  SendMax = 1
  RoundTrip = 4
  Faults = {"down", "raise"}
SPECIFICATION Spec
INVARIANTS
  TypeOK
  NoFalseDeath
  WatchdogDetects
CHECK_DEADLOCK FALSE
