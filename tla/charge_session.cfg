SPECIFICATION Spec
CONSTANTS
  Voltages = {"12V", "9V", "6V"}
  Plugged = "9V"
  StopOnDisconnect = FALSE
  MaxMoves = 3
  MaxPresses = 2
  MaxRemotes = 2
  MaxFaults = 1
  MaxResets = 0
  MaxStrays = 1
  MaxActs = 5
INVARIANTS
  TypeOK
  HomeIsDead
  EmergencyHolds
  StopSticks
  SessionReported
  OneStopPerSession
  ChargingReported
CHECK_DEADLOCK FALSE
