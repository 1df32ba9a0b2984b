SPECIFICATION LiveSpec
CONSTANTS
  Voltages = {"12V", "9V", "6V", "unknown"}
  Plugged = "9V"
  StopOnDisconnect = TRUE
  MaxMoves = 2
  MaxPresses = 0
  MaxRemotes = 1
  MaxFaults = 0
  MaxResets = 1
  MaxStrays = 0
  MaxActs = 5
INVARIANTS
  SessionReported
PROPERTIES
  UnpluggedReturnsHome
  ResetHonoured
CHECK_DEADLOCK FALSE
