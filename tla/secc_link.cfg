SPECIFICATION LiveSpec
CONSTANTS
  MaxSilent = 2
  VasChunks = 2
  TailLens = {6}
  Overtakes = TRUE
  MaxFaults = 1
  MaxLates = 1
  MaxHangs = 1
  MaxTroubles = 1
  MaxStarts = 1
INVARIANTS
  TypeOK
  StatusIsStatus
PROPERTIES
  ModemStopHonoured
  ModemTold
  Recovers
