SPECIFICATION Spec
CONSTANTS
  TicksPerMinute = 2
  MinutesPerHour = 60
  Patience = 14
  Gap = 2
  MaxTime = 200
INVARIANTS
  TypeOK
  NeverEarly
  EndsUnlessLateInHour
