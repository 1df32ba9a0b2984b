SPECIFICATION Spec
CONSTANTS
  Digit = 2
  MaxQno = 1
  Strings = 1
  Exact = 0
  Registers = {0}
  MaxEnergy = 1
  MaxSessions = 2
INVARIANTS
  TypeOK
  ReportsExact
