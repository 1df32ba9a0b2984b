SPECIFICATION SpecTried
CONSTANTS
  Ids <- McIds
  NoId = 0
  MaxQno = 1
  ConnLimit = 0
  ResetLimit = 0
  SessionStat = {"CHARGING"}
  Events = {"start"}
  CsActs <- CsAny
  MaxEvents = 1
  MaxCsCalls = 1
  MaxFaults = 1
  MaxTroubles = 1
  PromptAnswers = FALSE
INVARIANTS
  BootFirst
PROPERTIES
  Registers
  WaitEnds
  Reconnects
  StatusSettles
  StartTsSettles
