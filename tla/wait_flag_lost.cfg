SPECIFICATION SpecIdle
CONSTANTS
  Ids <- McIds
  NoId = 0
  MaxQno = 1
  ConnLimit = 0
  ResetLimit = 0
  SessionStat = {}
  Events = {"start"}
  CsActs <- CsAny
  MaxEvents = 1
  MaxCsCalls = 1
  MaxFaults = 0
  MaxTroubles = 1
  PromptAnswers = FALSE
INVARIANTS
  WaitFlagTruthful
