SPECIFICATION SpecIdle
CONSTANTS
  Ids <- McIds
  NoId = 0
  MaxQno = 1
  ConnLimit = 0
  ResetLimit = 0
  SessionStat = {"CHARGING", "FAULT"}
  Events = {"start", "stopTs", "sample"}
  CsActs <- NoCsActs
  MaxEvents = 4
  MaxCsCalls = 0
  MaxFaults = 2
  MaxTroubles = 2
  PromptAnswers = FALSE
INVARIANTS
  TypeOK
  SameIdSameCall
  RightHandler
  WaitFlagTruthful
  OneCallAtATime
  StopTsKeptUncut
PROPERTIES
  StartTsDelivered
