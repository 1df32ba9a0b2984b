SPECIFICATION SpecManage
CONSTANTS
  Ids <- McIds
  NoId = 0
  MaxQno = 1
  ConnLimit = 0
  ResetLimit = 0
  SessionStat = {"PREPARE"}
  Events = {"auth", "q1", "q2", "diagStat", "leave", "main", "hb", "period"}
  CsActs <- CsManage
  MaxEvents = 1
  MaxCsCalls = 1
  MaxFaults = 0
  MaxTroubles = 1
  PromptAnswers = TRUE
INVARIANTS
  AnswerMatchesCall
