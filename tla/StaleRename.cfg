SPECIFICATION Spec
CONSTANTS
  Episodes <- OneEpisode
  Tools <- SuiteTools
  Families <- DriftOnly
  MaxFaults = 3
  Override = "none"
  MaxCalls = 10
  NMax = 3
  SentinelTuned = FALSE
  Tasks <- VerifyTasks
  Methods <- NaiveOnly
  MaxRetries = 0
  MaxTurns = 5
INVARIANT
  DriftSparesOtherTools
