SPECIFICATION Spec
CONSTANTS
  Episodes <- OneEpisode
  Tools <- SuiteTools
  Families <- TimeoutOnly
  MaxFaults = 3
  Override = "none"
  MaxCalls = 10
  NMax = 3
  SentinelTuned = FALSE
  Tasks <- WriteTasks
  Methods <- RetryOnly
  MaxRetries = 1
  MaxTurns = 5
INVARIANT
  RecoveryIsNotPunished
