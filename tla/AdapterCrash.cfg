SPECIFICATION Spec
CONSTANTS
  Episodes <- OneEpisode
  Tools <- SuiteTools
  Families <- StaleAndMissing
  MaxFaults = 3
  Override = "none"
  MaxCalls = 10
  NMax = 3
  SentinelTuned = FALSE
  Tasks <- SensorTasks
  Methods <- OracleOnly
  MaxRetries = 1
  MaxTurns = 5
INVARIANT
  AdaptersNeverRaise
