SPECIFICATION Spec
CONSTANTS
  Episodes <- OneEpisode
  Tools <- SuiteTools
  Families <- RecoveryFamilies
  MaxFaults = 2
  Override = "none"
  MaxCalls = 8
  NMax = 2
  SentinelTuned = TRUE
  Tasks <- ChainTasks
  Methods <- Overseers
  MaxRetries = 1
  MaxTurns = 4
INVARIANTS
  RecoveryCallsWithinBudget
  CoordinatesAreUsedOnce
  EveryFaultIsReported
  RecordsMissRecoveryFaultsOnly
  ResultsFollowPlan
PROPERTY
  KeepsLedger
