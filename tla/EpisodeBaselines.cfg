SPECIFICATION Spec
CONSTANTS
  Episodes <- OneEpisode
  Tools <- SuiteTools
  Families <- OvertFamilies
  MaxFaults = 3
  Override = "none"
  MaxCalls = 14
  NMax = 3
  SentinelTuned = FALSE
  Tasks <- AllTasks
  Methods <- Baselines
  MaxRetries = 2
  MaxTurns = 7
INVARIANTS
  TypeOK
  CleanEpisodesSucceed
  OvertFaultsNeverMislead
  DriftAloneIsSurvivable
  PolicyGetsToAnswer
  BoundedFaultsAreOutlasted
PROPERTY
  Termination
