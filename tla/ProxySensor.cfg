SPECIFICATION Spec
CONSTANTS
  Episodes <- OneEpisode
  Tools <- SensorTools
  Families <- DriftFirst
  MaxFaults = 2
  Override = "none"
  MaxCalls = 4
INVARIANTS
  TypeOK
  AdaptedCallerIsServed
  LatchedDriftIsAdvertised
  ReportedWithinCap
