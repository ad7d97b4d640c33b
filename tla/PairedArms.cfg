SPECIFICATION Spec
CONSTANTS
  Episodes <- TwoEpisodes
  Tools <- TwoTools
  Families <- DriftAndOutage
  MaxFaults = 2
  Override = "none"
  MaxCalls = 3
  MaxArms = 1
  ArmCalls <- LongAndShort
INVARIANTS
  TypeOK
  CountIsFaultsStarted
  LatchIsLastStart
  ServerWideFaultLasts
  SameCallsSameFaults
CHECK_DEADLOCK FALSE
