SPECIFICATION Spec
CONSTANTS
  Episodes <- OneEpisode
  Tools <- TwoTools
  Families <- OutageAndReset
  MaxFaults = 1
  Override = "none"
  MaxCalls = 2
  MaxArms = 1
  ArmCalls <- EqualCalls
INVARIANT PairCheckPasses
CHECK_DEADLOCK FALSE
