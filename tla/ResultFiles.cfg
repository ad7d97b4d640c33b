SPECIFICATION Spec
CONSTANTS
  Workers <- ThreeWorkers
  RunSpec <- TheirSpecs
  Tag <- Dirs
  Poisonings <- NoneOrSecond
  MaxRelaunches = 1
  MaxKills = 1
  Anchor = "gguf_m-F16"
  Levels <- OneArm
  Outcomes <- EitherFault
  Walks <- OvertLast
INVARIANTS TypeOK DamageWithinKills ResultsAreAPrefix ShardsHoldTheirCell GoRestsOnCheckedPairs
PROPERTIES RecordsAreKept WorkersStop
CHECK_DEADLOCK FALSE
