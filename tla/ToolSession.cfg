SPECIFICATION Spec
CONSTANTS
  Seed <- SmallSeed
  Arg <- SmallArg
  Budget = 9
  HeadSize = 1
  ReplySize = 1
  ResultSizes <- Sizes
  MaxTurns = 5
INVARIANTS TypeOK AcknowledgedWritesLast SilentNoOps PromptKeepsTheLatest
CHECK_DEADLOCK FALSE
