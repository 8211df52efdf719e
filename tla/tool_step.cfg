SPECIFICATION FairSpec
CONSTANTS
  NoEntry = NoEntry
  NoPath = NoPath
  MaxInvokes = 2
  MaxCrashes = 0
  MaxSweeps = 0
  MaxDeletes = 0
  MaxRefusals = 1
  Permanent = TRUE
  Names <- MCNames
  Paths <- MCPaths
  Steps <- MCSteps
  ReadCap = 2
  MutationCap = 2
  MaxSteps = 2
  MaxSendNows = 1
  MaxFaults = 1
INVARIANT RunsOnYes
INVARIANT StepInOrder
INVARIANT PromptIsLive
PROPERTY PromptIsKept
PROPERTY StepSettles
CHECK_DEADLOCK FALSE
