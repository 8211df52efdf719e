SPECIFICATION AutoFairSpec
CONSTANTS
  NoEntry = NoEntry
  MaxInvokes = 2
  MaxCrashes = 1
  MaxSweeps = 0
  MaxDeletes = 1
  MaxRefusals = 0
  Permanent = FALSE
  GoalAutoResumeLimit = 1
  MaxHolds = 1
  MaxAsks = 1
INVARIANT BootResumesBounded
INVARIANT LoopIsTicking
INVARIANT PromptsNotStacked
PROPERTY QuotaWaitsForUser
PROPERTY GoalIsTakenUp
CHECK_DEADLOCK FALSE
