SPECIFICATION RegSpec
CONSTANTS
  NoEntry = NoEntry
  MaxInvokes = 1
  MaxCrashes = 0
  MaxSweeps = 0
  MaxDeletes = 1
  MaxRefusals = 0
  Permanent = FALSE
INVARIANT NeverDeletedUnderLiveRun
CHECK_DEADLOCK FALSE
