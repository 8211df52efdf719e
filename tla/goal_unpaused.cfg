SPECIFICATION AutoSpec
CONSTANTS
  NoEntry = NoEntry
  MaxInvokes = 1
  MaxCrashes = 0
  MaxSweeps = 0
  MaxDeletes = 0
  MaxRefusals = 0
  Permanent = TRUE
  GoalAutoResumeLimit = 1
  MaxHolds = 0
  MaxAsks = 1
PROPERTY OnlyUserActivates
CHECK_DEADLOCK FALSE
