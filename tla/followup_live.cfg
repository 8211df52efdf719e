SPECIFICATION FairSpec
CONSTANTS
  NoEntry = NoEntry
  NoResend = NoResend
  MaxInvokes = 3
  MaxCrashes = 1
  MaxSweeps = 1
  MaxDeletes = 0
  MaxRefusals = 1
  MaxRemoves = 0
  Permanent = TRUE
  FollowUp = {f1}
  Spoken = {f1}
INVARIANT OneLoopPerRun
INVARIANT ReleasedRunIsOnDisk
INVARIANT LiveRunReadsRunning
PROPERTY SlotIsReleased
PROPERTY AckedIsAnswered
CHECK_DEADLOCK FALSE
