SPECIFICATION Spec
CONSTANTS
  NoEntry = NoEntry
  NoResend = NoResend
  MaxInvokes = 2
  MaxCrashes = 1
  MaxSweeps = 0
  MaxDeletes = 0
  MaxRefusals = 1
  MaxRemoves = 1
  Permanent = TRUE
  FollowUp = {f1,f2,f3}
  Spoken = {f2,f3}
SYMMETRY SpokenAlike
INVARIANT AckedFollowUpSurvives
INVARIANT AppliedOncePerLife
PROPERTY SettledStaysSettled
PROPERTY RegSpec
CHECK_DEADLOCK FALSE
