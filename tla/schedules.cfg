SPECIFICATION FairSpec
CONSTANTS
  Schedules = {s1}
  Period = 3
  MaxTimer = 1
  OpenTimeout = 1
  MaxTime = 6
  MaxCalls = 3
  MaxQuits = 1
  MaxSleeps = 1
  MaxFaults = 0
INVARIANT NoOverlap
INVARIANT MadeUpOnce
PROPERTY GivenUpStaysGivenUp
PROPERTY DueIsServed
PROPERTY StartEnds
CHECK_DEADLOCK FALSE
