SPECIFICATION FairSpec
CONSTANTS
  Child = {1, 2}
  Cap = 1
  MaxShocks = 2
INVARIANT CapHolds
INVARIANT StopReachesChildren
INVARIANT EditsSurvive
PROPERTY WaitIsAnswered
CHECK_DEADLOCK FALSE
