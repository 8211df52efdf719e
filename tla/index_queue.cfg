SPECIFICATION QueueFairSpec
CONSTANTS
  ReindexKey = reindex
  WarmKey = warm
  NoKey = NoKey
  Keys <- MCKeys
  Requests <- MCRequests
  MaxPending = 2
  MaxCalls = 4
INVARIANT WarmYields
INVARIANT AskedIsKept
PROPERTY ServiceSpec
PROPERTY EveryoneIsAnswered
CHECK_DEADLOCK FALSE
