SPECIFICATION Spec
CONSTANTS
  MaxRows = 4
  MaxLive = 2
  KeepLive = 1
  Attempts = 2
  MaxInvokes = 3
  MaxCrashes = 1
  MaxFaults = 2
  MaxUnlinks = 1
  MaxSkips = 1
  MaxReads = 1
INVARIANT LandedSurvives
INVARIANT TranscriptInOrder
INVARIANT TurnDoneMeansSaved
CHECK_DEADLOCK FALSE
