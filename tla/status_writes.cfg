SPECIFICATION FairSpec
CONSTANTS
    status = status
    mode = mode
    step = step
    Keys <- MCTwoKeys
    StatusKey = status
    ModeKey = mode
    Pendings = {1,2}
    MaxRetries = 1
    MaxWrites = 3
    MaxSync = 2
    MaxFaults = 2
    MaxDeletes = 1
    MaxChain = 2
CHECK_DEADLOCK FALSE
INVARIANTS NewestWins NothingLost
PROPERTIES TerminalLands SyncNotReverted NoResurrection
