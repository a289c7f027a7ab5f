SPECIFICATION Spec
CONSTANTS
    Urls = {u1, u2}
    NoUrl = NoUrl
    LoopCounts = {1, 2}
    QueueLimit = 2
    MaxCalls = 7
    IdModulus = 4
    StopDrains = FALSE
SYMMETRY Symmetry
INVARIANT PlayerRunsOnlyWhilePlaying
INVARIANT StoppedStaysStopped
INVARIANT SourceIsTheOnePlayed
INVARIANT EndIsAnnounced
PROPERTY StopEndsOnlyEarlierPlaybacks
PROPERTY EosEndsOnlyTheCurrentPlayback
CHECK_DEADLOCK FALSE
