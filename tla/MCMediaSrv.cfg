SPECIFICATION FiniteMediaSpec
CONSTANTS
    Urls = {u1, u2}
    NoUrl = NoUrl
    LoopCounts = {1, 2}
    QueueLimit = 1
    MaxCalls = 7
    IdModulus = 3
    StopDrains = TRUE
PROPERTY PlaybackEndsAfterItsLoops
PROPERTY CallsReturn
PROPERTY PlaybackEnds
CHECK_DEADLOCK FALSE
