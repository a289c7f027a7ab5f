SPECIFICATION FairSpec
CONSTANTS
    t1 = t1
    t2 = t2
    Threads = {t1, t2}
    Loop = Loop
    Quit = Quit
    SocketLimit = 2
    FdCount = 2
    Timeouts = {}
    ALLOWED_MAX_TIMER_CNT = 0
    IdModulus = 2
    ClockSteps = {}
INVARIANTS
    NoMessageIsSleptOn
    EveryMessageHasItsByte
PROPERTY PostedIsDispatched
CHECK_DEADLOCK FALSE
