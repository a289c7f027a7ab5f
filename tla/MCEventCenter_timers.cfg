SPECIFICATION FairSpec
CONSTANTS
    t1 = t1
    t2 = t2
    Threads = {}
    Loop = Loop
    Quit = Quit
    SocketLimit = 1
    FdCount = 1
    Timeouts = {1, 3}
    ALLOWED_MAX_TIMER_CNT = 2
    IdModulus = 4
    ClockSteps <- BackAndForth
INVARIANTS
    SleepsUntilTheFirstTimer
    TimerIdsDistinct
PROPERTY TimersFire
CHECK_DEADLOCK FALSE
