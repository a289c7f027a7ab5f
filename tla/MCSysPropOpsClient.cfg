SPECIFICATION FairSpec
CONSTANTS
    t1 = t1
    t2 = t2
    Threads = {t1, t2}
    Nobody = Nobody
    MaxCalls = 5
    Faults = {"slow", "signal", "restart"}
INVARIANTS
    AnswerWasServed
    OneFailureAfterCalm
PROPERTIES
    NothingIsServedLate
    ImplementsCallService
    CallsReturn
CHECK_DEADLOCK FALSE
