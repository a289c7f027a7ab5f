SPECIFICATION FairSpec
CONSTANTS
    Keys = {k1, k2}
    Values = {v1}
    NoValue = NoValue
    Never = Never
    Faults = {"stop", "kill", "powerLoss", "writeFails", "closeFails", "cpFails"}
INVARIANTS
    RestartFindsSavedOrBoot
    RestartFindsSaved
    UnsavedIsScheduled
    SavedSurvivesPowerLoss
PROPERTY ChangesAreSaved
