SPECIFICATION Spec
CONSTANTS
    Entries <- ShortList
    Files <- TwoFiles
    IdleDetect = TRUE
    MaxOrders = 3
    MaxPlays = 5
    Faults = {"playFails", "eosTwice"}
    MaxFaults = 1
INVARIANTS
    EveryEndIsLoggedOnce
    FilePlaysItsLoops
    EntryPlaysItsLoops
PROPERTIES
    StopIsFinal
    PlaybackIsNotCut
CHECK_DEADLOCK FALSE
