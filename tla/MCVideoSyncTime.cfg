SPECIFICATION Spec
CONSTANTS
    NumSlaves = 3
    MaxRounds = 2
    Faults = {"lost", "late", "noTime"}
    MaxFaults = 1
INVARIANTS
    NoTwoNeighboursAreSkipped
PROPERTY TimesOfOneExchange
CHECK_DEADLOCK FALSE
