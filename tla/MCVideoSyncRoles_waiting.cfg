SPECIFICATION MCSpec
CONSTANTS
    d1 = d1
    d2 = d2
    d3 = d3
    Devices = {d1, d2}
    Urls = {u1}
    NoMaster = NoMaster
    NoUrl = NoUrl
    Faults = {}
    MaxOrders = 3
PROPERTIES WaitingSlaveIsFound
CHECK_DEADLOCK FALSE
