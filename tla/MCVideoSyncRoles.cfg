SPECIFICATION MCSpec
CONSTANTS
    d1 = d1
    d2 = d2
    d3 = d3
    Devices = {d1, d2, d3}
    Urls = {u1}
    NoMaster = NoMaster
    NoUrl = NoUrl
    Faults = {"lose", "duplicate", "restart", "sendFails"}
    MaxOrders = 3
INVARIANTS
    TwoMastersAreTold
    PlayHeals
PROPERTY OrdersSettle
CHECK_DEADLOCK FALSE
