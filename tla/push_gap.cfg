SPECIFICATION FairSpec
CONSTANTS
    d1 = d1
    d2 = d2
    o1 = o1
    Devices = {d1}
    Orders = {o1}
    Ops = {1, 2, 3, 4}
    Operation <- DesktopSale
    Requests = {r1, r2}
    NoRequest = NoRequest
    Skewed = {}
    Users = {u1}
    BatchSize = 2
    MaxLosses = 0
    MaxCrashes = 0
    MaxResolves = 0
PROPERTIES GapsHeal
CHECK_DEADLOCK FALSE
