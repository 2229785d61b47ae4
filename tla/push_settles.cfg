SPECIFICATION FairSpec
CONSTANTS
    d1 = d1
    d2 = d2
    o1 = o1
    Devices = {d1, d2}
    Orders = {o1}
    Ops = {1, 2, 3}
    Operation <- TwoTills
    Requests = {r1, r2}
    NoRequest = NoRequest
    Skewed = {d2}
    Users = {u1}
    BatchSize = 2
    MaxLosses = 1
    MaxCrashes = 0
    MaxResolves = 1
INVARIANTS EnteredOnce
PROPERTIES EveryOperationSettles
CHECK_DEADLOCK FALSE
