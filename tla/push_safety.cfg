SPECIFICATION Spec
CONSTANTS
    d1 = d1
    d2 = d2
    o1 = o1
    Devices = {d1}
    Orders = {o1}
    Ops = {1, 2, 3}
    Operation <- OneSale
    Requests = {r1, r2}
    NoRequest = NoRequest
    Skewed = {}
    Users = {u1}
    BatchSize = 2
    MaxLosses = 1
    MaxCrashes = 1
    MaxResolves = 0
SYMMETRY RequestSymmetry
INVARIANTS TypeOK StatusMatchesBooks TerminalAgrees AppliedWithoutHoles
PROPERTIES NothingEntersAClosedOrder ImplementsLedger
CHECK_DEADLOCK FALSE
