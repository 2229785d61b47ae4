SPECIFICATION MCSpec
CONSTANTS
    Foci = {"stock", "serials", "drawer", "floor", "attendance", "settings", "feed"}
    r1 = r1
    r2 = r2
    c1 = c1
    n1 = n1
    bean = bean
    milk = milk
    Items = {bean, milk}
    Workers = {w1, w2}
    Nobody = Nobody
    Receipts = {r1, r2}
    Returns = {c1}
    Counts = {n1}
    ItemsOf <- MCItemsOf
    Sold <- MCSold
    AllowNegative = FALSE
    MaxMoves = 2
    Tills = {t1, t2}
    NoDevice = NoDevice
    Settlements = {s1, s2}
    BlockSize = 2
    MaxNumber = 5
    ShiftIds = {d1, d2}
    Devices = {v1}
    Browser = Browser
    Orders = {o1}
    Requests = {w1, w2}
    NoOne = NoOne
    Total = 2
    Float = 1
    MaxMoved = 1
    Variances = {1}
    Tables = {ta, tb}
    Parties = {d1, d2}
    Bills = {b1}
    Waiters = {w1, w2}
    NoTable = NoTable
    NoParty = NoParty
    Hours = {0, 1, 2}
    HoursPerDay = 2
    Unset = Unset
    Rostered = {1}
    NeedsShift = FALSE
    MissingAfter = 1
    Managers = {m1}
    MaxTrail = 3
    Contexts <- MCContexts
    Values = {vat14, vat200}
    Invalid = {vat200}
    Inherited = Inherited
    Default = vat0
    Readers = {w1, w2}
    Admins = {d1, d2}
    NoOverrides = NoOverrides
    NoChange = NoChange
    MaxWrites = 3
    Entities = {e1, e2}
    Writers = {w1, w2}
    Terminals = {d1, d2}
    NoWriter = NoWriter
    Limit = 2
    MaxSaves = 3
    MaxFailures = 1
SYMMETRY Symmetry
INVARIANTS TypesOK StockAddsUp BlocksAreDisjoint NoNumberIsLost DrawersAddUp OnePartyPerTable MergesEndSomewhere TrailExplainsPunches ServedWasCommitted MirrorIsReal MirrorIsReplay
PROPERTY VisibleIsNotSkipped
CHECK_DEADLOCK FALSE
