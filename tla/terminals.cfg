SPECIFICATION MCSpec
CONSTANTS
    Foci = {"play", "meter", "till", "drawer", "licence", "alerts", "backups"}
    Visits = {p1, p2}
    Terminals = {t1}
    Tags = {g1, g2}
    Tariffs = {f1}
    OpenDay = {}
    Capacity = 1
    VerifyGuardian = FALSE
    Clerks = {c1, c2}
    Nil = Nil
    Cards <- MCCards
    Roundings = {"up_to_block", "nearest_block", "exact_minutes"}
    MaxMinutes = 12
    Orders = {o1}
    Lines = {l1, l2}
    OtherLines = {w1}
    NoOrder = NoOrder
    MaxSeq = 6
    MaxPulled = 1
    MaxKills = 1
    DrawerIds = {p1, p2}
    Sales = {o1}
    NoDrawer = NoDrawer
    SaleTotal = 1
    OpeningCash = 1
    max_variance = 2
    Miscounts = {0}
    Moves = {"PAY_IN"}
    MaxCashMoves = 1
    MaxWebActs = 1
    Licences = {k1}
    DeviceNames = {n1, n2}
    Nobody = Nobody
    Seats = 1
    Lifetime = 1
    GraceAfter = 0
    GraceOffline = 0
    Slow = {}
    MaxTime = 1
    MaxTokens = 4
    MaxActs = 2
    Subjects = {s1}
    Phones = {q1, q2}
    Sweepers = {w2, w3}
    MAX_FAILURES = 2
    Absent = Absent
    Gone = Gone
    Nothing = Nothing
    MaxRaised = 2
    MaxRefused = 2
    Jobs = {nightly, manual}
    Nightly = nightly
    MonthLength = 2
    keep_daily = 1
    keep_monthly = 2
    MaxDay = 4
    MaxRuns = 3
    MaxKilled = 1
SYMMETRY Symmetry
INVARIANTS TypesOK RoomIsSafe BilledOnce BlocksAreCharged NothingIsLeftUnsent NoEditAfterTheEnd OneDrawerTwoBooks PlanAndTokensHold ToldOnce SurvivorsReach
PROPERTY EndIsFinal
CHECK_DEADLOCK FALSE
