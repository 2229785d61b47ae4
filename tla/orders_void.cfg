SPECIFICATION MCSpec
CONSTANTS
    Foci = {"desk"}
    l1 = l1
    l2 = l2
    bar = bar
    oven = oven
    Lines = {l1, l2}
    Stations = {bar, oven}
    StationOf <- TwoStations
    NoStation = NoStation
    AutoAccept = {bar}
    Workers = {w1, w2}
    Keys = {k1, k2}
    Nothing = Nothing
    MaxTotal = 2
    MaxRounds = 1
    Whole = 50
    Portion = 2
    Goods <- MCGoods
    Menus <- MCMenus
    RuleSets <- MCRuleSets
    Opening <- MCOpening
    Quantities = {2, 3}
    Overrides = {0}
    LinePercents = {25}
    OrderPercents = {5}
    None = None
    MaxLines = 2
    MaxEvents = 4
    MaxChanges = 1
    Orders = {o1}
    Builders = {w1, w2}
    Nobody = Nobody
    DayLength = 2
    boundary = 1
    LastInstant = 1
    MaxJobs = 0
PROPERTIES TerminalIsFinal
CHECK_DEADLOCK FALSE
