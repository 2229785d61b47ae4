SPECIFICATION TillDrawerSpec
CONSTANTS
    DrawerIds = {d1}
    Sales = {o1}
    NoDrawer = NoDrawer
    SaleTotal = 1
    OpeningCash = 1
    max_variance = 2
    Miscounts = {0, 1}
    Moves = {"PAY_IN", "PAY_OUT", "DROP"}
    MaxCashMoves = 1
    MaxWebActs = 0
INVARIANT SameEntriesSameCash
CHECK_DEADLOCK FALSE
