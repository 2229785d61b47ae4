SPECIFICATION NumbersSpec
CONSTANTS
    Registers = {r1}
    CodeOf <- MCCodeOf
    WebCodes = {"00"}
    Requests = {q1}
    MaxOrders = 2
    LastDay = 2
INVARIANT NumbersNeedNoCoordination
CHECK_DEADLOCK FALSE
