SPECIFICATION FairSessions
CONSTANTS
    Terminals = {t1}
    Browsers = {b1}
    MaxWork = 1
PROPERTY RefusedGetsThrough
CHECK_DEADLOCK FALSE
