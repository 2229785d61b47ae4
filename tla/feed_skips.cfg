SPECIFICATION Spec
CONSTANTS
    Entities = {price, table}
    Writers = {w1, w2}
    Terminals = {d1}
    NoWriter = NoWriter
    Limit = 1
    MaxSaves = 2
    MaxFailures = 0
SYMMETRY Symmetric
INVARIANTS NoRowFallsBehind
CHECK_DEADLOCK FALSE
