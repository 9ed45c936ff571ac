SPECIFICATION Spec
CONSTANTS
    Markets = {m1}
    Bettors = {b1}
    Sides = {"fighter_a", "draw"}
    Amounts = {1}
    Watched = {"factory", "market"}
    Structs = "vec"
    Limit = 2
    BatchSize = 2
    MaxEvents = 2
    MaxLedgers = 1
    MaxFaults = 0
    MaxBackfills = 1
CHECK_DEADLOCK FALSE
INVARIANTS
    PoolsOfBets
