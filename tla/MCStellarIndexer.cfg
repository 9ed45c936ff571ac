SPECIFICATION Spec
CONSTANTS
    Markets = {m1}
    Bettors = {b1}
    Sides = {"fighter_a", "draw"}
    Amounts = {1}
    Watched = {"factory", "market"}
    Structs = "vec"
    Limit = 2
    BatchSize = 2
    MaxEvents = 4
    MaxLedgers = 2
    MaxFaults = 1
    MaxBackfills = 1
CHECK_DEADLOCK FALSE
INVARIANTS
    RowsSound
    CheckpointHonest
PROPERTIES
    BetRowsStable
    EventuallyIndexed
