SPECIFICATION Spec
CONSTANTS
    Markets = {m1}
    Bettors = {b1}
    Sides = {"fighter_a"}
    Amounts = {1}
    Watched = {"factory"}
    Structs = "map"
    Limit = 2
    BatchSize = 2
    MaxEvents = 2
    MaxLedgers = 2
    MaxFaults = 0
    MaxBackfills = 0
CHECK_DEADLOCK FALSE
PROPERTIES
    EventuallyIndexed
