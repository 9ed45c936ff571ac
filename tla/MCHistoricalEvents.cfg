SPECIFICATION HistorySpec
CHECK_DEADLOCK FALSE
CONSTANTS
    FirstLedgerTxs = 3
    RangeTxs = 4
    PageLimit = 2
    MaxPageRetries = 3
    MaxCollected = 4
INVARIANTS
    HistoryCollected
