SPECIFICATION PartsSpec
CHECK_DEADLOCK FALSE
CONSTANTS
    Callers = {c1, c2}
    MaxRetries = 2
    MaxLosses = 1
    Monitors = {m1, m2}
    FailureThreshold = 3
    MaxAlertFaults = 1
    Runners = {n1, n2, n3}
    MaxRuns = 4
    PublicMax = 3
    AdminMax = 2
    Window = 3
    Invoices = {v1}
    InvoiceStatuses = {"Funded", "Paid"}
    MaxLedgers = 3
    MaxPollerFaults = 1
    Requests = {r1, r2}
    MaxVersion = 2
    MaxMailed = 1
    CacheKeys = {"markets", "platform"}
    Readers = {d1}
    MaxRowWrites = 1
    MaxBets = 1
    MaxCacheFaults = 1
    Sockets = {s1, s2}
    RateCap = 2
    WindowTicks = 2
    MaxTime = 4
    MaxReconnectAttempts = 3
    MaxSources = 7
    Forms = {"bet", "claim", "page", "create"}
    MaxSubmissions = 2
    PageKeys = {k1, k2}
    MaxFetches = 2
    MaxMoves = 1
    MaxPageFaults = 1
    FeeChoices = {200, 1000}
    Amounts = {7, 150}
    MaxOthers = 2
    Grain = 10
    FloatError = 1
    Tasks = {t1, t2}
    PoolMax = 1
    MaxRows = 2
    MaxQueryFaults = 1
    Wallets = {"w1", "w2"}
    Bouts = {b1, b2}
    MaxLoads = 2
    MaxSwitches = 2
    MaxPushes = 3
    MaxPlaced = 3
    MaxPushFaults = 1
    MaxAttempts = 2
    Sides = {"fighter_a", "draw"}
    Stakes = {1, 2}
    MaxSent = 2
    Terms = {"a", "b"}
    HomePages = 2
    MaxClicks = 3
    PageSize = 2
    Instances = {i1, i2}
    WhitelistTTL = 3
    MaxCalls = 3
    BetLimit = 1
    MaxPages = 2
    MaxBetRows = 5
INVARIANTS
    AlertsBounded AloneWithinTTL RowsCurrent ResetEndsSessions
    FreshUnlessLate BurstBounded SilentOnceUnsubscribed SuccessMeansApplied
     SentAsConfirmed RemovedOracleRefused ShownIsUsed
PROPERTIES
    ImplementsInvocation BlockedClientRecovers PagesCatchUp PoolRecovers
    ClaimAllTriesAll OddsSettle ListsFollowUser
