SPECIFICATION ContractsSpec
SYMMETRY Symmetry
CONSTANTS
    Markets = {m1, m2}
    Tokens = {t1, t2}
    FeeAmounts = {1}
    DrawAmounts = {1}
    Limits = {0, 1, 2}
    MinWithdrawal = 1
    DayLength = 1
    MaxTime = 2
    MaxHeld = 1
    Admins = {a1, a2}
    Oracles = {o1}
    Wasms = {w1}
    BetLimits = {0, 10, 20}
    Fees = {200, 2000}
    Schedules = {1}
    MaxMarkets = 2
    FactoryTime = 1
INVARIANTS
    
    DailyExact
    DayCapped
    ListsSound
    NominationIsCurrent
