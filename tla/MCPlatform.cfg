SPECIFICATION PlatformSpec
SYMMETRY Symmetry
CONSTANTS
    Bettors = {b1, b2}
    Oracles = {o1, o2}
    Tokens = {t1}
    BetSides = {"FighterA", "FighterB"}
    BetAmounts = {10}
    ReportOutcomes = {"FighterA"}
    MinBet = 10
    MaxBet = 10
    FeeBps = 1000
    ScheduledAt = 1
    LockBefore = 0
    ResolutionWindow = 1
    MaxTime = 2
    FactorySigns = FALSE
    This = This
    DrawAmounts = {1, 2}
    Limits = {1}
    MinWithdrawal = 1
    DayLength = 1
    MaxHeld = 10
INVARIANTS
    CounterTracksTransfers
