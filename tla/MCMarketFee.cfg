SPECIFICATION Spec
SYMMETRY Symmetry
CONSTANTS
    Bettors = {b1, b2, b3}
    Oracles = {o1, o2}
    Tokens = {t1}
    BetSides = {"FighterA"}
    BetAmounts = {10, 20, 30}
    ReportOutcomes = {"FighterA"}
    MinBet = 10
    MaxBet = 30
    FeeBps = 700
    ScheduledAt = 2
    LockBefore = 1
    ResolutionWindow = 1
    MaxTime = 2
    FactorySigns = FALSE
INVARIANTS
    EveryWinnerPayable
