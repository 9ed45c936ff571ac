SPECIFICATION Spec
SYMMETRY Symmetry
CONSTANTS
    Bettors = {b1, b2, b3}
    Oracles = {o1, o2, o3}
    Tokens = {t1, t2}
    BetSides = {"FighterA", "FighterB"}
    BetAmounts = {0, 10, 20}
    ReportOutcomes = {"FighterA", "Draw", "NoContest"}
    MinBet = 10
    MaxBet = 20
    FeeBps = 700
    ScheduledAt = 2
    LockBefore = 1
    ResolutionWindow = 1
    MaxTime = 4
    FactorySigns = TRUE
INVARIANTS
    RefundsCovered
    FirstClaimPayable
    PayoutsWithinNetPool
PROPERTIES
    ImplementsEscrow
    EstimateIsHonest
    OutcomeFinal
    TwoOraclesDecide
