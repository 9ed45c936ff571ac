SPECIFICATION FactorySpec
SYMMETRY FactorySymmetry
CONSTANTS
    Admins = {a1}
    Oracles = {o1}
    Wasms = {w1, w2}
    BetLimits = {10}
    Fees = {200}
    Schedules = {1}
    MaxMarkets = 2
    FactoryTime = 1
PROPERTIES
    AllUpgraded
