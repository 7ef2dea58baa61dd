\* One payment in each asset, two handlers pricing it, and a verification of it.
SPECIFICATION Spec
CONSTANTS
    Settings <- TheSettings
    Base = 20
    MaxCents = 1000000
    UnitsIn = 1
    Guard = 100
    MaxUnits = 1000
    Askers = {h1, h2}
    MarketPrices = {9, 10}
    SeedPrice = 8
    SeedTimes = {0}
    FloorPrice = 11
    CacheTTL = 1
    MaxAge = 1
    MaxClock = 2
    Transfers = {1, 2, 3}
    Amount <- TheAmounts
    ToPlatform = {1, 2}
    Checks = {v1}
    MinConf <- Depths
    MaxReorg = 1
    Drift = 1
    MaxTip = 5
INVARIANTS TypeOK StampsAreHonest QuoteIsFresh QuotePaysTotal NoMixedRealms NeverUnderpaid
PROPERTIES KeepsPort
SYMMETRY Symmetry
CHECK_DEADLOCK FALSE
