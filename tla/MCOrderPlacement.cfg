SPECIFICATION Spec
CONSTANTS
    Prices <- MCPrices
    Specs <- MCSpecs
    Equities = {400, 3000}
    Tiers = {5, 10, 20}
    SlicePct = 20
    SymbolCapital = 500
    CeilingPerMille = 3
    NotionalFactor = 3
    NotionalAbs = 1200
    MaxDrift = 6
    StopDist = 40
    MinDist = 3
    Retries = 3
INVARIANTS
    SizeIsLargestAllowed
    NoModeLeftUntried
    LearntModeHolds
