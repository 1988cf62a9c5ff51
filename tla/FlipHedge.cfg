SPECIFICATION Spec
CONSTANTS
    Universe = {"EURUSD", "USDJPY"}
    PairOf <- MCPairOf
    MaxTicket = 3
    Equities = {1}
    MaxPositions = 3
    TotalPct = 3
    CcyPct = 1
    NewRisks = {1}
    Dists <- MCDists
    CooldownBars = 1
    LossCooldown = 2
    RepeatWindow = 4
    RepeatCooldown = 4
    PerfWindow = 2
    PerfMinTrades = 2
    PerfBlockR <- MCPerfBlockR
    Offset = 0
    HistoryFails = FALSE
    MaxHour = 1
PROPERTY CurrencyCapAtEntry
CHECK_DEADLOCK FALSE
