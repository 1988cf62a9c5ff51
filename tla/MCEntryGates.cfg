SPECIFICATION Spec
CONSTANTS
    Universe = {"EURUSD", "USDJPY"}
    PairOf <- MCPairOf
    MaxTicket = 3
    Equities = {1}
    MaxPositions = 2
    TotalPct = 3
    CcyPct = 2
    NewRisks = {2}
    Dists <- MCDists
    CooldownBars = 0
    LossCooldown = 1
    RepeatWindow = 2
    RepeatCooldown = 2
    PerfWindow = 1
    PerfMinTrades = 2
    PerfBlockR <- MCPerfBlockR
    Offset = 1
    HistoryFails = TRUE
    MaxHour = 3
PROPERTIES
    EntriesWithinCaps
    CurrencyCapOnFreshBook
    NoEntryAgainstRecord
CHECK_DEADLOCK FALSE
