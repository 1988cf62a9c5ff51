SPECIFICATION Spec
CONSTANTS
    Symbols <- MCSymbols
    Market <- MCMarket
    Offset = 3
    History = 3
    ChunkHours = 2
    RangeCap = 2
    FaultKinds = {"nobars", "raise", "sql", "kill"}
    MaxFaults = 1
    MaxHour = 4
    LabelBars = 2
    MinRows = 8
    MaxBuilds = 2
INVARIANTS
    HolesAccountedFor
    FreshBrainMatches
    RecalledOutcomesKnownWithoutGaps
PROPERTIES
    RowsKeepUp
    BackfillRepairs
    PumpCatchesUp
CHECK_DEADLOCK FALSE
