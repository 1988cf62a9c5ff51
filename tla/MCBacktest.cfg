SPECIFICATION Spec
CONSTANTS
    Classes = {"crypto", "forex"}
    Calendar <- MCCalendar
    CleanSets <- MCCleanSets
    Chunk = 4
    LabelBars = 2
    CooldownBars = 1
    LossCooldown = 3
    RepeatWindow = 1
    RepeatCooldown = 4
    DeadHours = {22}
    ThinHours <- MCThinHours
    FridayNoEntryHour = 19
    SundayOpenHour = 15
    Shapes <- MCShapes
    Whole = 200
    ScaleUnits = 66
    StopAtr = 40
    TakeAtr = 60
    ScaleOut1 = 20
    ScaleOut2 = 40
    LockArm = 20
    LockPlus = 2
    RatchetArm = 30
    RatchetLock = 10
    Ratchet2Arm = 40
    Ratchet2Lock = 20
    TrailArm = 35
    TrailDistance = 15
    RetraceArm = 30
    RetraceKeepPct = 50
    PartialBars = 1
    PartialProfit = 10
    TimeLimit = 3
    FlattenHour = 20
    RolloverHour = 21
INVARIANTS
    TradeAddsUp
    TradesKeepApart
    StopBansHold
    NoVerdictMissed
PROPERTIES
    LocksHold
CHECK_DEADLOCK FALSE
