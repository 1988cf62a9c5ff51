SPECIFICATION FairSpec
CONSTANTS
    Prices <- MCPrices
    Volumes = {400}
    VolumeMin = 100
    FallsShort = {300}
    FaultKinds = {"lost", "blind", "noprice", "nospecs", "raise", "crash"}
    MaxFaults = 1
    MaxBars = 1
    StopAtr = 40
    TakeAtr = 60
    ScaleOut1 = 20
    ScaleOut2 = 40
    ScalePct = 33
    LockArm = 20
    LockPlus = 2
    RatchetArm = 30
    RatchetLock = 10
    Ratchet2Arm = 40
    Ratchet2Lock = 20
    TrailArm = 35
    TrailDistance = 15
    RetraceArm = 30
    RetraceKeepPct = 50
    PartialBars = 1
    PartialProfit = 10
    TimeLimit = 1
    FlipExit = 5
    FlipTighten = 15
INVARIANTS
    EachPartialOnce
PROPERTIES
    LadderOnlyImproves
    PartialKeepsRunner
    TimeStopCloses
CHECK_DEADLOCK FALSE
