SPECIFICATION FairSpec
CONSTANTS
    live = live
    demo = demo
    Slots = {p1, p2}
    Logins = {live, demo}
    NoLogin = NoLogin
    StartBalance <- MCStartBalance
    LossUsd = 2
    LossPct = 5
    TargetUsd = 2
    TargetPct = 2
    DrawdownPct = 3
    AccountFails = TRUE
    MaxMove = 1
    MaxTrades = 2
    MaxDay = 2
INVARIANTS
    TypeOK
    NoPhantomHalt
PROPERTIES
    LossDayIsOver
    HaltedGetsFlat
    ShortfallResumes
