SPECIFICATION Spec
CONSTANTS
    Symbols = {"EURUSD", "XAUUSD"}
    Torn = Torn
    Base = 2
    HoursPerDay = 2
    MaintHour = 1
    FaultKinds = {"crash", "account", "bars", "raise", "save", "torn", "journal", "popen"}
    MaxFaults = 1
    MaxPositions = 3
    MaxClock = 5
INVARIANTS
    NoBarMissed
    MaintainedOnceADay
PROPERTIES
    ClosesOwnRow
    FileCatchesUp
CHECK_DEADLOCK FALSE
