SPECIFICATION FairSpec
CONSTANTS
    Tickets = {t1, t2}
    Symbols = {s1, s2}
    None = None
    FaultKinds = {"crash", "save", "journal", "history", "reply", "partial", "raise", "readraise", "blind"}
    MaxFaults = 2
INVARIANTS
    OvercountBounded
PROPERTIES
    EventuallyManaged
    EventuallyCounted
