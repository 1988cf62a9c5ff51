SPECIFICATION Spec
CONSTANTS
    Tickets = {t1, t2, t3}
    Symbols = {s1, s2}
    None = None
    FaultKinds = {"crash", "reply", "history", "journal", "raise"}
    MaxFaults = 2
INVARIANTS
    TypeOK
    CountedOnce
    OnePerSymbol
    ClosedRowIsClosed
    JournaledIsDurable
    RowsTellTruth
PROPERTIES
    ImplementsLedger
