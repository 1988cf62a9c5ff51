SPECIFICATION Spec
CONSTANTS
    Tickets = {t1, t2}
    Symbols = {s1, s2}
    None = None
    FaultKinds = {"blind"}
    MaxFaults = 1
INVARIANT
    ClosedRowIsClosed
