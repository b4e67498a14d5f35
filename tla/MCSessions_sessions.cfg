SPECIFICATION Spec
CONSTANTS
    None = None
    Pending = Pending
    s1 = s1
    s2 = s2
    Sessions = {s1, s2}
    NumEvents = 2
    Plan <- MessageThenLink
    MaxJourneys = 2
    MaxMishaps = 1
    MaxOverlaps = 2
    MaxPayments = 1
SYMMETRY Symmetry
CHECK_DEADLOCK FALSE
INVARIANTS TypeOK BookedIsPaid RecoveredIsBooked LockHasHolder SerialCyclesAreSafe
