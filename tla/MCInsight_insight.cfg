SPECIFICATION Spec
CONSTANTS
    s1 = s1
    s2 = s2
    c1 = c1
    upi = upi
    None = None
    Sessions <- TwoSessions
    Cells = {c1}
    Scopes = {upi}
    Traffic <- SomeTraffic
    History <- Past
    MaxOutcomes = 3
    MaxWindows = 3
    MIN_TRIALS_FOR_CONFIDENCE = 3
SYMMETRY SessionsAreAlike
CHECK_DEADLOCK FALSE
INVARIANTS TypeOK RateMatchesSuccesses  WindowsPerScope
