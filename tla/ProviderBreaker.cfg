SPECIFICATION Spec
CONSTANTS
    Callers = {c1, c2}
    FAILURE_THRESHOLD = 3
    DEGRADE_WINDOW = 2
    MaxClock = 5
INVARIANTS DegradedIffStreak
