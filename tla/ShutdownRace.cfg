SPECIFICATION Spec
CONSTANTS
    Root = root
    Children = {c1}
    Messages = {}
    Outcomes = {"complete"}
    Causes = {}
    Disturbances = {"shutdown"}
    MaxAttempt = 1
    MaxEpoch = 1
INVARIANT ShutdownOwnsInterruption
CHECK_DEADLOCK FALSE
