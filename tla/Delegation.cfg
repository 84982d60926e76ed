SPECIFICATION FairSpec
CONSTANTS
    Root = root
    Children = {c1, c2}
    Messages = {}
    Outcomes = {"complete"}
    Causes = {"userCancelled"}
    Disturbances = {}
    MaxAttempt = 1
    MaxEpoch = 1
INVARIANT AwakeParentConsumed
PROPERTY ParentWakes
CHECK_DEADLOCK FALSE
