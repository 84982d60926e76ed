SPECIFICATION FairSpec
CONSTANTS
    Root = root
    Children = {c1}
    Messages = {}
    Outcomes = {"complete", "partial", "error"}
    Causes = {"userCancelled", "timeout"}
    Disturbances = {"interaction", "refusal", "shutdown"}
    MaxAttempt = 1
    MaxEpoch = 1
PROPERTY OwnedChildSettles
CHECK_DEADLOCK FALSE
