SPECIFICATION FairSpec
CONSTANTS
    Root = root
    Children = {c1}
    Messages = {}
    Outcomes = {"complete"}
    Causes = {"userCancelled"}
    Disturbances = {}
    MaxAttempt = 1
    MaxEpoch = 1
PROPERTY StoppedChildSettles
CHECK_DEADLOCK FALSE
