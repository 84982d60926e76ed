SPECIFICATION Spec
CONSTANTS
    Root = root
    Children = {c1}
    Messages = {m1}
    Outcomes = {"complete"}
    Causes = {"userCancelled"}
    Disturbances = {"interaction", "refusal", "shutdown", "crash"}
    MaxAttempt = 2
    MaxEpoch = 2
INVARIANTS TypeOK ResultMatchesTerminal PairAgreement OwnerIsCurrent CauseWins InboxClosed
PROPERTIES NeverReawakened TerminalImmutable ImplementsContract
CHECK_DEADLOCK FALSE
