CONSTANTS
    r1 = r1
    i1 = i1
    i2 = i2
    Runs = {r1}
    Ids = {i1, i2}
    RunOf <- MCRunOf
    KindOf <- MCKindOf
    Decisions = {"answered"}
    Callers = {w1, w2}
    Capacity = 2
    Elsewhere = {0, 2}
    MaxGeneration = 2
    MaxDue = 1
    MaxFaults = 1
SPECIFICATION Spec
INVARIANTS CapacityAccounted WaiterSeesOutcome NoLostWakeup RunningHasNoPending WaitingHasReason
PROPERTY ImplementsContract
SYMMETRY Symmetry
CHECK_DEADLOCK FALSE
