CONSTANTS
    None = None
    Kinds <- CriticalDurable
    Sessions = {s1, s2}
    Conns = {c1, c2}
    Producers = {p1}
    MaxEvents = 2
    MaxBinds = 2
    ChannelCapacity = 1
    PendingCapacity = 1
    PendingTotal = 1
    QueueLimit = 1
SPECIFICATION Spec
INVARIANTS NothingMissed NoForeignEvent PendingBounded NeverBlocks
PROPERTY ViewKept
SYMMETRY Symmetry
CHECK_DEADLOCK FALSE
