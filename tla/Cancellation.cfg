SPECIFICATION FairSpec
CONSTANTS
    Root = root
    Children = {c1}
    Attached = {c1}
    Cancellers = {k1}
    MaxEntries = 3
    MaxFailures = 1
PROPERTIES IntentBecomesDurable AttachedChildrenEnd
INVARIANTS ReceiptIsDurable FenceIsReleased
CHECK_DEADLOCK FALSE
