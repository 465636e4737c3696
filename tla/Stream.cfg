CONSTANTS
    Heights <- MCHeights
    Args <- MCArgs
    Concurrency = 1
    Capacity = 2
    MaxErrors = 1
    MaxStarts = 3
    NoHeight = NoHeight
SPECIFICATION FairSpec
CHECK_DEADLOCK FALSE
INVARIANTS TypeOK NoGap
PROPERTY EventuallyHandled
