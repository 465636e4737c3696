CONSTANTS
    Heights <- MCHeights
    Args <- MCArgsDelta1
    Concurrency = 1
    Capacity = 2
    MaxErrors = 0
    MaxStarts = 2
    NoHeight = NoHeight
SPECIFICATION Spec
CHECK_DEADLOCK FALSE
INVARIANT NoGap
