CONSTANTS
    Indexers = {"i1", "i2"}
    Shards = {"s1", "s2"}
    Messages <- MCMessages
    BatchSize = 2
    StrictMode = TRUE
    MaxRuns = 4
    MaxFaults = 2
SPECIFICATION Spec
INVARIANT EventsOfBlock
INVARIANT OnlySkippedRefused
INVARIANT ChangesOfBlock
