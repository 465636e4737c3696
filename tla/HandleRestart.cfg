CONSTANTS
    LastBlock = 3
    Chunks <- MCChunks
    BlockOf <- MCBlockOf
    Txs <- MCTxs
    TxHash <- MCCollidingTxHash
    TxChunk <- MCTxChunk
    ActionReceipts <- MCActionReceipts
    DataReceipts <- MCDataReceipts
    Parent <- MCParent
    IncludedIn <- MCIncludedIn
    ExecutedIn <- MCExecutedIn
    Root <- MCRoot
    NoChunk = "none"
    NoName = NoName
    FirstBlock = 1
    Concurrency = 1
    StrictMode = TRUE
    RetriesLeft = 4
    CacheSize = 10
    FkRetryCovers = TRUE
    MaxFaults = 1
    MaxCrashes = 1
SPECIFICATION Spec
INVARIANTS CacheDrained NothingSkipped
