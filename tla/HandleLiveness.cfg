CONSTANTS
    LastBlock = 3
    Chunks <- MCChunks
    BlockOf <- MCBlockOf
    Txs <- MCTxs
    TxHash <- MCTxHash
    TxChunk <- MCTxChunk
    ActionReceipts <- MCActionReceipts
    DataReceipts <- MCDataReceipts
    Parent <- MCParent
    IncludedIn <- MCIncludedIn
    ExecutedIn <- MCExecutedIn
    Root <- MCRoot
    NoChunk = "none"
    NoName = NoName
    FirstBlock = 1
    Concurrency = 2
    StrictMode = TRUE
    RetriesLeft = 4
    CacheSize = 10
    FkRetryCovers = TRUE
    MaxFaults = 0
    MaxCrashes = 0
SPECIFICATION FairSpec
PROPERTY EveryBlockHandled
