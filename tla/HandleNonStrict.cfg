CONSTANTS
    LastBlock = 3
    Chunks <- MCChunks
    BlockOf <- MCBlockOf
    Txs <- MCTxs
    TxHash <- MCTxHash
    TxChunk <- MCTxChunk
    ActionReceipts <- MCActionReceipts
    DataReceipts <- MCDataReceipts
    Parent <- MCParent
    IncludedIn <- MCIncludedIn
    ExecutedIn <- MCExecutedIn
    Root <- MCRoot
    NoChunk = "none"
    NoName = NoName
    FirstBlock = 2
    Concurrency = 2
    StrictMode = FALSE
    RetriesLeft = 1
    CacheSize = 10
    FkRetryCovers = FALSE
    MaxFaults = 1
    MaxCrashes = 0
SPECIFICATION FairSpec
INVARIANT TypeOK
PROPERTY NonStrictNeverStuck
