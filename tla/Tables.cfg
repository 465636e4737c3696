CONSTANTS
    LastBlock = 2
    MaxActions = 3
    MaxAccounts = 2
    MaxMixed = 2
    Accounts <- MCAccounts
    Implicit = {"implicit"}
    Hex = {"implicit"}
    PublicKeys = {"key"}
    ImplicitKey <- MCImplicitKey
    Genesis = {"named"}
    GenesisKeys <- MCGenesisKeys
    GenesisRecords <- MCGenesisRecords
    BatchSize = 1
    NoReceipt = NoReceipt
    NoRow <- MCNoRow
    Concurrency = 1
    StrictMode = TRUE
    MaxFaults = 1
    MaxRestarts = 1
SPECIFICATION Spec
INVARIANT TypeOK
INVARIANT GenesisIsStored
INVARIANT AccountsOfChain
INVARIANT NoKeyOutlivesOwner
INVARIANT KeysOfChain
INVARIANT ImplicitCreatorKept
PROPERTY RowsOnlyAdvance
