CONSTANTS
    MaxTime = 15
    TransfersEnabled = 1
    None = None
    LastHeight = 5
    Lockups = {"l1", "l2"}
    Chains <- MCChains
    BuggyVersions = {"buggy"}
    FixedVersions = {"fixed"}
    Day = 4
    TenMinutes = 1
    MaxLag = 1
    TotalSupply = 9
    FoundationLocked = 1
    MaxErrors = 1
    MaxRestarts = 1
SPECIFICATION FairSpec
INVARIANT LastBlockOfDay
INVARIANT NoLockupMissed
INVARIANT EarlierDaysComputed
INVARIANT SupplyFits
INVARIANT LockedNeverGrows
PROPERTY EveryDayComputed
