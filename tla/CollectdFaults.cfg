SPECIFICATION Spec
CONSTANTS
    LastDate = 3
    MaxUncommitted = 2
    RetryCount = 2
    MaxDatagrams = 3
    MaxStarts = 3
    MaxBusy = 1
    MaxFull = 1
    MaxPartial = 1
    MaxDevel = 0
    Crashes = TRUE
    Punctual = TRUE
    BusyOutlastsTimeout = TRUE
INVARIANTS
    Conservation
    SealedComplete
    RetainedADay
PROPERTIES
    StoreKeepsPromise
CHECK_DEADLOCK FALSE
