SPECIFICATION FairSpec
CONSTANTS
    LastDate = 2
    MaxUncommitted = 2
    RetryCount = 2
    MaxDatagrams = 4
    MaxStarts = 2
    MaxBusy = 1
    MaxFull = 1
    MaxPartial = 0
    MaxDevel = 1
    Crashes = FALSE
    Punctual = TRUE
    BusyOutlastsTimeout = FALSE
INVARIANTS
    OrderlyKeepsAll
    UncommittedBound
PROPERTIES
    Flushed
    RolledOver
CHECK_DEADLOCK FALSE
