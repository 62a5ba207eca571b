SPECIFICATION Spec
CONSTANTS
    LastDate = 3
    MaxUncommitted = 2
    RetryCount = 2
    MaxDatagrams = 3
    MaxStarts = 1
    MaxBusy = 1
    MaxFull = 0
    MaxPartial = 0
    MaxDevel = 0
    Crashes = FALSE
    Punctual = TRUE
    BusyOutlastsTimeout = TRUE
INVARIANTS
    NeverDies
CHECK_DEADLOCK FALSE
