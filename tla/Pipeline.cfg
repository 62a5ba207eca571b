SPECIFICATION FairSpec
CONSTANTS
    Fetchers = {f1, f2}
    Sessions = {2}
    KeepDays = 4
    MaxRetries = 1
    LastDate = 2
    MaxStarts = 1
    MaxMishaps = 1
INVARIANTS
    ReportsAreExact
    NobodyForgotten
PROPERTIES
    SessionsReported
CHECK_DEADLOCK FALSE
