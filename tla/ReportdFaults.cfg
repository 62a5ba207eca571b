SPECIFICATION Spec
CONSTANTS
    f1 = f1
    f2 = f2
    a = a
    b = b
    rec1 = rec1
    rec2 = rec2
    Fetchers = {f1, f2}
    Domains = {a, b}
    Records = {rec1, rec2}
    Traffic <- MCTraffic
    KeepDays = 2
    MaxRetries = 1
    LastDate = 3
    MaxStarts = 2
    Crashes = TRUE
    Garbage = TRUE
    Hangs = TRUE
    CutShort = {f2}
INVARIANTS
    ReportsMatchData
    ListsAreWhole
    UniqueReportIds
    
CHECK_DEADLOCK FALSE
