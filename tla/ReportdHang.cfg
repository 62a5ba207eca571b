SPECIFICATION FairSpec
CONSTANTS
    f1 = f1
    f2 = f2
    a = a
    b = b
    rec1 = rec1
    rec2 = rec2
    Fetchers = {f1}
    Domains = {a}
    Records = {rec1}
    Traffic <- SmallTraffic
    KeepDays = 2
    MaxRetries = 1
    LastDate = 2
    MaxStarts = 1
    Crashes = FALSE
    Garbage = FALSE
    Hangs = TRUE
    CutShort = {}
PROPERTIES
    FetchersTimeOut
CHECK_DEADLOCK FALSE
