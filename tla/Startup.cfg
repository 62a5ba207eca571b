SPECIFICATION FairSpec
CONSTANTS
    Known <- MCKnown
    Numeric = {"sockettimeout"}
    Numbers = {"5"}
    Empty = ""
    Default <- MCDefault
    NoText = NoText
    Unnamed = Unnamed
    Absent = Absent
    Foreign = Foreign
    Processes = {"p1", "p2"}
    Givens <- MCGivens
    Urls <- MCUrls
    LogLevels = {"warn"}
    FetcherLists = {"fetcher"}
    Databases = {"db1", "db2"}
    Dbname = "db1"
    MaxMishaps = 2
INVARIANTS
    Reachable
    StartsFailForAReason
    LeftoversExplained
PROPERTIES
    ServiceReturns
CHECK_DEADLOCK FALSE
