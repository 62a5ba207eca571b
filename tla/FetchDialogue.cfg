SPECIFICATION FairSpec
CONSTANTS
    Root = "root"
    Dotted = {".b"}
    Notations <- MCNotations
    LastDay = 2
    MaxCounts = 2
    MaxRetries = 1
    MaxDeaths = 2
    Capacity = 1
INVARIANTS
    ListIsTheDays
    DetailsOfTheDay
    OneRowPerName
PROPERTIES
    DialogueEnds
CHECK_DEADLOCK FALSE
