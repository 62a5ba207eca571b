SPECIFICATION FairSpec
CONSTANTS
    p = p
    q = q
    mail = mail
    post = post
    fax = fax
    Reports = {p, q}
    Destinations = {mail, post, fax}
    Ruas <- DuplicateRuas
    Unknown = {fax}
    MaxRetries = 1
    MaxStarts = 2
    Crashes = TRUE
    Blocks = TRUE
INVARIANTS
    WholeReports
    SentMeansDelivered
    OneCopyUnlessExcused
    BoundedRuns
PROPERTIES
    KeepsPromise
    EveryDestinationDecided
CHECK_DEADLOCK FALSE
