SPECIFICATION FairSpec
CONSTANTS
    good = good
    flawed = flawed
    hollow = hollow
    odd = odd
    noise = noise
    Datagrams = {good, flawed, hollow, odd, noise}
    Policies <- MCPolicies
    Garbage = {noise}
    Misshapen = {odd}
    Storages <- SQLiteDummySQLite
    DumpPathSet = TRUE
    MaxSent = 3
    MaxErrors = 1
    MaxSignals = 2
INVARIANTS
    InOrderOnce
    FirstStorageMissesNothing
    ShutdownFlushes
PROPERTIES
    TerminationObeyed
CHECK_DEADLOCK FALSE
