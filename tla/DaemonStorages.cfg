SPECIFICATION Spec
CONSTANTS
    good = good
    flawed = flawed
    hollow = hollow
    odd = odd
    noise = noise
    Datagrams = {good}
    Policies <- OnePolicy
    Garbage = {}
    Misshapen = {}
    Storages <- TwoSQLite
    DumpPathSet = TRUE
    MaxSent = 1
    MaxErrors = 0
    MaxSignals = 0
INVARIANTS
    EveryStorageCounts
CHECK_DEADLOCK FALSE
