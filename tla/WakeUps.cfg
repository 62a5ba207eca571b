SPECIFICATION Spec
CONSTANTS
    Jobs = {j1}
    Bookings = {b1, b2, b3}
    Interval = 3
    CheckWait = 1
    Waits <- MCWaits
    MaxRetries = 1
    Midnight = 1
    MaxRound = 1
    EndTime = 13
    size = 2
    MaxGets = 3
INVARIANTS
    NothingForgotten
    
    SignalObeyed
    Flat
PROPERTIES
    NoSpin
SYMMETRY MCSymmetry
CHECK_DEADLOCK FALSE
