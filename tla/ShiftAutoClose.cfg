\* Long enough for the timer to close the shift.
CONSTANTS
    Receipts = {r1, r2}
    Closers = {}
    Duration = 2
    BootAges = {1}
    MaxAge = 3
    Faults = {}
SPECIFICATION FairSpec
PROPERTIES EveryCallReturns
CHECK_DEADLOCK FALSE
