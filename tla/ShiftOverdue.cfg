\* A shift found open at the start that is older than Duration.
CONSTANTS
    Receipts = {r1}
    Closers = {}
    Duration = 2
    BootAges = {3}
    MaxAge = 3
    Faults = {}
SPECIFICATION FairSpec
PROPERTIES EveryShiftCloses
CHECK_DEADLOCK FALSE
