\* Every caller and every refusal of the device, or a calm day; no symmetry, for liveness.
CONSTANTS
    Receipts = {r1, r2, r3}
    Closers = {m1, m2}
    Duration = 2
    BootAges = {1, 3}
    MaxAge = 3
    Faults <- AllFaults
SPECIFICATION FairSpec
INVARIANTS TypeOK OutcomeTrue ArmedTimerMatchesShift ClosingFence OpenShiftIsTimed
PROPERTIES AnsweredUntilClosing EveryTimelyShiftCloses
CHECK_DEADLOCK FALSE
