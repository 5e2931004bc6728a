\* Either read model; saves that fail, restarts, devices that refuse, hang or are stopped and
\* followed by another, clients that go away; no symmetry, for liveness.
CONSTANTS
    Receipts = {r1, r2}
    Faults <- AllFaults
    MaxRestarts = 2
    MaxDevices = 2
    None = None
SPECIFICATION FairSpec
INVARIANTS TypeOK RecordedFirst EventsTellTruth
PROPERTIES NeverOverwritten AcceptedIsProcessed
CHECK_DEADLOCK FALSE
