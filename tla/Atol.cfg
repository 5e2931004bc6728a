\* Normal and test mode, answers lost or not, every call refused at will, parameters and
\* queries too, and the device out of reach at any time; no symmetry, for liveness.
CONSTANTS
    Receipts = {r1, r2, r3}
    ShiftCalls = {s1}
    Goods = 2
    Payments = 1
    Polls = 10
    Faults <- AllFaults
    None = None
SPECIFICATION FairSpec
INVARIANTS TypeOK NoForeignLines
PROPERTIES PrintedOnce EveryCallTold
CHECK_DEADLOCK FALSE
