\* One receipt and a device that obeys.
CONSTANTS
    Receipts = {r1}
    Faults = {}
    MaxRestarts = 0
    MaxDevices = 2
    None = None
SPECIFICATION Spec
INVARIANTS SuccessIsShown
CHECK_DEADLOCK FALSE
