\* The manager is closed while a device is being stopped.
CONSTANTS
    MaxGroups = 3
    FirstGroups = 3
    Drivers = {"test"}
    Requests = {q1, q2, q3, q4, q5}
    Kinds = {"run", "stop", "close"}
    MaxQueue = 1
    Faults = {}
    None = None
SPECIFICATION Spec
INVARIANTS CloseDetachesAll
SYMMETRY Symmetry
CHECK_DEADLOCK FALSE
