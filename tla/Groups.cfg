\* Several administrators or one who waits for each answer, a group and another one that
\* may be made, both drivers, devices that refuse, clients that go away, commands that
\* never end; no symmetry, for liveness.
CONSTANTS
    MaxGroups = 2
    FirstGroups = 1
    Drivers = {"test", "atol"}
    Requests = {q1, q2, q3}
    Kinds = {"run", "stop", "delete", "close"}
    MaxQueue = 1
    Faults = {"connect", "info", "close", "disconnect", "hang"}
    None = None
SPECIFICATION FairSpec
INVARIANTS TypeOK CommandsOnOpenAdapter AttachedIsOpen LeaksAreErrors OneAdapterPerDevice
    DevicesCanBeStopped
PROPERTIES NeverEvicts EveryRequestAnswered
CHECK_DEADLOCK FALSE
