\* The reboot procedure, with two commands put at any time.
CONSTANTS
    c1 = c1
    c2 = c2
    Commands = {c1, c2}
    Priority <- OnePriority
    Rebooter = rebooter
    Pausers = {rebooter}
    FirstAdapter = a0
    Fresh = a1
    NewAdapters = {a1}
    Executor = executor
SPECIFICATION RebootSpec
PROPERTIES RebootEnds
CHECK_DEADLOCK FALSE
