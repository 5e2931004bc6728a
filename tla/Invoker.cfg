\* Every caller: two commands of one priority and an urgent one, a pauser,
\* a replacement of the device, a detach.
CONSTANTS
    c1 = c1
    c2 = c2
    c3 = c3
    Commands = {c1, c2, c3}
    Priority <- TwoPriorities
    Pausers = {p1}
    FirstAdapter = a0
    NewAdapters = {a1}
    Executor = executor
SPECIFICATION FairSpec
INVARIANTS TypeOK MutualExclusion NoStrandedCommand UnfinishedCounted NoCommandOnClosedAdapter
PROPERTIES ServesInOrder ServesEverything DetachEnds
CHECK_DEADLOCK FALSE
