\* Three requests that meet in every way, storages in memory or in a database, cut off
\* anywhere.
CONSTANTS
    r1 = r1
    r2 = r2
    r3 = r3
    Requests <- SomeRequests
    Methods <- AllMethods
    Admin = admin
    g1 = g1
    Groups <- OneGroup
    id02 = id02
    id01 = id01
    OtherNames <- OtherSpellings
    Reads <- ReadAs
    l1 = l1
    l2 = l2
    Logins <- AllLogins
    Jobs <- SomeJobs
    FirstUsers = 2
    Faults = {"cut"}
    None = None
SPECIFICATION Spec
INVARIANTS TypeOK
PROPERTIES NobodyInherits RightsAsAsked OkIsDone
SYMMETRY Alike
CHECK_DEADLOCK FALSE
