SPECIFICATION FairSpec
CONSTANTS
    Threads = {t1, t2}
    Vars = {v1, v2, v3}
    Headers = {h1, h2}
    Addrs = {a1, a2}
    NoThread = NoThread
    NoVar = NoVar
    NoHeader = NoHeader
    SizeMax = 4
    SelfAssign = FALSE
    GetsArc = FALSE
    StrayOutcomes = {"ignored"}
    WriteUnlocks = {"one"}
INVARIANTS
    HoldersAreGuards
PROPERTIES
    ImplementsOwnership
    GuardGranted
