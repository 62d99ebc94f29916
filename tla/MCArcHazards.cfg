SPECIFICATION Spec
CONSTANTS
    Threads = {t1, t2}
    Vars = {v1, v2, v3}
    Headers = {h1, h2}
    Addrs = {a1}
    NoThread = NoThread
    NoVar = NoVar
    NoHeader = NoHeader
    SizeMax = 4
    SelfAssign = TRUE
    GetsArc = TRUE
    StrayOutcomes = {"ignored", "released"}
    WriteUnlocks = {"one", "all"}
SYMMETRY Symmetry
INVARIANTS
    CountExact
    NoDangling
    FreedOnlyWhenTainted
\* A corrupt rwlock or mutex can block every thread.
CHECK_DEADLOCK FALSE
