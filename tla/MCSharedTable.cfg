SPECIFICATION Spec
CONSTANTS
    Threads = {t1, t2}
    NoThread = NoThread
    MaxKey = 3
    Values = {1}
    Mixes = {{"append", "insert", "remove", "foreach"}}
    Policies = {"readers", "writers"}
SYMMETRY Symmetry
INVARIANTS
    TypeOK
    UndisturbedIsAtomic
    ArrayUntilCleared
    StuckOnlyWhenNested
\* A nested reader and a waiting writer may block one another.
CHECK_DEADLOCK FALSE
