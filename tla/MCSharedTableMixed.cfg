SPECIFICATION Spec
CONSTANTS
    Threads = {t1, t2}
    NoThread = NoThread
    MaxKey = 2
    Values = {1, 2}
    Mixes = {{"get", "set", "append", "clear", "freeze", "unfreeze", "foreach"},
             {"sort", "concat", "set", "remove"},
             {"index", "move", "clone", "clear"}}
    Policies = {"readers"}
SYMMETRY Symmetry
INVARIANTS
    UndisturbedIsAtomic
    OnlyClearFrees
\* After an undefined read the program has no next step.
CHECK_DEADLOCK FALSE
